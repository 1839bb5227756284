# TLA+ model of mount-wrapper

mount-wrapper is a daemon that watches directories for archives (tar, zip, 7z,
...), has `ratarmount` build an index of each new archive, mounts it with FUSE,
runs first-mount hooks on it, and takes everything down again when the archive
goes away. One SQLite row per archive is the source of truth; children, index
files and mount points are its shadows in the operating system, and most of the
code exists to keep the shadows and the rows together while files change,
children die and the daemon itself is killed.

The centre of the model is the daemon with its rows, children and index files
(`MountDaemon`). Around it are eight views, each of which looks closer at something the
centre takes as one step: conversion and relocation of archive files (`ConvertJobs`),
the hooks of an archive (`HooksRunner`, which implements the abstract `HookCycle`),
purge and overlays (`ArchivePurge`), the cache of converted copies (`OuterCache`),
conversion in place (`InplaceConvert`), mount names and directories (`MountNames`),
the run loop with its locks, clients and configuration (`ServiceFront`), and the
event stream to the dashboards (`EventStream`).

## Inventory

| Component | State it keeps | Operations | Interacts by | Hard because | Correct when |
|---|---|---|---|---|---|
| `state` | `archives`, `hooks` tables | `Transition` and the methods built on it | called by every other part | two-transaction methods, fields filled in implicitly | only table transitions; pid and first mount agree with the status |
| `mounter` | live registry, polls, convert jobs, names under `mount_root` | `BeginMount`, `ProgressLive`, `CompleteIndexAndStartMount`, `MarkMounted`, `MarkFailed`, `Unmount` | spawns and polls children, writes rows, deletes index files | children end at any time; work is retried; names are chosen anew | slots are bounded, one FUSE child per mount path, each path shows its archive |
| `reconcile` | probes, callbacks | `Reconcile`, `Boot`, `CleanupPartialIndexes` | reads rows and probes, writes rows, drops live children | decides from evidence that may be stale | dead mounts noticed, live ones kept, no orphan after boot |
| `scanner` | stable gate | `Scan`, gate `Check`, `ForgetMissing` | inserts and updates rows | files change between scans | only stable files start work; gone files become absent |
| `hooks` | hook rows | `RunForArchive` | moves the row to hooks_running and back | retries, timeouts, crash while running, hooks that come and go | success means that every hook ran to its end, and is never repeated by itself |
| `cleaner` | quarantine, cache and mount directories | `Run`, `PurgeArchive` | unmounts, deletes files and rows | artifacts and row are not one transaction | edits are kept as the policy says; what is in use is not removed |
| `service` | flags, locks, phase of the tick | `Start`, `Tick`, `Shutdown`, control operations | calls all of the above under `opMu` | lock order, order of phases | every request is served in the end, a stop cuts nothing |
| `convert` | jobs, outer cache, lock files, work beside archives | archiveconverter, zip repack, flatten, cache populate | goroutines beside the tick; other processes on the same cache | results meet rows that moved on; crash between two renames | a job ends in one outcome, content is never only in a broken file |
| `archives` | relocated files | rename or copy, remove the superseded source | called by the engine | crash between file and row | never loses the only copy |
| `control` | connections | accept, read frame, answer | inside the tick | silent clients | a silent client holds up nobody for good |
| `api`, `web` | SSE subscribers, dashboards' tables | handlers, event stream, merge, polling | `HandleRequest`, `NotifyChange` | coalesced wake-ups, stale answers, dropped connections | a dashboard converges to the daemon's document |
| `config` | the configuration in memory and its file | load, set, reload | `config_set`, SIGHUP, an editor | two writers of one file | what was set is in effect, and memory follows the file |
| `status`, `metrics` | caches of sizes | snapshot, delta | read rows | stale caches | differences plus snapshots are the document |
| `paths`, `match`, `platform`, `doctor`, `cli`, `webui` | none to speak of | parsing, naming, probing, presentation | | | not state machines |

`PROJECT.json` lists the same components with what is modelled of each, and the
hazards of the code, at their lines, with the properties that watch them.

## Modules

| Module | Models |
|---|---|
| `ArchiveStatus` | `statuses.go`: statuses, the transition table and its subsets |
| `ArchiveRow` | one row, and what each method of `store.go` makes of it, as operators from row to row |
| `DaemonState` | the variables shared by the parts of the daemon, `TypeOK`, and the predicates all parts ask (alive, mounted, index there, slots) |
| `MountEngine` | `engine.go`, `startPendingWork`, `retryStuckIndexWork` |
| `Reconciler` | `decide.go`, `apply.go`, `reconciler.go` and `Service.Start` |
| `Scanner` | `scanner.go`, `stable.go` |
| `ArchiveUpkeep` | the hook cycle with its summed outcome, the purge of `cleaner.go` |
| `ControlOps` | `control_ops.go` |
| `MountDaemon` | `tick.go`, `Shutdown`, crash; children, files, time; the properties |
| `ConvertJobs` | `engine_jobs.go`, `relocate.go`, `archiveconverter.go`, and what of the tick reads or writes `archive_path` |
| `HookCycle` | the promise of a hook cycle: what success means |
| `HooksRunner` | `runner.go`, `discover.go`, `security.go`, `classify.go`, the hook rows of `store.go` |
| `ArchivePurge` | `PurgeArchive`, `overlay.go`, `quarantine.go` |
| `OuterCache` | `outer_cache.go`, `nonsolid_cache.go`, the `filelock_unix.go` of both packages |
| `InplaceConvert` | `flatten_run.go`, `ziprepack_run.go`, the sidecar of `metadata.go` |
| `MountNames` | `mountNameForRec`, `SanitizeMountName`, `orphans_unix.go`, `mounts.go` |
| `Durations` | `duration.go` |
| `ServiceFront` | the run loop, `reload`, `config_set`, `Shutdown`, `control/server.go`, the settings form |
| `EventStream` | `sse.go`, `sse_diff.go`, `build.go`, `app.svelte.ts`, `merge.ts`, `sse.ts` |
| `MC...` | instances for TLC |
| `..._proofs` | theorems |

`DaemonState` declares the variables and every part of the daemon EXTENDS it, so the
parts are disjuncts of one `Next` over one state, as they are packages around one
store. `ConvertJobs` and `HooksRunner` share the row and its methods (`ArchiveRow`)
with it and look at files and hook rows where `MountDaemon` looks at children.
`ServiceFront` uses `Durations` for what is written to and read from the file. The
other views have their own small state and name the code they share with
`MountDaemon` in their maps.

### `MountDaemon`

- `rows[a]`: the columns the daemon decides on. `late` stands for
  `index_started_at` being older than `mount_ready_timeout`; it is cleared by
  every patch that goes through `Transition` in indexing or mounting, because
  `Transition` sets `index_started_at` anew (`TouchSeen` of a scan is such a patch).
  A file is known by its content (`Contents`), the fingerprint by `print`.
- `live[a]`: the registry entry of the engine.
- `kids[c]`: a `ratarmount` process: whose, and how far. A child is dead from the
  moment it can be seen dead, i.e. when the `Wait` goroutine of its poll has
  reaped it (a zombie still answers to signal 0).
- `index[a]`: no file, a partial or a full one. The code can only ask whether the
  file is there and not empty; that partial and full look the same to it is the
  point of several properties.
- `gate[p]`: the stable-file gate in mode `two_scans`.
- `phase`, `todo`: where the tick is and which rows the phase still visits.

`opMu` is held for a whole tick and for every control operation, so the daemon
is one thread here (`ServiceFront` has the lock itself). The model cuts that thread where
a row is finished: between two rows, or before the next phase, children work and die,
files change, and the daemon may be killed. Inside the handling of one row the reads and
writes are one step; the two methods that take two transactions (`MarkAbsent`,
`RecordContentChange`) can be cut in the middle by a crash (`HalfDone`).
Control operations happen between two ticks. Reconcile and clean have intervals of
their own, so a tick may skip them.

Bounds and abstractions:

- `Budget` (`MaxChanges` in `EventStream`) bounds the disturbances of a behaviour: a failed spawn, the
  unprovoked death of a child, a change of a file, a control operation, a crash,
  the passing of the timeout. Everything else is unbounded.
- An id that is purged is not used again; when no id is left a new file at its
  path is not inserted.
- A process id is not given to a new child while a row or registry entry of
  another archive names it.
- One archive, one mount path (`MountNames` has several). An id whose predecessor still
  has its mount directory gets another name.
- Counters stop at `MaxAttempts`; past it the code only reads "not retryable".
- `startPendingWork` counts slots in local variables as it goes; the model asks
  the engine's counts, which `BeginMount` checks in any case.
- Conversion and relocation are off, so `converting` is not reached; hooks of an archive
  are one step with a summed outcome; the grace period may be over for any absent row.

### `ConvertJobs`

- `disk[x]`: the file at a place: a path under the source directories, the product
  `{archiveconverter_output_dir}/{id}.7z`, or one of two names in `archives_dir`. A
  file has a content, is whole or not, and may have a convert sidecar. A product
  counts as a copy of the content it was made from. A killed converter and a copy
  cut short leave a file that is not whole; the code, which looks at sizes, cannot
  tell it from a whole one.
- `at[a]` is `archive_path`; `job[a]` the entry of `Engine.convertJobs` with the
  progress of its goroutine and the source it remembers.
- `BeginMount` and what it calls are operators from the state of one archive to the
  state after, because `PollConvert` calls them again on what it has just stored.
  Adoption of a product, pre-conversion, relocation and claim come in the order
  of the code. A failing file operation counts as a disturbance.
- The write of a sidecar at the end of a job may fail; the job succeeds all the same, as in the code.
- A job runs beside the tick: it starts, writes, and ends between any two steps of
  the daemon. A crash may cut the handling of a row after any write to disk or
  table (`HalfDone`); the converter dies with the daemon or finishes by itself.
- The mount phase is one step: a whole file is indexed and mounted, any other fails.
- There is always a mount slot, the disk is not low, the gate is in mode
  `two_scans`, `MarkAbsent` and a content change are one step, and the base names
  of two paths differ.

### `HookCycle` and `HooksRunner`

`HookCycle` says what a cycle promises of one archive: it may end in success only if every hook it
wanted has exited 0 for this content or was waived for the sake of another one, and a
lost mount or a restart cuts a cycle without inventing a result. `HooksRunner` is the
code: discovery and security of `hooks_dir`, hook rows with status and attempts, modes
sequential and parallel, stop on hard failure, exit classes, timeouts and spawn errors,
aggregation, a last write that fails, forced requests, content changes, crashes. The
refinement mapping takes the names found at the start of the cycle for the hooks wanted and the
rows that say skipped for the waived ones. The write of a hook's end may be lost, as its error is
ignored: the row goes on saying that it runs. The writes that say it runs or is skipped succeed. Left out: the crash between the two
transactions of a content change (`store.go`, delete of the hook rows), and the
environment of a hook.

### `ArchivePurge`

One path, whose archive comes and goes under ids that are not reused, with the edits
users made in its overlays. `overlay_dir`, `write_overlay` and `overlay_cleanup` change
between purges; an overlay is a place (directory of the setting, id), and the row keeps the place
of its last start. Running mounts (`writers`) are kept apart from the row, because a mount
outlives a timeout, a content change and an unmount that failed, and is written to all the
same. A purge is cut at each of its steps; any may fail, and the daemon may die in between. An
overlay outside the configured `overlay_dir` is refused: it stays, and its row goes. Time is kept as
ages: of the absent row, and of an overlay and a quarantine entry by mtime, which a rename
leaves alone. Copy and removal (another file system) are steps per edit. The row's
`mounted` stands for all statuses from the start of the mount child on. Writes through a mount
whose directory has been moved away are taken to fail.

### `OuterCache`

A cache directory shared by processes: `dest`, `partial` and `work` by key, the lock files
as inodes (`linked` is what the name stands for, `fd` what a process has open, so a lock may
be held on a file that is no longer there). A key stands for path, size and mtime.
`EnsureNonsolidCachedCopy` is cut at each system call, and so is the prune of the
cleaner with its three passes. Two set-ups (`SetupsAssumption`): one process that calls
and cleans, or any number that only call. A cleaner beside the calls of other processes would
take work directories and lock files from under populates, which the code does not
prevent: the results are for one daemon per cache directory. The age of a copy is not kept: any copy may be old enough. The listing
of a file is deterministic and does not fail by itself; copies across file systems and the
sidecar of a copy are left out. The fast path may hand over a copy between its rename
and its last check, as in the code.

### `InplaceConvert`

One archive, as zip with a 7z beside it or as a 7z rebuilt in place. Its members are files and
archives, in any nesting (`Inside`, `Within`), each with the path it is extracted to (`Name`; two members
may have one), and some are excluded by `convert_7z_flatten_exclude` (`Excluded`). The step lists of the
two jobs (`Steps`) follow the code's order; each step may fail or be the last before a crash.
`Extract` leaves out what is excluded and succeeds, as 7z does with `-xr!`. `Expand` takes the
names that one walk over the work directory has found, in any order, and each nested
archive is given up (`GivenUp`: it does not test), fails and goes with the directory it was expanded to
(`BackedOut`, `Under`), or is replaced by its content, which overwrites what has its name
(`Unpacked`, `-y`). The refusal of encrypted archives and the arithmetic of space and size floors are
abstracted to a step that fails. The owner may deliver, replace or take
files at any moment. What is delivered while a
job runs is not owed: nothing locks a file against its owner. An owner who delivers
again replaces what was there.

### `MountNames`

Archives of one base name, the names they may get (plain, with part of the id,
numbered), the directories of `mount_root`, supervised children and FUSE children that were left
behind. A child is starting or serving; one that the daemon forgets while it is starting is told apart
(`forgotten`, then `late`). One operation of the daemon at a time, except that the cleaner's look at a
directory and its removal are two steps with children's steps between them.
Status `waiting` merges discovered and the failed ones. Index children, the length limit of a name and
errors of the listings are left out. `archives_dir` may be a directory of
`mount_root`.

### `Durations` and `ServiceFront`

`Durations` has texts as pairs of number and unit, in whole milliseconds, and what parse
and format make of them. `ServiceFront` has `opMu`, the flags of stop and reload, the
file and the configuration read from it, the backlog of the control socket with
clients that are silent or send a set, a reload or a stop, and tabs that load the
settings form and post it. An editor changes the file, signals arrive, the daemon crashes and
is started. Keys are durations (one key in the run); sets are full or of one key and valid;
a client makes one request. The five seconds that a stop waits for the HTTP server may be over at any
moment: a call that has `opMu` then ends before the teardown, one that still waits for it may end with
the process, unanswered. A call that gets `opMu` between teardown and exit is one that a crash cuts.

### `EventStream`

The daemon's document is what is watched of the rows and a mark that stands for
`last_scan_at`, which a daemon lacks until it has scanned; `low_disk` goes the way of the counts.
Each client has its stream's baseline `prev`, a pipe of bounded room, and a dashboard with table, overview, polling and at most one
`/api/archives` answer under way. One wake token is shared by all streams; another stream or a
lingering handler may take it (`TakenElsewhere`). A write to a closed pipe fails; the
dashboard falls back to polling; a failed refresh empties the table; a store that cannot
be read yields a document that says ok with no archives, as in the code. The metrics and
summary parts of the page and its timer of automatic refresh are left out. The parts of its
specification are named `StreamInit`, `StreamNext`, `StreamSpec`, ..., because `Front_proofs`
extends it together with `ServiceFront`.

## Runs

| Run | Instance | Shows |
|---|---|---|
| `one` | 1 path, 2 ids, 2 contents, 4 children, 3 disturbances | rows, registry, children and index files stay together through every operation, purge and rediscovery included |
| `live` | 2 paths, 1 index and 1 mount slot, 3 children, 1 disturbance, fair | slots with real competition, and nobody starves |
| `convert` | 2 convertible paths, 3 ids (two of them on one path), 1 job slot, relocation, 1 disturbance, fair | no last copy is lost, products are not overwritten, every conversion ends |
| `hooks` | 2 hooks, 2 contents, both modes, 1 retry, 3 disturbances, fair | the runner implements the promise of a cycle |
| `purge` | 2 edits, 3 policies, 2 values of `overlay_dir`, 2 ids, a quarantine cap of 1 edit, 2 disturbances, fair | edits survive, rows go, refused overlays stay |
| `cache` | 2 processes, 2 versions of the source, 2 disturbances, fair | copies are whole and current; locks and leftovers end |
| `inplace` | a file, three nested archives (one in another, two of one name), the files in them, one of them excluded; 3 versions, 4 disturbances | content is kept by every order of failure and crash, but for what a flatten drops |
| `names` | 2 archives of one name, 1 further name each, 3 disturbances, fair | names have one owner, directories in use stay |
| `front` | 2 clients, 1 tab, 1 key, 3 disturbances, fair | configuration, reload, stop and backlog |
| `events` | 1 dashboard, 1 archive with 3 watched states, a full snapshot every 2nd turn, room for 1 message, 4 disturbances, fair | the dashboard converges |
| `build`, `retained` | see below | where the code and its comments part |

The bounds are the smallest in which the interesting case happens. Three
children suffice for one archive: one supervised, one forgotten by a timeout, one being
started; the fourth serves the second id. Two ids at one path are needed in
`convert`, since what is moved away leaves its path to a new row. Two hooks are needed
for order, skips and waivers; two processes for a lock; a second version of a source for
a copy that is stale; one further name for a clash. One dashboard is enough in `events`
because streams meet only in the wake token, which others take there in any case.
Disturbances are what lets a behaviour go wrong more than once: three allow e.g. a timeout, a crash and
a content change. In `purge` two allow a changed setting and a crash or failed step after it, and with two
of them `MaxName` never binds: each entry of a place but the first costs one. Symmetry is over children and used in the safety run `one` only.

## Properties

Several properties are conjunctions of named invariants, so that each state is judged
once; the type invariant of a view is a conjunct of its first one.

Of `MountDaemon`:

- `RowsConsistent`: `PidDiscipline` (a pid only in a status that expects a child) and
  `FirstMountRecorded` (what is mounted or has hook results has `first_mounted_at`).
- `RowsMatchSystem`: `SupervisedPid` (a living pid in a row is the registry's child of
  that archive) and `MountedKeepsIndex` (a mounted row has its index file).
- `OneMounter`: never two FUSE children of an archive, through timeouts that
  leave children running, content changes under a mount and restarts.
- `IndexSlotsBounded`: the index children that an indexing row names or has registered
  never exceed `max_concurrent_index`, whoever starts them. It is stated on children, not with the count
  of rows that guards a start; builds that were let go run on uncounted (see below).
- `HealthyMountKept`: no phase of a tick takes down a healthy mount.
- `MountFailureKeepsIndex`: after the first mount only a purge or a rebuild
  deletes the index.
- `BootLeavesNoOrphan`: start leaves no child of an earlier run.
- `DeadMountNoticed`, `FileSettles`, `GoneFileLeaves`: a silent death is noticed, a file that stays
  comes to rest, a file that is gone leaves nothing but an absent row.

Of `ConvertJobs`:

- `LastCopyKept`: the daemon, its crashes and failed jobs never destroy the last
  whole copy of an archive. The one exception is `ReplacedUnderJob` (see below).
- `ConvertSlotsBounded`: `max_concurrent_convert` holds although reconcile passes
  take rows out of converting while their jobs run.
- `ProductNotOverwritten`: a retry does not convert over a finished product.
- `ConvertingEnds`: no row stays in converting.
- `ArchiveServed`: undisturbed, every archive ends up mounted from `archives_dir`,
  although reconcile passes fail rows whose jobs run.

Of the hooks: `KeepsHookPromise` (the refinement), `SuccessNotRepeated` (no mode, retry,
force or restart runs a hook whose success is on record), `HooksSettle` (cycles come to an
end), `HookInv` (a success on record was a success).

Of the purge: `OverlayInv` and `GoneIsPurged`. `OverlayInv` is `EditsKept` (an edit is in its
overlay, in the quarantine, or given up by policy; what a mount writes while its overlay is copied away
is excused) and `NoOverlayLeftBehind` (an overlay that no row tells of was parted from its row by a
setting: retain, `write_overlay` switched off, or an `overlay_dir` that changed; never by a step that
failed or a crash).

Of the cache: `HandedIsWhole`, `CacheInv` (populates of one copy are serialized; a lock file is removed and
made anew only where one process calls and cleans, so never under one who waits), `AcceptedCopyKept`, `LeftoversGo`,
`WaiterServed`.

Of conversion in place: `ContentKept` (what a flatten drops is named in `Droppable`, each part of
which the run needs; a repack drops nothing), `BesideInv` (a sidecar is never about a file that was
not converted; a job that ended leaves nothing beside the archive).

Of names: `PathsDistinct`, `MountShowsItsArchive`, `DirInv` (no directory is removed of a row at work, of a
child that the registry has, nor `archives_dir`; a mount that comes up during a removal, and is emptied
by it, is of a child that was forgotten while it was starting, or of an archive that is purged),
`StaleDirsGo`.

Of the front: `FrontInv` (memory follows the file, also beside a stop),
`SetInEffect`, `ReloadTaken`, `NobodyStuck` (stops are obeyed, the backlog is served).

Of the dashboards: `StreamInv` (what was sent adds up to what was computed) and
`DashboardsConverge`.

### Fairness

- The run loop ticks for ever and a supervisor restarts the daemon (`WF` of `Tick`); scan
  and reconcile are due again and again by their intervals (`SF`: a tick may skip
  them, but not for ever); a child that can go on does. Nothing is assumed about
  operators, crashes, file changes, or failing children.
- `ConvertJobs`: a job that started goes on (`WF`; the converter has a timeout), and a
  claimed row gets through its mount phase (`SF`, as the phase is only there while the
  daemon polls). Its reconcile passes are not fair: a conversion must come to its
  end with or without them.
- `HooksRunner`: the tick comes back to hooks and mount; a process ends or is ended by its
  timeout (`WF`).
- `ArchivePurge`: time passes, a purge that began goes on (`WF`), scans and cleaner passes keep
  coming between the other work (`SF`).
- `OuterCache`: calls go on (`WF`), the kernel wakes who waits for a flock and the cleaner
  runs again between calls (`SF`).
- `MountNames`: a pass of the cleaner visits every directory, so a directory that is
  unused at pass after pass is found in one (`SF` of `FindUnused`), and removed (`WF`).
- `ServiceFront`: a Go mutex hands itself over to its oldest waiter, so a tick and a call
  that wait for `opMu` again and again get it (`SF` of `BeginTick`, `CallWrites`, `Teardown`);
  what has it goes on; the deadline of a connection ends a silent client. Nobody need edit,
  ask, signal or start the daemon.
- `EventStream`: tickers fire, what is in a pipe is read, a request is answered or fails.

## Where the code and its comments part

Two runs are expected to fail:

- `build` (`FinishedBuildKept`): `service.go` wires the registry probe and then
  replaces it (`WithRegistry`, then `WithProbes`), so a reconcile between the end
  of a build and `ProgressLive` takes the finished build for a dead child and
  deletes its index.
- `retained` (`QuarantineRetained`): the age of a quarantine entry is the mtime of the
  overlay that was moved, so an overlay that nobody edited for `quarantine_retain_for` is
  deleted by the prune of the very pass that put it in quarantine.

And what the models have as the code has it, with no promise to hold it to:

- A timeout drops an index build without stopping it (`apply.go`, `applyFail`), and so does a scan that
  takes its row out of indexing. It runs on uncounted: there can be more index processes than
  `max_concurrent_index`, two of them for one index file.
- A row that the scanner marks absent keeps its registry entry and its child
  (`ScanAbsent`); `RowsMatchSystem` claims nothing of it.
- The scanner records a content change without the unmount that the store leaves to its
  callers; the old child goes at the next start on the path or at the next boot
  (`OneMounter`, `BootLeavesNoOrphan`). When the row has moved to a better name
  meanwhile, the archive is served at two.
- A timeout, or another start of the same archive, makes the daemon forget a child that is starting without stopping it
  (`Forget`; the comment at `reconciler.go:57` asks for a `DropLive` that terminates children, `service.go:163` installs
  none). Its directory is not protected any more: if the child comes up between the cleaner's look and its
  `RemoveAll`, the cleaner deletes in the mount, and so in the overlay of a writable one. `DirInv` names this case and
  bounds it.
- With relocation off, the row of a converted archive points to the product, which no
  scan sees: it becomes absent, and the source is inserted and converted anew.
- A start requeues an interrupted conversion to discovered, from where a finished product
  is not accepted: the archive waits for an operator.
- A source that is replaced after its job had read it is deleted as superseded with its new
  content (`ReplacedUnderJob`).
- A flatten succeeds, and its source is removed, though the new archive holds less: members that
  `convert_7z_flatten_exclude` names, files that others of the same path overwrote, nested archives that do not
  test, and with one that fails to expand the whole directory it was expanded to, whatever else was in
  it. `ContentKept` allows just these (`Droppable`).
- The comment at `flatten_run.go:298` has nested archives of nested ones expanded before their parents. The walk is
  done once, before anything is expanded: what is in a nested archive stays packed, unless it takes the
  path of one that the walk has found.
- An overlay that lies outside `overlay_dir`, as all do after a change of that setting, is left on
  disk while its row is deleted (documented in `cleaner/doc.go`), and the quarantine under the former
  directory is not pruned any more. A start with another `overlay_dir`, or without
  `write_overlay`, makes the row forget its former overlay.
- A purge goes on when the unmount failed, and knows nothing of a mount that was dropped: what
  these write after the copy of their overlay has read the directory is lost with the source.
- The comment at `service.go:546` has `Server.Close` wait for the handlers. It waits at most five seconds
  (`api/server.go:250`), which an open event stream always uses up: a call that waits for `opMu` behind a longer
  operation is then left to the end of the process, without an answer.
- A dashboard goes on showing the `last_scan_at` of the former daemon until a new one has scanned
  (`app.svelte.ts:133` takes no null).
- A reload takes every key live, also those which the dashboard says need a restart.
- A set is computed from the configuration in memory: an edit of the file that was
  not reloaded is overwritten by it.

## Proofs

The theorems hold for every value of the constants under the named assumptions. They
cover all invariants the runs check, the action
properties, and the refinement of `HookCycle`. Each inductive invariant was an
invariant of a TLC run before it was proved. A proof has one lemma per operation and one
per action; the last step is a case distinction over `Next`.

| Module | Theorems | Rests on |
|---|---|---|
| `MountDaemon_proofs` | `Invariance`, `TypeCorrect`, `RowsConsistentHolds`, `IndexSlotsHold`, `OneMounterHolds`, `RowsMatchSystemHolds`, `BootLeavesNoOrphanHolds`, `MountFailureKeepsIndexHolds`, `HealthyMountKeptHolds` | `RowAssumption`, `StateAssumption` |
| `ConvertJobs_proofs` | `ConvertTypeCorrect`, `ConvertSlotsHold`, `ProductNotOverwrittenHolds`, `LastCopyKeptHolds` | `RowAssumption`, `ConvertAssumption`, `PlacesAssumption` |
| `MountNames_proofs` | `MountPathsDistinct`, `MountsShowTheirArchive`, `DirsInUseKept` | `NamesAssumption` |
| `ArchivePurge_proofs` | `OverlayInvHolds` | `PurgeAssumption` |
| `HooksRunner_proofs` | `HookInvHolds`, `SuccessNotRepeatedHolds`, `HookPromiseKept` | `RowAssumption`, `HooksAssumption` |
| `Front_proofs` | `DurationRoundTrip`, `FrontInvHolds`, `SetInEffectHolds` (of `ServiceFront`) | `NamesAssumption` |
| | `StreamInvHolds` (of `EventStream`) | `FullEveryAssumption`, `RoomAssumption`, `MarksAssumption`, `MaxChangesAssumption` |
| `OuterCache_proofs` | `CacheInvHolds`, `HandedIsWholeHolds`, `AcceptedCopyKeptHolds` | `CacheAssumption`, `SetupsAssumption` |
| `InplaceConvert_proofs` | `ContentKeptHolds`, `BesideInvHolds` | `MembersAssumption`, `BoundsAssumption`, `NothingAssumption` |

### Rows

`Inv` is `TypeOK` and `SoundRow(rows[a])` for every archive. `TypeOK` alone is inductive
but says nothing of pid and first mount; these two are not inductive without the
types, and `FirstMountRecorded` not without its two halves together (a hook cycle
starts from mounted, and promotes to mounted from indexing or mounting). The argument
is local to a row: a sound row goes in, a sound row comes out, method by method
(`ToSound`, `MoveSound`, `MarkAbsentSound`, ...). `ConvertJobs_proofs` has these
lemmas too, as its model shares the row with `MountDaemon` but not the state around it.

### Index slots

The count of rows that hold a slot (`RowSlotsBounded`) is inductive relative to `Inv`:

- `Holders` are the indexing rows that hold a slot. A step that makes no new holder
  keeps the bound (`FewerHolders`); one that makes at most one, after it saw a
  slot free, keeps it too (`OneMoreHolder`).
- `Calm(b)` says that the step does not make `b` a holder. It follows where the row
  comes out `Calmer` (not newly indexing, and with its old pid or none), the
  registry gained no entry, and no dead child came back (`CalmRow`).
- A start is the only step that is not calm, in the row it starts. No other row
  turns into a holder by it, because no other row names the pid of the new child
  (`StartProcessHolders`).
- `CompleteIndex` starts a child without asking for a slot, but as a mount, which is
  not counted here.

`IndexSlotsBounded`, on children, follows: what a row names and lives is what the registry has of it
(`Registered`, below), so an indexing row waits for one child at most and holds a slot for
it, and taking a child to its archive is an injection (`AwaitedHolds`).

It rests on the way the model hands out pids (see the bounds above): a pid given again
while a stale row of another archive names it would make that row a holder.

### Supervision

`OneMounter` and `RowsMatchSystem` are not inductive, even together. `Supervised`
adds, for every archive:

- `Registered`: a registry entry names a child of its archive, and whatever living
  child the row names; there is none while the daemon is down.
- `MountPathClear`: one mounter; and none for a row in the mount phase that has failed
  or has no index path on record, because the next start takes such a row through an
  index phase and would otherwise mount beside what is there.
- `IndexOnRecord`: a row stores its index path before it is indexing, and a mounted
  row is in no index phase, whose failure deletes the index.

The three action properties follow from `Inv` and `Supervised`: a boot ends with no child
that a row does not account for, a failed mount never takes the branch that deletes an index, and
reconcile and tick drop a mount only on evidence that the child on record is not serving it.

### Conversions

`ConvertSlotsBounded`: `BeginMount` leaves the jobs as they are unless the limit is not
reached (`BeginMountJob`); every other step acts on a job that is there, or empties the
registry. `ProductNotOverwritten` and `LastCopyKept` follow the files: a file is only
moved to a place that was free, a job starts only where no product is, there is no
product while a job waits and half a one while it writes, and a source is removed only
when its product is whole. `PlacesAssumption` says that the places of products, of archives and
of `archives_dir` are different ones.

### Mount names

- `PathsDistinct` is inductive with the shape of rows: the only step that stores a
  path takes a candidate that is not among the names of others (`PathChosen`), and
  rows in every status count as takers.
- `MountShowsItsArchive` is not: a row is promoted from mounting, so `OnlyOwnKids` says the same
  of rows that are mounting. The start establishes it, by killing every holder of the
  path that is not its own child; a child never moves, and no other row starts one
  on that path.
- `DirInv`: no mount can begin while the cleaner is at a directory, because both hold `opMu`; only
  children that were started before may come up there. Of one that is starting and not forgotten the registry
  knows the path (`KidsKnown`), and the cleaner passes that by. A purge does not look at the registry:
  there `SupKept` says that a directory where the registry has a child of a row is on record for no
  other row.

### Purge

`OverlayInv` becomes inductive with three parts: a purge deletes its row only where its overlay
is gone or a setting leaves it (`StepInv`); edits are in directories that exist (`DirsInv`); and while
a copy is made, what it began with is in the source or the copy, so that when the source is
removed, the copy has all of it but what was written meanwhile (`CopyInv`). Writers may be
at work in every step: an edit at the place under copy is `overtaken` by definition, an edit at any other
place is not touched by the purge. That the quarantine has a free name is a guard of the model
(`MaxName`), as the code takes names until one is free.

### Hooks

`RecordedWasServed`, that a success on record is one of the present content, needs to
say who may write what of a hook: its row and result are written by the loop while
the hook is in the queue (`CycleInv`), by its process after that (`ProcInv`), and by nobody
once it has a result (`ResultInv`); a hook behind a hard failure has not run (`StopInv`).
`HookPromiseKept` is the refinement: `HooksRunner` implements `HookCycle`, initial states
map to initial states and each action to the action of the promise it should be, or
to a stutter.

### Configuration

`FrontIInv` says in which order `opMu` is taken: the halves of a set (file written, memory
assigned) and of a reload are never interleaved, also while a stop is under way, and a file that nobody else wrote
holds the configuration in memory. `SetInEffect`
needs `DurationRoundTrip` in addition: every whole number of milliseconds reads back
from its text as itself, by the unit that divides it, so that writing the other keys
back does not change them.

### Event stream

`StreamTracks` is about `Replay`, which folds the events of a pipe into a view
by a recursive function. Its facts are proved by induction: a set of numbers that is not
empty has a least one (`LeastNat`, from the library's theorem on well-founded relations),
so a set that holds the first place and each next one holds all (`InductionUpTo`). Hence there
is a trace of views (`ReplayTrace`) and two that agree before the same events agree after
them (`TracesAgree`). From that:

- `ReplayConcat`: what is sent later is read later. A refresh appends, a read takes the
  first away (`ReplayFirst`), and the sum stays what it is.
- `DeltasTrack`: who sees one document and reads the differences sees the next one.
- `Follows`: with a full snapshot on its way it does not matter what the view is when
  it is read (`Leads`), though two views may show different scans after it, since a document without
  `last_scan_at` leaves the one that is shown. `StreamTracks` alone is not inductive for that reason: it
  speaks of one view. That is why the dashboard's own answers, which overwrite the view, do no harm
  while a snapshot is in the pipe, and why `StreamTracks` asks for one after them.

### Cache of converted copies

A flock is exclusive on an inode (`LockInv`). Without a cleaner a lock file once made keeps its
inode, so who fills a copy holds the inode its name stands for, and two cannot fill
one. With a cleaner the name may pass to another inode between open and flock,
and exclusion would fail beside other processes: `SetupsAssumption` excludes that. It is
how the program is run: only the daemon fills and cleans its cache, and it does one of the two at
a time. `CopyInv` says that what is found under a key is nothing or all of a
version not older than the key, also what a crash has left, and `KeyInv` that the key is a
version the source had during the call; together they are `HandedIsWhole`. A populate
finds nothing at its key until its own rename (`Early`), which is why the removal
of an old copy never takes one away. `FreshInodeIsInode` shows, by counting, that there are
enough inode numbers in the model.

### Conversion in place

`KeptInv` says where the delivered content is by the step a job is at: in the source
up to the step that takes it away, then in the backup of a zip or in the new output of a
7z, which carries everything but what may be dropped. That rests on `Whole`, which
`Extract` establishes up to the exclusions (`ExcludedMayGo`) and `Expand` keeps: what is given
up or backed out is booked as failed (`FailedMayGo`), and of a nested archive that is unpacked each
file inside is there in its stead or its name was another's (`UnpackedIsWhole`). `MembersAssumption`
says that the nesting is one: a file within an archive is in one of the archive's own members. `JobInv` says what the
job has made by then, `LeftInv` which leftovers are those of a job cut short.
`SidecarMeansConverted` needs that no version is newer than the last one delivered (`BoundInv`).

### Only model-checked

Liveness (`DeadMountNoticed`, `FileSettles`, `GoneFileLeaves`,
`ConvertingEnds`, `ArchiveServed`, `HooksSettle`, `GoneIsPurged`, `LeftoversGo`, `WaiterServed`,
`StaleDirsGo`, `ReloadTaken`, `NobodyStuck`, `DashboardsConverge`), which is beyond the proof
system. No module uses RECURSIVE operators.

## Not modelled

- `match`, `platform`: pure functions and probes of the system, without state.
- `doctor`: read-only checks of an installation.
- `metrics`: counting and sizes for display; no decision of the daemon reads them.
- The rate limiter and authentication of the HTTP server, peer credentials and the frame
  limit of the control socket: guards of a single call.
- The pidfile: that two daemons run needs two supervisors.
- Validation and defaults of the configuration, command lines, formatting and help:
  data without steps.
- The `min_age` gate, inotify and the directory walk: other ways to the same
  observations.

## Plan

- The `mount_ready` timeout with a clock, against scans that touch `index_started_at`.
