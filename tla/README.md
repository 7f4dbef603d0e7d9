# StarBase: verification models

StarBase keeps an index, in MariaDB, of the FITS and XISF frames of an
astronomical archive that other programs write. This directory holds TLA+
models of the parts whose correctness depends on order, concurrency and
failure, the TLC configurations that check them, and TLAPS proofs. Paths below
are relative to the repository.

## 1. Inventory

| component | state it keeps | operations | hard because |
|---|---|---|---|
| work queue (`src/scan/bounded_queue.hpp`) | deque, closed flag, one mutex, two condition variables | push, pop, close | wake-ups after the unlock, close overtaking blocked threads |
| archive sweep (`src/scan/scanner.cpp`, `scan_root`) | per sweep: walk, worker pool, counters, stop flag; in the database: `files`, `frames`, `roots` | walk, settle gate, change detection, read, store, error row, bookkeeping | the disk changes under it; database, mount and process fail |
| reconciliation (`scanner.cpp`, `reconcile_root`) | lists of vanished and appeared rows | guard, match moves, mark missing | decides between move and deletion from indirect evidence, by separate statements |
| frame store (`src/index/frame_store.cpp`) | one transaction per file | upsert file, frames, cards; retry | concurrent transactions, deadlocks |
| equipment resolution (`src/index/equipment.cpp`) | registry snapshot, per-worker caches | resolve camera, filter, rig, site | caches filled inside transactions that may be rolled back |
| scan control (`src/api/http_server.cpp`) | `ScanState`, `scan_thread`, `scan_cancel`, scheduler thread | POST /scan, status, scheduler, stop, rebind | threads started and joined from several threads |
| database maintenance (`http_server.cpp`) | `files` | prune-missing, init, seed | runs beside a sweep |
| file actions (`src/action/action.cpp`) | `jobs`, `job_items`, files on disk | stage, copy, symlink, move, trash | disk and index change in two steps |
| settings and start-up (`src/daemon/main.cpp`, `http_server.cpp`, `src/db/database.cpp`) | `settings`, the schema, seed and first account, the listener | build configuration, apply schema, seed, bind, PUT /settings, apply | each step may fail or be cut short, and is retried later from what is there |
| accounts (`http_server.cpp`, `src/auth`) | `users`, `sessions` | login, logout, create, patch, delete | checks and writes are separate statements; the last administrator |
| rigs, flat sets and pins (`http_server.cpp`) | `rigs`, `flat_sets`, `light_flat_pins`, two columns of `frames` | create, re-range, site, delete; pin, unpin | several statements without a transaction, beside sweeps that cached the rigs |
| calibration matcher (`src/match/calibration.cpp`) | none (reads) | match by rules, resolve flat set | tolerances, NULL, ties, priorities |
| header resolver (`src/extract`, `src/index/mapping_loader.cpp`) | mapping tables, read once per scan | keyword and value mapping, image type, night | priorities, defaults, missing cards, noon |
| object names (`src/names/canon.cpp`) | none | canonical name, designations | many spellings of one target |
| query compiler (`src/query/query.cpp`) | none | filter, sort, paging | three-valued logic, hidden rows, ties |
| staging (`action.cpp`, `src/pix/wbpp.cpp`) | a directory per job | link, rename on collision | namesakes, missing files |
| readers, TLS certificates, tags, collections, sites, saved queries, CLI, web | none or rows of their own | parse, one statement per request | not modelled, see section 6 |

Interactions. The daemon (`src/daemon/main.cpp`) owns the HTTP server; POST
/scan and the scheduler start the one scan thread, which runs `scan_root` root
by root. `scan_root` starts a pool of workers, walks the tree itself and hands
paths over through the work queue; each worker has a database connection and
calls the frame store, which calls the equipment resolver. When the pool is
joined, `reconcile_root` runs on a connection of its own. Meanwhile HTTP
handlers change tags, rows and files. stop() sets the flag that the sweep polls.
The main loop stops and rebuilds the server when settings are applied. A sweep
assigns frames to rigs from the snapshot it loaded, while handlers re-range
rigs and claim flats. The frame store writes what the header resolver made of a
header; searches, actions and the matcher read those rows through one query
compiler, and a staged selection is what it selected.

What makes each part correct:

* queue: nothing lost, duplicated or reordered; no sleeping thread forgotten;
  every worker released, and not before the work is done;
* sweep and reconciliation: after an undisturbed sweep the index agrees with
  the disk whatever happened before; a clear rename keeps its row, hence its
  tags; an unclear one is not guessed; an outage marks nothing missing; no row
  is dropped that tags may hang on;
* equipment: one id per name, and every stored id exists;
* scan control: one scan at a time, every request answered, shutdown ends it
  and leaves no thread behind;
* file actions: the index follows the file, and no file is lost;
* start-up: what is stored is what is served, an apply is acted on, a database
  that is served has its defaults;
* accounts: sessions have accounts, names are unique, and an administrator
  remains where requests do not overlap;
* rigs and flat sets: a frame's rig covers it, a flat whose set goes can be
  claimed again, the flats of a light change only for a reason;
* resolver, names, queries, matcher, staging: nights turn at local noon, a
  target is found in every spelling, the frames that fit a light best come
  first, and a staged name leads to its own frame.

The hazards of this code, with the line where each bites and the property that
watches it, are listed in `PROJECT.json`.

## 2. Plan

1. `WorkChannel`, `BoundedQueue`, `BoundedQueueProofs` (done): the queue, its
   abstract specification, refinement, proofs for all parameters.
2. `Sweep` (done for frames): disk, index and sweep with failures;
   `SweepProofs` (done). Next: sidecar artifacts and their linking, which reads
   rows the sweep has moved.
3. `StoredFiles`, `Equipment` (done): caches and unique names under aborted
   transactions, with the retry loop of `store_file`, and the abstract
   specification it implements; `EquipmentProofs` (done).
4. `ScanControl` (done): single-scan guard, scheduler, POST /scan, stop() and
   rebinding; liveness of requests and of shutdown; `ScanControlProofs` (done).
5. `FileAction` (done for move and trash): disk, index and ledger, with a
   failing statement or a crash between any two steps and a sweep beside;
   `FileActionProofs` (done).
6. `Accounts` (done): sessions and the last administrator under concurrent
   requests; `AccountsProofs` (done).
7. `Startup` (done): the way up and every rebind, with kills and failures;
   `StartupProofs` (done).
8. `FlatSets` (done): rigs, flat sets and pins statement by statement, beside a
   sweep, and the flat set a light gets; `FlatSetsProofs` (done).
9. `Names`, `Headers`, `Query`, `Matcher`, `Staging` and their composition
   `Workbench` (done): what an observer does with the index.
10. The last administrator in `AccountsProofs` (done); the refinement of
    `StoredFiles` in `EquipmentProofs` (done). Open: sidecar artifacts in `Sweep`
    (see 2), with their proofs.

Modules stay separate where the code couples them only through a call's
contract: `Sweep` uses from the queue what `WorkChannel` states (each path goes
to one worker, workers end after the drain), and has no queue of its own.

## 3. Modules

### BoundedQueue (and WorkChannel)

A critical section is one action, as everything in it runs under the mutex.
What follows `lock.unlock()` is an action of its own: `PushNotifies`,
`PopNotifies`, and the two `notify_all` of `close()`. A waiting thread has `pc =
"wait"`; a notified one is back at the lock (`"push"` or `"pop"`) and tests its
predicate again. `SpuriousWake` lets any waiter return without a notification.
`accepted` and `taken` are history variables. The producer ignores the result of
`push`, as the walk does, so a refused value counts as sent.

`WorkChannel` is what the scanner needs: a bounded FIFO that is shut once, whose
receivers are released only when it is shut and empty. `ImplementsChannel` maps
`queue` to the buffer, `closed` to `shut` and the workers that returned to
`ended`.

Fairness (`FairSpec`): weak fairness of each thread's own steps, since a
runnable thread runs and a mutex held for finitely many instructions is free
again and again; the completion of a `close()` that was called. Nobody is
assumed to call `close()`, and neither `SpuriousWake` nor any choice of which
waiter is notified is fair.

### Sweep

| model | code |
|---|---|
| `disk` | the files under the root: header, stamp (size and mtime), recent |
| `rows`, `nextId` | table `files` with what its `frames` say; AUTO_INCREMENT |
| `seen`, `fresh` of a row | `last_seen_utc`, `first_seen_utc` at or after `scan_start` |
| `ahead` of a row | its `first_seen_utc` is local time ahead of UTC |
| `work` | one path's progress through walk, queue and worker |
| `plan` | `vanished`, `appeared` and the position in the loop of `reconcile_root` |
| `baseline`, `priorOk` | whether `scan_start` and `prior_ok_count` were read |
| `before`, `outcome`, `quiet`, `gone`, `skipped` | history, for properties only |
| `swapped` | history: a path and stamp under which another file was read |

One action per step at which something else can come between: the walk
(`WalkVisit`, `WalkStops`, `WalkCut`), a worker's stat and gate, its read, its
store transaction, each statement of the reconciliation, the bookkeeping.
Actions of the disk, of prune-missing and of failure may happen between any two
of them. `Crash` keeps what was committed. The worker's lookup and update are
one step: only the worker that holds a path writes its row during the walk, and
prune-missing touches missing rows only.

Abstractions. A header is a model value and its fingerprint is `KeyOf`; a file
with several HDUs has one content. Each write has a new stamp, so that equal
size and mtime mean an unedited file (the code compares whole seconds; see
`hazards`). Clocks enter only through comparisons with the start of the current
sweep, and the settle gate through a flag that time clears between sweeps,
because a worker reads the clock once, when it starts. A sweep of one root at a
time is assumed, which the daemon's guard gives and `starbasectl scan` does not.
Sidecar files are not modelled.

Bounds: `MaxSweeps`, `MaxEdits` and `MaxTrouble` count sweeps, edits of the disk
and failures. After the last sweep nothing need happen any more, which is why
these runs do not check for deadlock.

### Equipment (and StoredFiles)

| model | code |
|---|---|
| `table`, `nextId` | tables `cameras` and `filters`, which go through the same steps |
| `created`, `written` | rows and frames inserted by a worker's open transaction |
| `cache` | `camera_cache_` / `filter_cache_`; 0 stands for -1 |
| `Known` | the `EquipmentRegistry` loaded once per scan, aliases included |
| `todo`, `attempt` | the rest of the loop over HDUs; the loop of `store_file` |
| `frames` | committed frames |
| `refused`, `rolledBack` | history: who met a foreign key, and whom another error cost a transaction |

`UseCached`, `UseRegistry`, `UseNone`, `FindsRow` and `CreatesRow` are the ways
through `resolve_camera` and `resolve_filter`, each with the INSERT of the frame
that uses the id. `Blockers` is what InnoDB does with a unique key: an INSERT
waits for another transaction's uncommitted row of that value. Such a wait ends
when that transaction ends, or as deadlock victim or lock wait timeout
(`Contended`). Any other statement may fail for reasons of its own (`Faulted`).
Either way the transaction is rolled back and the cache stays as it is
(`RollsBack`); what follows is `Retry`, if the error is retryable and attempts are
left, or `GiveUp`, at the last attempt or, after an error that is not retryable, at
any. `Refused` is the foreign key of `frames`. Workers run at READ COMMITTED, as `scanner.cpp:303` asks; the fallback
to the server's default, when that statement fails, is not modelled.

`StoredFiles` is what `store_file` promises ("a file is never left half-written",
`frame_store.hpp:54`) to whoever reads the database: one action, `Store`, adds all
frames of a file and the rows that they name. It has `table` and `frames` and
knows no workers, caches or attempts, so the refinement mapping of
`ImplementsStoredFiles` keeps both as they are: `Commit` is a `Store`, every other
step a stutter. Which of the models a file mentions get a row is left to the
implementation, as long as each frame finds the one that it needs and no model
has two. Frames are `<<name, id>>`: of two files that mention one name the second
adds no new element for it.

### ScanControl

A critical section of `scan_mtx` is one action; only the join inside
`try_start_scan` is spread out, between `WaitsForThread` and `Starts`, with
`holder` as the owner of the mutex. `scan` is the life of `scan_thread`: `none`
(not joinable), `running`, `leaving` (record closed, thread not yet ended),
`exited`. `main` walks through stop() statement by statement, a first time
for the main loop and a second time (`last`) for `~HttpServer`; then the daemon
exits, or starts a new server (`Rebinds`). `listener` is httplib's accept loop:
its stop() does nothing unless the loop runs, and the loop ends when the
handlers are done. Two threads that join one `std::thread` are a data race; the
model takes glibc's outcome, where the later join throws: caught in a handler
or the scheduler (`JoinThrows`), the end of the process in stop() (`dead`).
`SpawnFails` is a `std::thread` that cannot be created.

Fairness (`FairSpec`): strong fairness for a starter, since the mutex is free
again and again although not all the time; weak fairness for the scan thread
(a sweep of a root is finite), for the scheduler's work, the listener and the
statements of stop(). Requests and signals need not come.

### FileAction

| model | code |
|---|---|
| `disk`, `rows` | what is at each place; `files` with the file that was indexed |
| `jobs` | `jobs` and `job_items` |
| `work` | per handler its job, the references still to do, and the step it is in |
| `device` | which device each directory is on; one of `Layouts`, chosen at the start |
| `sweep`, `seen`, `fresh` | a sweep under way, rows it stamped, rows it inserted |
| `unsettled`, `astray` | history: rows and files that jobs left to the next sweep |
| `mixed` | history: a sweep met a job, and none was alone since |

Each file system call and each SQL statement of `fsop` is an action, so that
another handler, a sweep or the end of the daemon can come between: `Renames` or,
where source and destination are on different devices (`Crosses`), be they in
roots or not, `CopiesAcross` and `Removes`; then `WritesBack`, `Records`, and
`Finishes`. `IoFails` is a rename and copy that both fail, or a removal that fails
after the copy; `LeavesCopy` is the fallback within one device, from a directory
that can be read and not written. Both leave an item that failed and, in the
latter two cases, the file in two places: if the copy is in a root it has no row
there until a sweep finds it (`Stray`). An exception (`WriteBackRefused`, `RecordRefused`, `StatementFails`) leaves the
handler at once. `Submit` reads all paths before the first file moves. Frames
come in any order, as the query has none.

The sweep goes file by file and reconciles in one step, coarser than `Sweep`.
That is enough since nothing is claimed of the index while a job and a sweep
overlap (`mixed`): `SweepReconciles` clears the history when the sweep had the
index to itself, so `IndexIsTrue` then checks that such a sweep repairs whatever
jobs left, the files that are on the disk then. A job leaves to the sweep what
another job has in hand or has placed where it takes from or moves to (`Claims`),
what it moved without its being the frame's own file any more or while another
job carries it (`Own`), the copy whose original stayed, and what an exception or a
kill keeps it from writing back. The settle gate is left out: a file copied into
a root from another device would be passed over until it settles. So is the part
of a file that a copy leaves when it fails half way, for a file has no parts
here.

### Accounts

| model | code |
|---|---|
| `users`, `sessions`, `lastId` | the tables, without passwords; AUTO_INCREMENT |
| `req` | per HTTP thread the request it serves, what it has read, and its next statement |
| `alone` of a request | history: no other request wrote since this one arrived |

Each SQL statement is an action: `LoginReads` and `LoginStores`, `CreateReads`
and `CreateInserts`, `PatchReads`, `PatchChecksRole`, `PatchChecksEnabled` and
`PatchWrites`, `DeleteReads`, `DeleteCounts` and `DeleteWrites`. `Refused` is
every way to end without a write (not found, refused by a rule, an exception).
The unique key on names, the foreign key of sessions and its cascade are what the
schema says. `AnAdminCalls` is `require_admin`, evaluated when a request
arrives, as in the code. `Restart` seeds an empty table, as a start does.

### Startup

| model | code |
|---|---|
| `schema`, `seed`, `admin`, `stored` | no tables, some of them with the version row, or all; defaults loaded; some account; `settings` |
| `file` | the config file as loaded: address, port, tls, whether both paths of the certificate are set, whether the schema and the seed script can be read |
| `main` | where the main thread is: `build` (build_api), `certify`, `look`, `schema`, `seed`, `admin`, `bind`, `loop`, `stopping`, `exited` |
| `api`, `fresh`, `attempt`, `first` | the locals of start_api, ensure_schema and main |
| `serving`, `apply` | the configuration of the listener; `g_apply` |
| `dbUp`, `bindable`, `free`, `certGood` | the outside world |
| `trouble` | bound |
| `late`, `readOk`, `spoilt`, `rebind` | history |

`Build` reads the settings, or falls back to the config file when the database
is away. A script that is cut by a kill or an error keeps what it did, for its
statements commit one by one; the version row is among the first of the schema's,
and whoever finds it does not seed. `NoSchemaScript` is the early return without a
schema script, `SeedsNothing` the way past a missing or unreadable seed file. `DbInit`
and `DbSeed` are `starbasectl db-init` and `db-seed`, the first of which the
package runs before the daemon's first start (`debian/postinst.in:148`).
`Tls` has tls served only where both paths are set; else HTTP is served. `Killed`
and `Reloads` (SIGHUP) load another config file, as an administrator may have
edited it. `AttemptFails` is the exception that leaves start_api without a server: a second
attempt on localhost, then the exit (first start) or the loop without a
listener (rebind). `Put` and `Apply` are served until `Stops`, the return of
stop(), whose inside is `ScanControl`. An address is bindable or not; a
certificate can be used (or made) or not.

Fairness: weak fairness of the main thread's next step, which never waits for
requests or signals in this module; that stop() returns is `StopReturns` of
`ScanControl`.

### FlatSets

| model | code |
|---|---|
| `rigs`, `sets`, `pins` | the tables, one camera |
| `rig`, `flatSet` | `frames.rig_id`, `frames.flat_set_id` of the flats |
| `cached` | the rigs in the `EquipmentRegistry` of the sweep under way |
| `work` | per thread the statements its handler has still to send |
| `clean`, `rigGone` | history: no failure, clash or older sweep; some rig was deleted |

A handler reads when it arrives and then sends its statements in order; `todo` is
that list and `Statement` executes its head, so that the statements of two
requests and of a sweep interleave. `Fails` drops what is left of a request, as an
exception does. The foreign keys (cascade from rigs to sets and pins, SET NULL
on `frames.rig_id`, none on `frames.flat_set_id`) are part of the statements.
`FlatSetFor` is `resolve_flat_set` with its order of precedence: pin, then on a
rig without a site the same night only, else window, newest on or before the
night, active set. Both properties about frames are stated for histories without
failure, clash of two requests on one rig or set, and sweep with older rigs
(`clean`), which really do leave stale values.

### Workbench, with Names, Headers, Query, Matcher and Staging

| module | operator | code |
|---|---|---|
| Names | `Canonical`, `IsPlaceholder`, `Designations` | `canonicalize`, `is_placeholder`, `designations` |
| Headers | `Raw`, `Normalized`, `ImageType`, `NightOf`, `Resolved` | `resolve_raw`, `normalize_value`, `classify`, `night_of`, `resolve` and the row that is stored |
| Query | `Compiles`, `Holds`, `Shown`, `Listings`, `Page` | `compile_node`, its meaning in SQL, POST /query |
| Matcher | `Meets`, `Candidates`, `Rank`, `Matched` | `match_calibration` without its flat-set branch |
| Staging | `Destination`, `StageOne`, `Staged` | `stage` |
| Workbench | `Indexes`, `Vanishes`, `Noticed`, `Searches`, `TurnsPage`, `Matches`, `Stages` | the sweep as one step per file; the handlers that call the above |

A file is a header, a name and `target`, what the observer pointed at, which the
index does not know: `SearchFindsEverySpelling` compares the two. Texts are
sequences of words, digit runs and marks. A truth value of SQL is 0, 1 or 2, so
that AND is the minimum and NOT is 2 - x. A listing is any order that the sort
allows, drawn anew for each page, and the rows of an action come in any order.
`Query` has recursive operators, as filters are trees; nothing is proved about
the modules that use it.

## 4. Runs

| run | bounds | shows |
|---|---|---|
| `queue` | 2 producers, 3 consumers, capacity 2, 3 values each | type, order, no lost wake-up, refinement and liveness, no deadlock. More waiters than items and more items than one are what lost wake-ups need |
| `sweep_faults` | 3 paths, contents raw/torn, 2 workers, 2 sweeps, 1 edit, 1 failure | index and disk agree after a quiet complete sweep, although the sweep before was edited under, cut, stopped or killed; the root's count; missing only what was away or passed over; old rows survive. Two sweeps are needed to repair a crash, three paths for a rename beside a file that stays |
| `sweep_drift` | 4 paths, every index and every disk, one undisturbed sweep | renames keep rows; no move is guessed; a sweep that saw nothing, or less than half of what was there, rounded down, marks nothing. Four files are the fewest for which that differs from none |
| `equipment` | 2 workers, 2 files each of 2 names, 2 attempts, 1 error from elsewhere, retryable or not | one row per model, only a worker that lost a transaction is refused, the tables change by whole files whose frames point at the right rows; no deadlock, as waits in a cycle are broken. Two names in opposite orders are the smallest cycle, a second spelling of one name and a second file show what the cache keeps |
| `scan_control` | 3 clients, 2 roots; no other bound, the state space is finite | the wait under the mutex is short; requests are answered; stop() returns; nothing outlives the server. Three clients are one that starts, one that waits in the join and one that waits for the mutex |
| `file_action` | 2 handlers, 2 requests of 2 frames in all, 3 files, 3 directories of the roots, 2 layouts, 2 sweeps, 1 failure | the index is true from the write-back on, or after the next quiet sweep; what the ledger calls trashed is there; only a namesake destroys a file. The layouts are one device for all, and one that has the free directory and the trash beside it: moves within a device and across, between roots and out of them. Two namesakes and one other file are the fewest for a collision beside a clean move, and a third directory is what two jobs need to move namesakes to one place |
| `accounts` | 2 threads, 2 names, 3 accounts ever, 2 logins, requests without number | names and ids stay unique; no session without its account; requests that meet no other change leave an administrator. A third account is one that takes the name of a deleted one |
| `startup` | 2 addresses, 2 ports, 3 config files, 2 changes of the outside world | defaults unless db-init, a start without a seed file or a cut start began the schema; stored settings are served; every apply begins a rebind and every rebind ends in a server or for want of what localhost needs too. The config files are the installed one, one with tls and neither certificate nor seed, and one without a schema script. Two changes are a start that is cut and one that meets another failure; settings, applies, db-init and db-seed are not bounded |
| `flat_sets` | 2 threads, 2 flats, 2 focal lengths, 2 nights, 1 filter, 2 rigs, 2 sets, 3 requests (2 where one fails or clashes), 2 gathering windows, 3 validities | rows refer to rows; frames fit their rig; flats stay claimable; picks are sticky. Two overlapping rigs and two sets, one superseding the other, are the cases the rules are about |
| `workbench` | every archive of at most 3 of 13 files, 2 sites, 2 header tables, 3 rules, 15 searches, pages of one | nights turn at noon; every spelling is found, page by page; twins come first; staged names are their own. Three frames are two that collide and the one whose name the suffix makes |
| `file_action_trash` | 1 handler, 1 request | violated: `NothingDestroyed` |
| `equipment_retry` | 2 workers, 1 file each | violated: `NoFileRefused` |

The passing Sweep runs have the database server on UTC (`ZoneAhead = FALSE`).
The properties speak of what the code can promise. `MissingWasAwayOrSkipped`
names the exceptions (a settling file, an unreached one, one whose worker lost
its connection), and `CountedOutageMarksNothing` the sweep that could count its
files. Runs that do not check for deadlock are those whose bounds on edits,
requests or failures let the model stop, and `accounts` and `workbench`, where
nothing obliges a request to come.

Disagreements between code and documentation that a run shows:

* `NoFileRefused`: the resolver caches ids that its transaction created. When
  two workers meet two new filters in opposite orders, one is rolled back,
  and its retry writes a frame with an id that exists no more. The foreign key
  fails, and so does every later file with that filter in that worker. An error
  that is not retryable has the same effect on the files after it.
* `NothingDestroyed`: a move or trash renames over a file of the same name, in the
  directory moved to or in the directory of the job in the trash.

What the passing properties concede, met while modelling:

* Sweep: a file that is replaced between a worker's stat and its read is stored
  with the other file's header under its own size and mtime (`scanner.cpp:374`); should it be put back with its old mtime, it counts as unchanged
  and keeps that header for ever. `IndexMatchesDisk` leaves such a file out
  (`PutBack`). A frame that is restamped and moved between two sweeps keeps its old
  header, for the old row takes over the new size and mtime
  (`scanner.cpp:204`, against `frame_store.cpp:191`). The guard halves by integer
  division (`scanner.cpp:146`), so that one file of three, or two of five, is
  enough for the others to turn missing; it is off when the
  count fails after the clock was read (`scanner.cpp:287`). `first_seen_utc` of an
  error row is server local time (`scanner.cpp:175`); with `ZoneAhead = TRUE`
  `OldRowsSurvive` fails.
* ScanControl: POST /scan is served until stop() closes the listener, and
  starting a scan clears the flag that stop() has just set, so that stop() waits
  for a whole sweep. `StopReturns` is stated for a listener that runs (a stop()
  before that waits for ever in its last join), and it and `PostsAnswered` allow
  the process to end in `dead`.
* FileAction: a place is taken by any row, that of a missing file included, so
  moving a file to where a trashed namesake was fails after the rename; two jobs
  that move one frame at once may write back in the wrong order. Where roots are
  on different devices a file without a namesake can be lost: one job has copied
  it from one root to another, a sweep indexes the copy, two more jobs carry that
  copy by way of a third root over the original, and then the first job removes
  what it takes for the original (`action.cpp:209`).
  `LossNeedsNamesake` leaves that out. Where the removal fails the copy stays in
  the root without a row until the next sweep makes one. Actions by
  filter include missing files, which searches hide, and an empty filter is
  every frame (`action.cpp:118`).
* Accounts: two requests that overlap can take the last administrator although
  each counted another one (`http_server.cpp:1395`); DELETE counts disabled
  administrators too, so one that cannot log in may be all that is left.
* Startup: PUT /settings stores a bind address before it refuses a bad port; a
  rebind whose two attempts fail leaves the daemon running without a listener.
  No start seeds a schema that it did not find empty: not after a first start
  that was cut short, not without a readable seed file, and not after `db-init`,
  which the package runs first, although the comment has the defaults "present
  out of the box" (`http_server.cpp:2239`). `DefaultsUnlessSpoilt` says that there
  are no other ways. With tls on and a path of the certificate unset, plain HTTP
  is served with a warning (`http_server.cpp:2297`), where the comment above
  promises "working HTTPS out of the box".
* FlatSets: creating or re-ranging a rig takes the frames of rigs that
  overlap it; the flats of a deleted rig stay bound to a set that is gone, and
  no other set can claim them; a pin may name a set of another rig.
* Headers: `master_of` is never written, so that a master found by a sweep meets
  no rule (`ARCHITECTURE.md:427` and `:518` speak of it) and masters come by
  flat sets alone; "Flat Dark" with a blank is of unknown type; the night is not
  recomputed when a site's offset changes.
* Names: numbers with leading zeros, "C14" and "Sh 2-155" with a blank are not
  recognised as what they mean.
* Query: frames that share a date may be listed twice or never when pages are
  turned; a cone's window of right ascension does not wrap at 0h.
* Matcher: frames without a date count as the nearest; missing files are
  offered; the saved query of a pin (`ARCHITECTURE.md:539`) is not consulted.
* Staging: a symbolic link to a missing file counts as done, and makes a
  namesake fail; a file with two images is staged twice, under two names.

## 5. Proofs

`BoundedQueueProofs` proves, for all finite sets of producers and consumers,
every capacity and every number of values (assumption `QueueAssumption`):

* `TypeCorrect`, `NothingLost`, `NoLostWakeup`: the safety invariants of the
  `queue` run; `WorkersLeaveNothing`, that a worker leaves only a queue that is
  closed and empty, which the run checks as part of the refinement;
* `QueueIsAChannel`: every behaviour of `Spec` is one of `WorkChannel`'s `Spec`.

They rest on `InductiveInvariant`. `ExactlyOnceInOrder` and `DrainedBeforeEnd`
need only types and the link between `closed` and the progress of `close()`.
`NoStrandedItem` counts: while some worker sleeps, the number of threads that
will look at the queue or are about to notify is at least its length. Each step
changes both sides by at most one; the lemmas `CountWith`, `CountWithout` and
`CountReplaced` are about cardinalities of the set of wakers, and `ItemStep` and
`RoomStep` take the actions one by one. The invariant has to say, besides, that
a thread with nothing left to push is done and never waits (`CallsLeft`).

`EquipmentProofs` proves, for any workers, names, models and files, any registry
and any numbers of files, rollbacks and attempts (assumption
`EquipmentAssumption`):

* `EquipmentTypes`, `WorkersConverge`, `RefusalsAreOwn`: the invariants of the
  `equipment` run, for errors of either kind at any attempt, and `FramesKeepTheirEquipment`: every committed frame points at
  the row of its name;
* `FilesAreStoredWhole`: every behaviour of `Spec` is one of `StoredFiles`, the
  property `ImplementsStoredFiles` of the run; `WholeFilesPointRight` says that
  this promise includes the one about the frames' rows.

None of them is inductive alone. That committed frames point at the right row
needs the same of the frames that wait for their commit (`WrittenRight`), and
that comes from the caches, which outlive the transaction that filled them.
`CacheRight` is what is left of a cached id then: wherever a row with it is, in
the table or in any open transaction, the row is of the right model, because an
id is given out once; and where no row is, the worker has had a transaction
rolled back, whether it then tried again or gave the file up: the case
`OnlyRolledBackAreRefused` speaks of. A refusal is a rollback too and is not
counted as one; it need not be, since its worker has had one before (`RefusedInv`).
`WriteStep` covers the four actions that write a frame under an id that is there
(`CreatesRow` is proved by itself); `UndoStep` covers the rollbacks of `Refused`,
`Retry` and `GiveUp`.

The refinement needs to know what a transaction holds when it commits.
`TransactionsAreWhole` says it for any moment before: frames for exactly the names
of the file that the transaction is past, and rows only for models that the file
mentions. A transaction that begins (`BeginsWhole`) has nothing and all of the
file before it, whether it is the first attempt or a later one; one that resumed
where the last was rolled back would not. `WritesWhole` is the step from one name
to the next. At the commit nothing is left to do, so that the frames are those
of the whole file, each under an id that `WrittenRight` ties to the row of its
name; as no model has two rows, no other id would do (`CommitStores`).

`ScanControlProofs` proves, for any clients and any number of roots (assumption
`ScanControlAssumption`):

* `ControlTypes`, `JoinUnderLockIsShort`, `ServerLeavesNothing`: the invariants
  of the `scan_control` run.

`NothingOutlivesServer` follows the order of the statements of stop(): once the
scheduler is joined it stays ended, once the listener is joined no handler runs
(`NoneAsks`), so that between the first stop() and the one of the destructor
nobody is left who could start a scan, and the second join finds the last
(`LastReap`). `OneWaits` keeps a starter inside the mutex and stop() from
waiting for the thread at once, so that stop()'s join takes it from no starter.

`AccountsProofs` proves, for any threads, names, roles and tokens and any bound
on accounts (assumption `AccountsAssumption`):

* `AccountTypes`, `SessionsBelong`: the invariants of the `accounts` run;
* `AdminsKept`: its action property `LoneChangesKeepAnAdmin`.

The two invariants are inductive together: that a recreated account never
inherits a session needs ids that only grow, and the deletion of a name takes
every session of its ids along because ids are not shared. For the last
administrator, `KInv` says what a request knows at each of its statements as
long as nobody else has written: the role it read is the row's, and each check
it passed has left a second administrator to count. The write needs both, and
that names are unique, so that the second one is not among the rows it changes.
A PATCH checks the role before it checks access, by two counts; either is
enough, as both count the administrators that can log in.

`StartupProofs` proves, for any addresses and ports, any config files and any
number of troubles (assumption `StartupAssumption`):

* `DefaultsFollowTheSchema`, `StoredIsServed`: the invariants of the `startup` run;
* `StartupInvariant`, which both follow from.

`SeededOrSpoilt` says that a schema, from its first table on, is seeded, is seeded
in the next step of the start that made it, or was begun by one of those that do
not see to it; and that a start that did not find it empty finds it there. For
the settings it is enough that nobody can store any while there is no server
(`ServesInLoop`): a config that fitted when it was read still fits when its port
is bound (`AttemptFits`), and what a server has of it is what the paths of the
certificate allow (`ServerFits`).

`SweepProofs` proves, for any finite set of paths, any headers and fingerprints,
any number of workers and any bounds (assumption `SweepAssumption`), the
invariants and action properties of the runs `sweep_faults` and `sweep_drift`:

* `SweepTypes`, `OnlyAwayTurnsMissing`: without further assumptions;
* `SweepsKeepOldRows`, `MountGuardHolds`, `MovesAreFair`, `RenamesAreFollowed`,
  `QuietSweepsMatchTheDisk`, `OkRootsCountTheirFiles`: for a database server in
  UTC (`~ZoneAhead`). Without that an error row of a few hours ago counts as first
  seen by this sweep, and the theorems are false (section 4).

The invariants are layered, each layer proved on the ones below. `TInv` has the
types and one row per path, which needs that the reconciliation moves a row to a
path only after it dropped the row there. `AInv` says what the walk has examined
and that the plan holds unseen rows. `NInv` says which rows are new and that the
targets of moves still to come are such rows. `HInv` is the guard: the first
statement of a move deletes a seen row and the second makes the old one seen, so
that the rows seen, with the one between the two statements, stay as many as the
guard counted. `KInv` and `QInv` tie the table of a quiet sweep to `before` and
to the disk. `MInv` says that the plan's choices are forced (`FairMoves`) and that
a clear rename has arrived or is on its way (`Followed`). `SInv`, `Described` and
`Standing` are about contents: a row whose stamp is that of the file has its
header, but for `PutBack`, across any number of edited, cut and killed sweeps; then
while the sweep walks, and then through each statement of the loop.

`FileActionProofs` proves, for any files, directories and handlers and any
numbers of jobs, frames, sweeps and failures (assumption `FileActionAssumption`),
the invariants of the `file_action` run:

* `FileActionTypes`, `OnlyNamesakesDestroy`, `JobsKeepTheIndexTrue`;
* `TrashIsKept`, if no move names a directory of the trash (`NoMoveIntoTrash`). The
  code does not refuse such a move; with one, a namesake can replace what was
  trashed, as in any other directory.

Devices may be laid out in any way. `LInv` needs, besides that every file keeps its
name, that a copy stands until its original is removed, or was taken from a root
by another job and left to the sweep (`CopyStands`); and that a sweep that forgets
what was left to it has no job beside it (`AloneOK`), so that none of those copies
waits for its removal then. `XInv` follows a trashed file through the job:
each directory of the trash is one job's, what is still to do has no item
(`Undone`), and what is in hand is in its place already. `IInv` is about the time
between the rename or copy and the write-back, which is where a file may be in
two roots or nowhere its row says. What a handler carries is where the row will
say, and while it is copied also where the row says (`RowCarried`, `FileCarried`),
and no row is carried by two unless it was left to the sweep (`SoleCarrier`); a
sweep that met no job has seen exactly what is at the places it walked (`WalkOK`).
That the trash is outside of the root is part of the assumption; its default is
`/var/lib/starbase/trash` (`config.hpp:77`), and inside a root sweeps would index it.

`FlatSetsProofs` proves, for any threads, flats, focal lengths, filters and nights
and any bounds (assumption `FlatSetsAssumption`: nights are numbered in the order
of their dates, and NULL is no number), the invariants of the `flat_sets` run:

* `FlatSetsTypes`, `PicksStick`: in every state, clashes and failures included;
* `FramesFit`, `FlatsClaimable`: while nothing failed or clashed, as the two
  properties say.

What has to be invariant is about the statements that requests have still to send.
Part B shows what each handler puts in its list, and `OnTheirOwn` that every list
writes only rigs and sets its request is on, so that without a clash no other list
touches them. `RigsScript` then says of what is left of a list: a claim is for the
range its rig has when the claim's turn comes, and a change of range is followed by
a release. With that a frame that its rig does not cover has a release ahead
(`Fitting`), and none is left once the requests have gone through. `SetsScript`
says the same of sets: flats are gathered for a set that is there, and a set is
deleted when no flat is bound to it. The pick needs the types only: without pins
and windows, the sets captured by either night are the same.

The attempts on `Sweep` and `FileAction` corrected the model. For `Sweep` the invariant of contents failed on
a file that is put back, which takes more edits than the run allows: hence
`swapped`. For `FileAction` it failed on two jobs that move two namesakes to one
place, where the first writes its row back after the second replaced its file:
hence `Claims`, `Own` and `astray`, and the third directory in the run, which TLC
needs to see it.

Only model-checked: `Workbench` and the operators under it, which are
recursive or a matter of cases over data; and every liveness property
(`PushesReturn`, `PostsAnswered`, `StopReturns`, `AppliesAreActedOn`, and
`ImplementsChannel` with its fairness), as the prover handles neither fairness
nor ENABLED.

## 6. Not modelled

* FITS and XISF readers: parsing of bytes, without state that lasts. `Sweep` has
  their outcome, a content or an exception.
* Tags, collections, sites, objects and saved queries: one SQL statement per
  request on rows of their own, kept by the schema's keys.
* Sidecar artifacts and their linking in the sweep; ignore patterns; progress.
* Copy and symlink actions, dry runs, exports: they create files outside the
  index. The PixInsight script is text.
* Sky cones, text patterns and comparisons of cards other than equality in
  queries; coordinates and site matching in the resolver; the remote name lookup.
* Passwords, hashing and what a role may write; the progress figures of a scan;
  SIGHUP and logging; the command line client, which calls the same operations;
  the web client.
