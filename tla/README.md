# A verification project for polarysdb

TLA+ models of polarysdb, an embedded, encrypted, in-memory key/value database
in Go with an asynchronous write path, a write-ahead log, snapshots,
transactions and secondary indexes. TLC checks the models on small instances;
TLAPS proves some of their properties for every value of the constants.
Paths below are relative to the repository's `src/`; `PROJECT.json` maps every
definition to the lines it models and lists components, runs, mutants, findings,
hazards and theorems.

## 1. The system

| Component | State | Operations | What is hard |
|---|---|---|---|
| Write pipeline (`database.go`, `flush.go`) | channel `writeBuffer`, counter `pendingOps`, `dataMutex`, `closed`, `ctx`, a `ResultCh` per operation | Create, Write, WriteBatch, Delete; `processWriteBuffer`; `waitForPendingOps`; `CloseWithTimeout` | callers that time out, a worker with two nested selects, Close racing with sends, Flush waiting outside the lock |
| Database state (`database.go`, `flush.go`) | `db.data`, `version`, `dirtyFlag`, the state file, `lastLoaded` | `processBatch`, `flushToDisk` (periodicSave, Import, Close), Flush, `fileOnChange`, `load`, `recoverFromWAL` | four agents change or save the same data; flag and data change under different locks; crash between any two steps |
| Write-ahead log (`modules/wal`) | channel `buffer`, `pendingBatch`, a `bufio.Writer`, the file, `size`, `rotating` | Append, `batchWriter`, `periodicSync`, `rotateWatcher`, Sync, Truncate, CloseBuffer, Close, ReadAll | five places an entry can be in, three goroutines, two mutexes, errors half-way |
| Transactions (`modules/tx`, `database.go`) | snapshot, snapshot version, changes, status | Begin, Write, Delete, Commit, Rollback | optimistic concurrency rests on every change taking a new version |
| Secondary indexes (`modules/index`) | per index: formatted value to list of keys | CreateIndex, UpdateIndex, DeleteFromIndex, Query, DropIndex | kept by the worker only; built from, and read through, unlocked references |
| Storage engine (`modules/storage`) | the state file, its temporary file, flock on inodes | Save (temporary file, fsync, rename), Load | two processes that save into one temporary file; a death or a power cut between any two calls |
| Backups (`modules/backup`) | files in a directory | Backup, Restore, cleanOldBackups | names of one-second granularity, stale listings |
| Recovery (`modules/wal` ReadAll, `database.go`) | the log file, the state file, the place of the reader | `writeEntry`, `readEntry`, ReadAll, `recoverFromWAL` | a record torn anywhere, and later records behind it |
| Key rotation (`database.go`, `modules/storage`) | three copies of the key: configuration, engine, log | ChangeKey, UpdateKey, ExportEncrypted | two assignments under two mutexes, then a save that may fail |
| Encoding, mapper, copies | none | SerializeValue, Marshal, `deepCopyValue`, `to`, MapToStruct | which types survive which way |
| Crypto, keys, config, metrics, logger | none of interest | library calls, paths, counters | none |

How they interact. A caller puts an operation in `writeBuffer` and waits on its
`ResultCh`. `processWriteBuffer` collects a batch, takes `dataMutex`, and for
each operation changes `db.data`, updates the index, appends to the log, counts
the operation down and answers. `periodicSave` and Flush write `db.data` to the
state file and lower `dirtyFlag`; `fileOnChange` reloads the file when its mtime
is not the one it knows, which is also how the save of another process arrives.
CommitTransaction and Import write `db.data` directly.
Init loads the state file and then replays the log over it. Close sets `closed`,
closes `writeBuffer`, cancels the context that database and log share, waits for
the workers, saves if dirty, and closes the log.

What makes each component correct:

- Pipeline: every operation is applied once and answered, or abandoned by its
  caller and uncounted; `pendingOps` counts exactly those in flight; Flush sees
  everything counted before it; Close ends.
- State: memory, state file, log, dirty mark and version should agree: a clean mark
  means a current file, replaying the log repairs any file, an unchanged version means
  unchanged data. The code does not keep all of that; the properties say which steps
  alone break it.
- Log: accepted entries become durable in order, none is duplicated, a crash leaves
  a prefix that contains what was synced.
- Indexes: under each value exactly the keys of the matching records.
- Transactions: one at a time, each on the state it was shown, or not at all.
- Storage engine: the state file changes in one step or not at all; the watcher
  overlooks no change.
- Key rotation: at any moment some key the application knows opens the file, and
  what was answered is under it.
- Backups: the newest `KeepCount` are never removed, and no more pile up.
- Recovery: what is read from the log is a part of what was written, in order, up
  to the first tear; a Read gives back the type that was written.

## 2. Modules

| Module | Models | State and actions |
|---|---|---|
| `WritePipeline` | the way of an operation from caller to worker, Flush's wait, Close | one variable per Go variable; `pc`, `wpc`, `fpc`, `cpc` say where each goroutine is. `Call`, `Count`, `Send`, `GiveUp`, `Return` are a caller; `Outer*`, `Inner*` the two selects; `BatchLock`, `ApplyOp`, `BatchUnlock` processBatch; `Flush*` waitForPendingOps and the lock; `Close*` the shutdown sequence |
| `Database` | what operations do, and everything that saves, reloads, replaces or recovers the data | `Worker`, `FlushToDisk`, `Watcher`, `Flush`, `Import`, `Transaction`, `Log*`, `Close`, `Crash`, `Reopen`; `ForeignSave` is another process's save, which `Watcher` exists for |
| `AbstractLog` | what the log promises: accept, persist, crash to a prefix | the log, how much of it is durable, how many entries were accepted, and an excuse; `Accept`, `Persist`, `Crash` |
| `WAL` | the log: `Append -> buffer -> hand -> pendingBatch -> bufio -> file -> disk` | one action per critical section, and one per file operation of Truncate (`TrFlush`, `TrClose`, `TrRemove`, `TrSwap`, `TrError`); `DiskFails` is the error that a `bufio.Writer` keeps; `closeMutex` and `batchMutex` are variables where they are held across steps; `synced` separates page cache from disk |
| `IndexManager` | one index on one field, with the worker that keeps it, CreateIndex, a query, and the changes that bypass it | `Worker`, `CreateIndex`, `Query`, `Replace` (load, Import), `Commit`; `view` and `aliased` follow the slice that a query copies outside the mutex |
| `SerialStore` | what transactions promise: open, then committed on the state that was shown, or rejected | `Show`, `Ask`, `Commit`, `Reject`, `Other` |
| `Transactions` | `tx.go` and CommitTransaction next to the worker | `status` is the map of the manager, `call` the place in CommitTransaction: `CommitFinalize` under `tx.mutex`, `CommitConflict` or `CommitApply` under `dataMutex`; `BatchApply`, `BatchEnd` are a batch, whose changes precede its new version |
| `AtomicFile` | what Save and Load promise: a register that changes in one step, read at one moment of the call | `BeginSave`, `Replace`, `GiveUp`, `BeginLoad`, `EndLoad`, `FailLoad`, `Die`, `Settle`, `PowerCut`, and an excuse |
| `StorageEngine` | Save and Load, one action per system call, in several processes | `dir` is the directory, `content`, `synced`, `mtime` the inodes, `pc` and `fd` a process; locks are read off `pc` and `fd`, as flock belongs to the open file; `LoadFails` are the error returns of Load |
| `KeyRotation` | ChangeKey by several callers, periodicSave, the worker, ExportEncrypted, crash and Init | `config`, `engine`, `logKey` are the three copies; `CheckKey` to `ClearAndReturn` the statements of ChangeKey; `Write` stores and appends in one step, as both happen under `dataMutex` |
| `Backup` | CreateBackup and cleanOldBackups | the directory as a function from names (seconds) to snapshots; `todo` is the list each cleaner works from |
| `Values` | no state: what SerializeValue, JSON, `deepCopyValue`, `to` and MapToStruct make of the type of a value | operators over `[class, of]` |
| `Recovery` | the log file as units of records, `writeEntry`, ReadAll, `readEntry`, the state file, Init | `file` is a sequence of units `[id, unit]`; `pos` and `got` are ReadAll; `FlushFails` and `Crash` tear records, and a power cut may also leave zeros in place of their tail (`zeros`) |
| `*Proofs` | theorems and proofs about the module they extend; `FilesProofs` extends both `Recovery` and `Backup`, which for that have no name in common | |
| `MC*` | instances for TLC; `Transactions` and `KeyRotation` need none | |

Composition. `Database` stands on the modules below it through what they
establish. The log in it is the `AbstractLog` (`walFile` is the durable prefix,
`walBuf` the rest, crash keeps the prefix; here the worst case, exactly the durable
part), which `WAL` implements (`ImplementsAbstractLog`). Rotation, failing appends
and a log worker that has stopped are additions to it that `Database` states as
actions of their own. The queue in it (`Submit`, `TakeBatch`) is the pipeline with
`QueueExact`: what is submitted and not abandoned is taken once, in order. Save is one
action in `Database` and in `KeyRotation`; `StorageEngine` shows that it may be
(`ImplementsAtomicFile`), with the exception of Saves of two processes that meet.
`Recovery` uses the operators of `Values` for what goes into the log and the state
file and what a Read makes of it. `Transactions` has the manager and the commit in
full and the rest of the database as a batch that changes data; `Database` has the
commit as one step and the rest in full.

`Features` is the set of things the environment and the timers may do in a
behaviour. A run names them, because several properties hold only without a
certain feature, and the violation of the same property with that feature is itself
a result (section 4).

Abstractions. Names, keys of records, encryption keys and values are model values. A
caller has one operation outstanding, so the pipeline names an operation by its caller.
Log entries are numbers in `WAL` (order of acceptance), records in `Database`, and
sequences of units in `Recovery`: two for the header, one or two for the data, which is
enough to be cut inside the header, between header and data, and inside the data. A
reader that has lost its place may read any header, and its checksum is taken to fail
on anything but the bytes it was made for. In `Values` numbers are below 2^53, where
JSON is exact, and a composite is known by the type of its members. Metrics, logging and
message texts are left out. Tickers are actions that are always possible: no timing
relation is assumed.

## 3. Runs

`tlc -config X.cfg <module>`; `PROJECT.json` names the module and lists the properties.

| Run | Shows | Instance and why it is enough |
|---|---|---|
| `pipeline` | exact counter, exactly-once processing, what Flush may rely on, and that write calls, Flush and Close return | 3 callers, channel of 1, batch limit 2: one operation in the batch, one queued, one blocked on a full channel; batches end by limit, by ticker and by close |
| `wal_safety` | the log implements `AbstractLog` until something fails or truncates it, and keeps order and duplicates nothing in any case | 3 entries, the second of which cannot be written, channel of 1, rotation after 1 entry, so entries are in all stages while the file changes; all features: Sync, Truncate, files that cannot be opened or removed, a disk that fails, CloseBuffer, Close with timeouts, power loss |
| `wal_live` | an accepted entry reaches the disk; Sync, Truncate and Close return | 1 entry and rotation at once: the question is who waits for whom, not how many entries there are; with CloseBuffer, a Close that gives up on its workers, drains that time out, and files that cannot be opened or removed |
| `db_state` | only the clear of `flushToDisk` leaves a change unmarked; only imports and stale reloads escape a transaction's check; only stale reloads lose an answered write | no log; all savers, imports, another process, failing disk, watcher; 1 key, 2 values, 2 transactions (which are interchangeable: symmetry), 2 operations or imports, 1 restart |
| `db_log` | replaying the log over whatever file is there gives memory wherever a change was logged; a restart finds every answered write whose entry was in the log file; only the clear of `flushToDisk` and a replay leave a change unmarked | 3 operations of any type on 2 keys, queue of 1, saves at any time, failing appends and disk, imports, another process, watcher, rotation, Close with either order of the shared context, crash, 1 restart |
| `index` | exact lists unless CreateIndex raced or something bypassed the index; covering lists even if it raced; sound queries | 2 keys, 3 values two of which are formatted alike, 3 stores, all features |
| `tx` | transactions are serial; of those at one version one wins | 2 transactions, 2 keys, absence and deletion, 2 batches: a transaction may begin before, inside and after a batch, and lose to it or to the other |
| `keys` | some known key opens the file; what was answered under the log's key survives; exports are under the caller's key; a new key is left out of the file in two ways only, and reaches it otherwise | 3 keys, 2 callers who may overlap, 2 writes, 2 calls, 1 failed save, 2 crashes: back to the first key, or on to a third, with a crash in between |
| `storage` | Save and Load are atomic unless two Saves meet; the watcher overlooks nothing; nobody waits for ever on a lock | 2 processes, one of which loads, 2 values, 3 saves, failing calls, deaths, power cuts |
| `backup` | the newest are kept, a whole one is among them, cleaners catch up | 2 to keep of 4 backups in 5 seconds, several in one second, a clock that steps back, failing writes and removals, 1 crash: up to four cleaners at a time |
| `recovery` | what is read back is a subsequence of what was written, complete up to the first tear, nothing invented; the types of section 6 come back unchanged; ReadAll ends | 3 writes of 2 types (structs with integers and with string lists: of the types that a Read gives back, the ones that JSON changes most), records of 3 or 4 units, 2 restarts: a tear or zeros, records behind it, another tear, with the state file at any age |

Every property has a mutant in `PROJECT.json`: a plausible bug (a dropped guard, a
missing reset, a wrong counter) under which the run fails. `TypeOK` holds in the
instances of all modules; it is listed in one run and elsewhere proved or part of what
the other properties rest on.

Bounds: the constants `Max*` and `QueueCap` limit how much happens, never what may
happen; a deadlock at a bound is no error, so these runs do not check for deadlock. In
the pipeline, callers may stop and a panic or Close ends everything; that nobody waits
for ever is what the liveness properties say.

Properties worth explaining:

- `QueueExact`: channel plus batch is a duplicate-free list of exactly the callers
  blocked on an empty `ResultCh`. Nothing is lost, applied or answered twice.
- `FlushCovers`: every operation counted when Flush began is over when Flush takes the
  lock. Polling `len(writeBuffer)` instead of the counter breaks it.
- `OnlyClearsAndReplaysForget`: all early exits (`if !dirtyFlag`) rely on a mark that is up
  whenever memory is ahead of the file. The code does not keep that, so the property is
  about steps: which of all those that change, save, load or import leave memory ahead
  of the file and unmarked. There are two, both hazards of their own: the
  CompareAndSwap of `flushToDisk`, which is outside the mutex, and a replay. No premise
  removes them, and a third one would be found.
- `OnlyImportsAndReloadsOutdate`, `OnlyRollbacksAndReloadsLoseAnswers`: in the same way,
  which steps can bring a transaction with a current version and an old snapshot, and
  which can take an answered write out of memory.
- `LogRepairs`: the replayed log is idempotent enough that the age of the snapshot does
  not matter, nor who wrote it. `RestartKeepsAnswers` is what a start makes of it, after
  a Close as after a crash, whether or not the last save came and the log's worker was
  still there; entries that were not in the file are excepted, in `walBuf` (a Close on
  the cancelled context leaves some: section 4, `DurableAnswers`).
- `ImplementsAbstractLog`: through the refinement mapping
  `retired \o file \o bufio \o pendingBatch \o hand \o buffer`; the excuse of the
  abstract log is an entry that cannot be written, and a writer that has met an error or
  a Truncate.
- `ImplementsSerialStore`: a transaction that is finalised and not yet decided is still
  open to the outside; the version check under `dataMutex` decides it.
- `ImplementsAtomicFile`: `rename` is the step of a Save, and a Load answers with
  something the file held between its first call and its last. `contended` is set when
  a Save opens, and so truncates, a temporary file that another has open; it is reset by
  the rename of a Save that had it for itself.
- `KeptSurvives`: a start reads the log records under its own key only. Writes answered
  while the log's key was the only one in play are either in such records or in a file
  saved under the new key.
- `IndexExact` and `QuerySound` have the history variables `raced` and `bypassed` as
  premises, so that one run covers the behaviours before, during and after a bypass.
  `IndexCovers` holds in a race as well, unless the table itself was created while
  CreateIndex held its missing map; `IndexFindsAll`, without exceptions, is refuted
  (section 4).
- `OnlyLateClearsStrand`: as for the dirty mark, which steps of all can leave a new key
  neither in the file nor marked.
- `NewestKept`: cleaners hold lists that others have made untrue; it holds because a name
  once old stays old.
- `PrefixRecovered`, `NoStepBack`: what a tear costs. A reader past a tear may find later
  records or none, so the guarantee ends at the first tear (`WholeRecovered` does not
  hold, section 4).

Fairness (`FairSpec`). Go runs every runnable goroutine: weak fairness for each step of
a goroutine that is not waiting for a mutex. `sync.RWMutex` does not starve waiters, and
a select with several ready cases picks at random: strong fairness for taking a mutex
and for a select case that is ready again and again. A process waiting in flock gets a
lock that is free again and again (strong fairness for the steps of Save and Load), and
a ChangeKey that waits for a mutex goes on, as do ReadAll (`ReadEntry`) and an export.
Tickers keep ticking (`PeriodicSave`). Applications are never obliged to call anything,
and nothing is assumed of crashes and failures but that `KeyRotation` bounds the failed
saves. Flush's wait has a time limit in the code, which `FlushReturns` uses.
`EveryCallReturns` is claimed until somebody closes the database, `EventuallyDurable`
until the log is closed, its file has gone bad, or the entry is on record as lost,
`RotationCompletes` until a crash or until the new key is `Stranded`, which
`OnlyLateClearsStrand` reduces to two steps.

## 4. Disagreements between code and its documentation

One run of `PROJECT.json` is a counterexample that TLC must find:

| Run | Property | What happens |
|---|---|---|
| `keys_atomic` | `FailedChangeKeepsKey` | README.md:410 has ChangeKey roll back on failure; after a failed save the configuration and the engine stay with the new key, the state file has the old one |

Further configurations that end in a counterexample. They are kept so that a fix can be
tried against them, and they are the reason for the features that the passing runs leave
out. Where a change is given in parentheses, make it in a copy of the file; a property
named with a file that lists another one replaces it.

| Configuration | Property | What happens |
|---|---|---|
| `WritePipeline_drain.cfg` | `DrainedAtExit` | the worker may return on the cancelled context with an operation queued, whose caller waits for ever (database.go:1218 says it drains) |
| `WritePipeline_drain.cfg` | `NoPanic` | README.md:833 "Clean shutdown without panics"; a caller past the check of `closed` sends on the closed channel |
| `WAL_sync.cfg` | `SyncGuarantee` | Sync looks at the channel and the `bufio.Writer`, not at what `batchWriter` has in hand or in `pendingBatch` (wal_sync.go:14) |
| `WAL_closebuffer.cfg` | `AppendFailsFast` | Append after CloseBuffer panics (wal.go:636) |
| `WAL_rotation.cfg` | `LaterRotationsWork` | after one failed rotation all later ones fail (wal.go:380) |
| `WAL_truncate.cfg` | `TruncateKeepsQueued` | `batchWriter` flushes into the file that Truncate has closed (README.md:569) |
| `Database_dirty.cfg` | `CleanMeansPersisted` | `flushToDisk` lowers the flag after it released the lock and forgets a batch in between (CHANGELOG.md:96); `fileOnChange` may then reload the older file over an answered write (CHANGELOG.md:99) |
| `Database_reopen.cfg` | `ReopenKeepsSaved` | after Flush and a crash, the durable part of the log is replayed over a newer snapshot and undoes a saved operation (flush.go:87) |
| `Database_commit.cfg` | `ReopenKeepsSaved` | a commit is not logged; the next start replays older entries over it (CHANGELOG.md:114) |
| `Database_commit.cfg` (`Txs = {}`, `MaxOps = 1`, `Features = {"flush", "crash"}`) | `FlushPersists` | recovered data is not marked dirty, and Flush returns nil without saving it (flush.go:17) |
| `Database_close.cfg` | `DurableAnswers` | a clean Close loses an answered write: `flushToDisk` clears the mark that a later batch set, and the log's worker has already left on the shared context (CHANGELOG.md:93) |
| `Database_close.cfg` (`Ops <- FewOps`, `Features = {"crash"}`) | `DurableAnswers` | the answer precedes the durable entry (README.md:561) |
| `Database_import.cfg` | `TxSnapshotCurrent` | an import does not take a new version; a stale transaction commits (README.md:300) |
| `Database_append.cfg` (`WALEnabled = FALSE`, `Features = {}`) | `VersionOnlyOnSuccess` | a Create of an existing table counts as success and moves the version (CHANGELOG.md:100) |
| `Database_append.cfg` | `OkMeansLogged` | the error of `wal.Append` is assigned to a shadowed variable; the operation is rolled back and answered with nil (database.go:818) |
| `Database_rotate.cfg` | `LogIsWhole` | rotation retires entries that no snapshot holds and no restart reads (README.md:561) |
| `IndexManager_race.cfg` | `IndexConsistent` | CreateIndex sees a record stored and not yet indexed: the key is listed twice (CHANGELOG.md:138) |
| `IndexManager_race.cfg` (`Features = {"newTable", "race"}`) | `IndexFindsAll` | a CreateIndex on a missing table iterates no map; records of the Create that comes meanwhile are never listed (CHANGELOG.md:138) |
| `IndexManager_commit.cfg` | `IndexConsistent` | a commit is not indexed (CHANGELOG.md:138) |
| `IndexManager_query.cfg` | `QueryComplete` | a query copies a list that UpdateIndex moves down in place, and misses an untouched record (CHANGELOG.md:138) |
| `KeyRotation.cfg` | `NeverStranded` (invariant) | a periodic save that began before ChangeKey clears the mark of the new key, which then stays out of the file until another write (CHANGELOG.md:119) |
| `KeyRotation_atomic.cfg` | `KeysAgree` (invariant) | two ChangeKeys overlap, and configuration and engine end with different keys |
| `KeyRotation_atomic.cfg` | `NothingLost` | the log keeps its key for the life of the process: after a ChangeKey, answered writes that no save has reached are lost by a crash (README.md:561) |
| `KeyRotation_atomic.cfg` | `NothingOlder` | a change back to an earlier key makes the old records of the log readable again, which are replayed over a newer file (CHANGELOG.md:119) |
| `KeyRotation_atomic.cfg` | `ExportAlwaysRight` | an export between the two assignments of ChangeKey checks the new key and encrypts with the old one |
| `StorageEngine_contended.cfg` | `AlwaysWhole` | a Save truncates the temporary file before it has the lock; the other process may be about to rename it (README.md:42) |
| `StorageEngine_contended.cfg` (`Features <- PowerOnly`) | `SavedIsDurable` (property) | the directory is not synced after the rename: a power cut may bring the older file back |
| `StorageEngine_contended.cfg` (`Features <- Coarse`) | `WatcherMissesNothing` (invariant) | on a file system with coarse times two saves of one tick look alike to the watcher |
| `Backup.cfg` | `LatestIsNewest` (invariant) | names are in local time: when the clock steps back, the latest name is not the latest backup |
| `Backup.cfg` | `LatestIsWhole` (invariant) | the latest name may be a file cut off by a crash or a full disk |
| `Recovery_tear.cfg` | `WholeRecovered` | a torn record shifts the reader, and whole records behind it are lost (README.md:561) |
| `Recovery_tear.cfg` | `NeverStepsBack` | and the last of them found is older than what the state file holds, and replayed over it |
| `Recovery_types.cfg` | `ReadsWhatWasWritten` | an `int` comes back from the log as `int64` and from the state file as `float64`, bytes as base64 text: Read refuses or panics (CHANGELOG.md:82) |
| `Recovery_types.cfg` (`Written <- Lists`) | `ReadNeverPanics` (invariant) | a `[]string` comes back as `[]any`, which has the same kind and is not assignable |

## 5. Theorems

Eight modules hold the proofs, each of the module whose name it has, but for
`FilesProofs`, which is about `Recovery` and `Backup`. What a theorem assumes beyond the
assumption on the constants is in its ASSUME. Each module also has its type correctness
as a theorem.

`WritePipelineProofs`, for any finite set of callers, any capacity and batch limit
(assumption `PipelineAssumption`): `TypeCorrect`, `PendingOpsCorrect`, `ExactlyOnce`,
`FlushCorrect` and `SliceEmptyAtExit`, all from `Invariance == Spec => []IInv`.
`FlushCovers` is not inductive: that a counter at zero leaves nothing awaited needs
`PendingOpsExact`; that `ApplyOp` counts down an operation that was counted needs
`QueueExact`; that a new operation is not already queued needs `FreshReply`; that no
batch is applied during a save needs `LockExact`. Their conjunction is `IInv`. The lemmas
before it say how `Append`, `Head`, `Tail` and `\o` treat duplicate-free sequences, and
how the number of elements changes when one joins or leaves a finite set. Then one step
per action.

`WALProofs`, for any number of entries, any sizes of channel, batch and file, and all
that the environment may do (assumption `WALAssumption`): `KeepsOrder`, which is
`LogOrdered`, and `Implements`, the refinement of `AbstractLog`. The invariant is short
(`Steps`: an entry is in hand only where `batchWriter` has received one, the
`bufio.Writer` is empty while `rotate` changes files, its file is closed while Truncate
changes them, Append sends only below the bound of the model). The work is in the steps.
`Form` says that each is of one of four forms: entries move on (`Moves`), Append adds
one at the end (`Accepts`), a stretch of them is given up (`Drops`), which needs an
excuse and leaves what is on disk alone, or the process ends with a prefix that contains
it (`Ends`). One lemma per action gives the form, and both theorems follow from the
forms. The lemmas on sequences before them (`Cat`, `AppendToLast`, ...) say how a
concatenation of six parts behaves when the head of one becomes the end of the part
before it.

`DatabaseProofs`, for any tables, keys, values, operations, transactions and bounds,
and all that `Features` may name: periodic saves, Flush, imports, another process on the
file, the watcher, failing appends and disks, rotation, Close, crashes and restarts.

- `TypeCorrect` (`TypeIInv`).
- `OnlyClearsAndReplays`, `OnlyImportsAndReloads`, `OnlyRollbacksAndReloads`: the three
  properties of steps, with and without the log, with no assumption on what happens
  around them. A step that is none of the named ones either leaves what the property
  is about alone, or repairs it, or is part of a batch that has not ended (`InBatch`).
  Beyond the types that needs `StepIInv`: between its save and its clear Flush holds the
  mutex, so that the file is current or another's (`FlushHolds`), and no open transaction
  has seen a version that is still to come (`VersionsPast`), so that the new version of a
  batch or a commit is none that any of them has.
- `LogRepairsState` and `RestartKeepsWrites` (`LogIInv`): `LogRepairs` and
  `RestartKeepsAnswers`, where the log is on, which is their only assumption. `LogRepairs`
  alone is not inductive: a save replaces the file under the log, so it has to be true of
  every file that can come next. `Repaired` therefore says that the log replayed over the
  state file, the log replayed over the data itself, and what was announced all agree with
  the data on every place the log knows of. A save makes the second of these the first; a
  logged step adds to all of them what it does to the data (`Tells`); the rest, a reload
  and another process's save among it, widens `unlogged`. What a start finds is the log
  without the entries that were not in the file, so it agrees on every place that those
  do not touch (`Touched`).
  What a replay does is seen through `Look` and `HasTable`: an entry either sets a place,
  whatever was there, or leaves it, and so does a log (`LogEffect`), from which
  replaying twice, and replaying a longer log, follow (`ReplayTwice`, `ReplayConcat`).
  That goes by induction over the length of the log. It is stated for sets of sequences
  (`SeqInduction`, from the fact that a set of lengths has a least one), as the library's
  theorems with an operator for the claim cannot be used here, and `Replay` is written
  with a function of the length rather than a RECURSIVE operator.

`IndexManagerProofs`, for any keys, values, formatting, operations and bounds (assumption
`IndexAssumption`, which says no more than that the model's placeholders are not values):
`TypeCorrect`, `StaysExact`, `StaysCovering` and `QueriesAreSound`, for `IndexExact`,
`IndexCovers` and `QuerySound`. Between the worker's store and its call of UpdateIndex
the index is exact for the record before (`Indexed`, `Exactly`), and it covers every
other record (`Covered`); while CreateIndex is under way the same holds of the list that
it builds and the keys it has passed; the map it iterates is the table's own (`Sourced`).
For the query (`Seen`) the list, the array it still sees and what it has copied are all
within the keys that have matched since it began. The lemmas on lists say what the
removal of a key and the in-place move behind it leave of a duplicate-free list.

`StorageEngineProofs`, for any processes, values and number of saves, with failing calls,
deaths and power cuts: `PublishedIsWhole` (`WholeUnlessContended`), `SavesAreAtomic` (the
refinement of `AtomicFile`) and, where the clock is not coarse (its assumption:
`"coarse" \notin Features`), `WatcherSeesEverySave` (`WatcherMissesNothing`). The
invariant says which inodes the names lead to, now and after a power cut, and who has
them open: they are different files (`NamesApart`), a Save that nobody has disturbed has
the temporary file for itself and knows what is in it and on disk (`Undisturbed`), a
published file is whole, synced, and open in no Save (`AllPublished`), and a Load that
holds an inode will read something that the name has led to during the call (`Looked`).
The inodes never run out, as each open uses one (`InodesLeft`). For the watcher the
times of inodes differ, and a Load that has taken the time of a file before reading
it cannot know that of a later one (`Times`).

`TransactionsProofs`, for any transactions, records, values and number of batches:
`OneWinnerPerVersion` and `Serializable`, the refinement of `SerialStore`. The invariant:
a transaction is finalised exactly when its commit is under way or over (`FinalOnce`),
no transaction has seen a version that is still to come (`VersionsPast`), and with
`dataMutex` free an unchanged version means unchanged data (`SnapshotCurrent`). The last
makes the step `CommitApply` a `Commit` of the serial store; every other step is one of
its steps or none.

`KeyRotationProofs`, for any keys, callers and bounds: `StateFileOpens`,
`OnlyLateClears`, `RotationKeepsWrites` and `ExportsUnderCallersKey`. The
invariant follows the key through ChangeKey: unless calls overlap there is one at most
(`OneCall`), the engine has a key the application may try (`EngineBelieved`), from
UpdateKey on the new one (`NewKeySet`), which is in the file before success is
returned; configuration and engine differ between the two assignments only
(`ConfigAgrees`); and `KeptSomewhere` says in which of log and file each kept write is.
`OnlyLateClears` follows from it step by step, with no exception for the clears that it
names.

`FilesProofs`, about the log file: for any number of writes, starts and units in an
entry, `PrefixIsRecovered`, `NothingIsInvented`, `NoStartStepsBack` (`PrefixRecovered`,
`NothingInvented`, `NoStepBack`) and, where only such types are written that
`Values!Faithful` has (assumption `Written \subseteq Faithful`; `Recovery_types.cfg`
shows what happens to others), `WrittenIsRead` (`ReadsWhatWasWritten`). The invariant
`FileIInv` says of each unit what precedes it (`Framed`: the units of its entry that
come before it stand directly before it) and how it is ordered with every other
(`Sorted`), so that cutting off, appending and tearing need no induction over the file;
that what is queued is newer than what is written (`Queued`); that each entry read is
whole before the place of the reader (`ReadBefore`); and that a reader that has met no
tear stands at the beginning of an entry and has read every one before it, while one
that has met a tear has read all before it (`Reading`). `ReadCases` gives what a call of
`readEntry` can do: end, read the whole entry at its place, or meet a torn one and go on
somewhere behind. Behind a tear, or in the zeros of a power cut, the reader may take any
place for a header, and `IntactIs` is what keeps it from inventing: its checksum fits
only bytes that were written as one entry. For the types (`FormsKept`) memory and state
file hold what was written or what JSON makes of it, and each of these forms is read
alike (`FormsAreRead`, over the operators of `Values`).

`FilesProofs`, about the backups: for any number of backups and cleaners and any
`KeepCount`, with shared names, clocks that step back, failures and crashes:
`NewestAreKept`, `OneStaysWhole` (`OneIsWhole`) and `CleanersClean` (`Cleaned`). The
invariant is that each name on a cleaner's list has `KeepCount` newer files beside it;
removing one keeps it true of the others, since what is newer than a name is newer than
any smaller one (`RemovalKeeps`). The files beside a removed one stay, so either one of
them is whole or `KeepCount` are cut off (`RemovalSpares`). That the cleaners get done
needs `Listed`: when no cleaner is to come, every file that is too old is on somebody's
list.

Only model-checked: liveness (`EveryCallReturns`, `FlushReturns`, `CloseTerminates`,
`EventuallyDurable`, `CallsReturn` of the log and of the storage engine,
`RotationCompletes`, `ReadAllEnds`). Fairness and `ENABLED` are outside the prover's
reach. Every other property of the passing runs is a theorem.

## 6. Not modelled

Types in `Recovery`. The values whose types survive every way for a Read
(`Values!Faithful`) are strings, booleans, `float64`, maps of these, and structs with
fields of numbers, strings, booleans and `[]string`; `ReadsWhatWasWritten` is about them,
and section 4 has others. Arrays, pointers, nested structs and gonum numbers in the
mapper, numbers from 2^53 and the text of a `float32` are left out.

Left out as well: cryptography (a key opens what was encrypted with it and nothing
else), configuration (path computations and range checks), metrics and logging (nothing
reads them back), generated protocol buffer code; `DropIndex` and `GetStats`, which
`database.go` never calls; Exist and the plain Export, which change nothing;
RestoreBackup, whose result nothing loads; that values returned by QueryByIndex are
shared with the caller, which is then a matter of the caller's code; an I/O error that
stays while ReadAll runs; a checksum that accepts other bytes by accident; the log under
the zero key, which is not encrypted, and where a header of zeros passes the checksum
and reads as an entry; an import under a key that ChangeKey replaces meanwhile; a commit
after Close; in `WAL`, an error of Flush or fsync that passes (`DiskFails` is one that
stays, as in a `bufio.Writer`), and a Truncate torn within its Flush, Sync and Close; in
`WritePipeline`, the workers besides the write worker that Close waits for (`Database`
has them), and what Close does after it.

A transaction's Write and Delete in `Database` are the choice of its changes when it
commits; `Transactions` has them one by one.

## 7. Plan

Done, in this order: `WritePipeline`, `AbstractLog` and `WAL`, `Database`,
`IndexManager`, `Transactions` and `SerialStore`, `StorageEngine` and `AtomicFile`,
`KeyRotation`, `Backup`, `Values` and `Recovery`; proofs of the pipeline, of transactions
(both modules), of key rotation, of the storage engine and the log with their
refinements, of the dirty mark, the answers and the log in `Database`, of the index, of
backups, and of what a start recovers.

Open: the refinement between the log that `Database` has inside and `AbstractLog`, which
is argued in section 2 and not checked; the mapper's composite types.
