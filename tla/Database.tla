------------------------------ MODULE Database ------------------------------
(***************************************************************************)
(* The state of a polarysdb database and everything that reads or writes   *)
(* it: the worker that applies write operations (database.go,              *)
(* processWriteBuffer), the savers that go through flushToDisk, Flush      *)
(* (flush.go), the reload of fileOnChange, Import, transactions            *)
(* (CommitTransaction and modules/tx), Close, crash, and the recovery of   *)
(* InitWithConfig: load the snapshot, then replay the log.                 *)
(*                                                                         *)
(* How an operation reaches the worker is the subject of WritePipeline,    *)
(* how an entry reaches the disk that of WAL; here the log is an           *)
(* AbstractLog: walFile is durable, walBuf is accepted but volatile.       *)
(* storage.Save replaces the snapshot atomically (write, fsync, rename).   *)
(***************************************************************************)
EXTENDS Integers, Sequences, FiniteSets, SequencesExt

CONSTANTS
  Tables, Keys, Vals,  \* names and values callers use
  Ops,                 \* the write operations they submit
  Imports,             \* the contents of the files they import, and of state
                       \* files that other processes write
  Txs, TxChanges,      \* transactions, and what one may write
  MaxOps,              \* bound on the operations submitted and those files
  QueueCap,            \* bound on the operations queued (Config.BufferSize)
  MaxReopens,          \* bound on the number of restarts
  WALEnabled,          \* Config.EnableWAL
  Features,            \* what the environment and the timers do, see below
  NoTable, Absent, Nil, NoKey, NoFile

\* "save": SaveInterval elapses; "watch": WatchInterval elapses;
\* "rotate": the log outgrows MaxSize; "appendFails": wal.Append times out;
\* "diskFails": Save, Load or verifyFlush fails;
\* "ctxWins": a select prefers the cancelled context to a queued item;
\* "foreign": another process saves to the state file.
AllFeatures == {"save", "watch", "flush", "import", "tx", "close", "crash",
                "rotate", "appendFails", "diskFails", "ctxWins", "foreign"}

\* A record is absent, a value, or (after a rollback) a present nil.
AllKeys == Keys \cup {NoKey}
Table == [AllKeys -> Vals \cup {Absent, Nil}]
Data == [Tables -> Table \cup {NoTable}]
EmptyTable == [k \in AllKeys |-> Absent]
EmptyData == [t \in Tables |-> NoTable]

\* Where a record may be.
Places == Tables \X AllKeys

Operation ==
  [type : {"create"}, table : Tables]
    \cup [type : {"write"}, table : Tables, key : Keys, val : Vals]
    \cup [type : {"delete"}, table : Tables, key : Keys]
    \cup [type : {"batch"}, table : Tables,
          records : UNION {[K -> Vals] : K \in SUBSET Keys}]

\* Delete in a transaction stores a nil change.
Changes == UNION {[P -> Vals \cup {Nil}] : P \in SUBSET (Tables \X Keys)}

ASSUME DatabaseAssumption ==
  /\ Ops \subseteq Operation
  /\ \A op \in Ops : op.type = "batch" => IsFiniteSet(DOMAIN op.records)
  /\ Imports \subseteq Data
  /\ TxChanges \subseteq Changes
  /\ MaxOps \in Nat /\ QueueCap \in Nat \ {0} /\ MaxReopens \in Nat
  /\ WALEnabled \in BOOLEAN
  /\ Features \subseteq AllFeatures
  /\ NoTable \notin Table /\ NoFile \notin Data

VARIABLES
  data,          \* db.data
  version,       \* db.version
  dirtyFlag,     \* db.dirtyFlag
  dataMutex,     \* holder in write mode across steps: "worker", "flush", "free"
  writeBuffer,   \* operations queued
  batch,         \* what is left of the batch being applied
  successCount,  \* the counter of processBatch
  oks,           \* history: operations of the batch answered without error
  submitted,     \* operations submitted so far
  walBuf,        \* log entries accepted by wal.Append, not yet durable
  walFile,       \* log entries in the file
  walStopped,    \* batchWriter has returned on the cancelled context
  unlogged,      \* history: the places changed since the start, in memory or in
                 \* the file, other than by an entry that is in the log
  snapshot,      \* the state file
  fresh,         \* lastLoaded equals the mtime of the state file
  foreign,       \* history: another process has written the state file
  saver,         \* where each flushToDisk in progress is
  watcher,       \* where fileOnChange is
  fpc,           \* where Flush is
  tpc, tver, tsnap, \* transactions: status, SnapshotVersion, Snapshot
  closed, ctxDone, \* db.closed; db.ctx is cancelled
  exited,        \* worker goroutines that have returned
  cpc,           \* where CloseWithTimeout is
  phase,         \* "up", "closed" after a clean Close, "crashed"
  reopens,       \* restarts so far
  promised       \* history: the state that the answers given so far announce

dataVars  == <<data, version, dirtyFlag, dataMutex>>
queueVars == <<writeBuffer, submitted>>
batchVars == <<batch, successCount, oks>>
walVars   == <<walBuf, walFile, walStopped, unlogged>>
diskVars  == <<snapshot, fresh, foreign>>
txVars    == <<tpc, tver, tsnap>>
closeVars == <<closed, ctxDone, exited, cpc>>
lifeVars  == <<phase, reopens>>
vars == <<dataVars, queueVars, batchVars, walVars, diskVars, saver, watcher,
          fpc, txVars, closeVars, lifeVars, promised>>

Savers  == {"periodic", "import", "closer"}
Workers == {"writer", "periodic", "watcher"}

Entry ==
  [type : {"create"}, table : Tables]
    \cup [type : {"write"}, table : Tables, key : Keys, val : Vals]
    \cup [type : {"delete"}, table : Tables, key : Keys]

\* Type invariant.
TypeOK ==
  /\ data \in Data /\ promised \in Data /\ snapshot \in Data \cup {NoFile}
  /\ version \in Nat /\ submitted \in 0 .. MaxOps /\ reopens \in 0 .. MaxReopens
  /\ writeBuffer \in Seq(Ops) /\ batch \in Seq(Ops)
  /\ walBuf \in Seq(Entry) /\ walFile \in Seq(Entry) /\ unlogged \subseteq Places
  /\ successCount \in Nat /\ oks \in 0 .. successCount
  /\ {dirtyFlag, walStopped, fresh, closed, ctxDone, foreign} \subseteq BOOLEAN
  /\ dataMutex \in {"free", "worker", "flush"}
  /\ saver \in [Savers -> {"idle", "due", "saved"}]
  /\ watcher \in {"idle", "seen"} /\ fpc \in {"idle", "polled", "saved"}
  /\ tpc \in [Txs -> {"none", "active", "committing", "finished"}]
  /\ tver \in [Txs -> Nat] /\ tsnap \in [Txs -> Data]
  /\ exited \subseteq Workers
  /\ cpc \in {"open", "marked", "waiting", "saving", "closingWAL"}
  /\ phase \in {"up", "closed", "crashed"}

Init ==
  /\ data = EmptyData /\ promised = EmptyData /\ snapshot = NoFile
  /\ version = 0 /\ dirtyFlag = FALSE /\ dataMutex = "free"
  /\ writeBuffer = <<>> /\ batch = <<>> /\ successCount = 0 /\ oks = 0
  /\ submitted = 0 /\ reopens = 0
  /\ walBuf = <<>> /\ walFile = <<>> /\ walStopped = FALSE /\ unlogged = {}
  /\ fresh = FALSE
  /\ saver = [s \in Savers |-> "idle"] /\ watcher = "idle" /\ fpc = "idle"
  /\ tpc = [t \in Txs |-> "none"] /\ tver = [t \in Txs |-> 0]
  /\ tsnap = [t \in Txs |-> EmptyData]
  /\ closed = FALSE /\ ctxDone = FALSE /\ exited = {} /\ cpc = "open"
  /\ phase = "up" /\ foreign = FALSE

-----------------------------------------------------------------------------
(***************************************************************************)
(* What operations and log entries do to a state.                          *)
(***************************************************************************)

HasTable(d, t) == d[t] # NoTable
\* What a restart would load.
OnDisk == IF snapshot = NoFile THEN EmptyData ELSE snapshot

Put(d, t, k, v) == [d EXCEPT ![t] = [@ EXCEPT ![k] = v]]
PutAll(d, t, recs) ==
  [d EXCEPT ![t] = [k \in AllKeys |-> IF k \in DOMAIN recs THEN recs[k] ELSE @[k]]]
Ensure(d, t) == IF HasTable(d, t) THEN d ELSE [d EXCEPT ![t] = EmptyTable]

\* What a Read finds at a place.
Look(d, p) == IF HasTable(d, p[1]) THEN d[p[1]][p[2]] ELSE Absent

\* Where two states differ; the place with NoKey stands for the table itself.
Differing(d, e) ==
  {p \in Places : Look(d, p) # Look(e, p)}
    \cup {<<t, NoKey>> : t \in {u \in Tables : HasTable(d, u) # HasTable(e, u)}}

\* The places that the entries of a log are about.
PlaceOf(entry) == <<entry.table, IF entry.type = "create" THEN NoKey ELSE entry.key>>
Touched(entries) == {PlaceOf(entries[i]) : i \in DOMAIN entries}

\* applyWALEntry.
Replay1(d, e) ==
  CASE e.type = "create" -> Ensure(d, e.table)
    [] e.type = "write"  -> Put(Ensure(d, e.table), e.table, e.key, e.val)
    [] e.type = "delete" -> IF HasTable(d, e.table)
                              THEN Put(d, e.table, e.key, Absent) ELSE d

\* recoverFromWAL: the entries one after the other.
Replay(d, entries) ==
  LET after[n \in 0 .. Len(entries)] ==
        IF n = 0 THEN d ELSE Replay1(after[n - 1], entries[n])
  IN  after[Len(entries)]

\* The state a successful operation announces to its caller.
Announced(d, op) ==
  CASE op.type = "create" -> Ensure(d, op.table)
    [] op.type = "write"  -> Put(Ensure(d, op.table), op.table, op.key, op.val)
    [] op.type = "delete" -> Put(Ensure(d, op.table), op.table, op.key, Absent)
    [] op.type = "batch"  -> PutAll(Ensure(d, op.table), op.table, op.records)

\* A rollback stores what reading the map gave, nil where nothing was.
OldVal(t, k) == IF data[t][k] = Absent THEN Nil ELSE data[t][k]

-----------------------------------------------------------------------------
(***************************************************************************)
(* The worker.  TakeBatch is Lock() in processBatch, EndBatch its end.     *)
(***************************************************************************)

Submit(op) ==
  /\ ~closed /\ submitted < MaxOps /\ Len(writeBuffer) < QueueCap
  /\ writeBuffer' = Append(writeBuffer, op) /\ submitted' = submitted + 1
  /\ UNCHANGED <<dataVars, batchVars, walVars, diskVars, saver, watcher, fpc,
                 txVars, closeVars, lifeVars, promised>>

TakeBatch ==
  /\ "writer" \notin exited /\ dataMutex = "free"
  /\ \E n \in 1 .. Len(writeBuffer) :
       /\ batch' = SubSeq(writeBuffer, 1, n)
       /\ writeBuffer' = SubSeq(writeBuffer, n + 1, Len(writeBuffer))
  /\ dataMutex' = "worker" /\ successCount' = 0 /\ oks' = 0
  /\ UNCHANGED <<data, version, dirtyFlag, submitted, walVars, diskVars, saver,
                 watcher, fpc, txVars, closeVars, lifeVars, promised>>

\* pendingOps.Add(-1) and the answer on ResultCh.
Answer(ok) ==
  /\ batch' = Tail(batch)
  /\ oks' = IF ok THEN oks + 1 ELSE oks
  /\ promised' = IF ok THEN Announced(promised, Head(batch)) ELSE promised
  /\ UNCHANGED <<version, dirtyFlag, dataMutex, queueVars, walFile, walStopped,
                 diskVars, saver, watcher, fpc, txVars, closeVars, lifeVars>>

Next1(type) == dataMutex = "worker" /\ batch # <<>> /\ Head(batch).type = type

AppendOutcomes == IF WALEnabled /\ "appendFails" \in Features THEN BOOLEAN ELSE {FALSE}

\* wal.Append of these entries, if the log is on, where it fails for some places.
Logged(entries, failed) ==
  /\ walBuf' = IF WALEnabled THEN walBuf \o entries ELSE walBuf
  /\ unlogged' = unlogged \cup failed

\* The entry is appended even when the table exists, the operation counts as
\* a success either way, and the error of Append is assigned to a shadow.
ApplyCreate ==
  /\ Next1("create")
  /\ LET t == Head(batch).table IN
     \E fails \in AppendOutcomes :
       /\ data' = IF fails THEN [data EXCEPT ![t] = NoTable] ELSE Ensure(data, t)
       /\ IF fails THEN Logged(<<>>, {t} \X AllKeys)
                  ELSE Logged(<<[type |-> "create", table |-> t]>>, {})
       /\ Answer(~HasTable(data, t))
  /\ successCount' = successCount + 1

NoTableError ==
  /\ dataMutex = "worker" /\ batch # <<>> /\ Head(batch).type # "create"
  /\ ~HasTable(data, Head(batch).table)
  /\ Answer(FALSE)
  /\ UNCHANGED <<data, walBuf, unlogged, successCount>>

ApplyWrite ==
  /\ Next1("write") /\ HasTable(data, Head(batch).table)
  /\ LET op == Head(batch) IN
     \E fails \in AppendOutcomes :
       /\ data' = Put(data, op.table, op.key,
                      IF fails THEN OldVal(op.table, op.key) ELSE op.val)
       /\ IF fails THEN Logged(<<>>, {<<op.table, op.key>>}) ELSE Logged(<<op>>, {})
       /\ Answer(TRUE)
  /\ successCount' = successCount + 1

\* Mutant: a delete is not logged.
ApplyDeleteUnlogged ==
  /\ Next1("delete") /\ HasTable(data, Head(batch).table)
  /\ data' = Put(data, Head(batch).table, Head(batch).key, Absent)
  /\ Answer(TRUE)
  /\ successCount' = successCount + 1
  /\ UNCHANGED <<walBuf, unlogged>>

ApplyDelete ==
  /\ Next1("delete") /\ HasTable(data, Head(batch).table)
  /\ LET op == Head(batch) IN
     \E fails \in AppendOutcomes :
       /\ data' = Put(data, op.table, op.key,
                      IF fails THEN OldVal(op.table, op.key) ELSE Absent)
       /\ IF fails THEN Logged(<<>>, {<<op.table, op.key>>}) ELSE Logged(<<op>>, {})
       /\ Answer(TRUE)
  /\ successCount' = successCount + 1

\* The records are logged one by one in the order of Go's map iteration, where
\* some fail: order is that of the others, last the one that fails last.  The
\* rollback of a record writes to op.Key, which is empty for a batch, so the
\* record itself stays.
ApplyRecords ==
  /\ Next1("batch") /\ HasTable(data, Head(batch).table)
  /\ LET op == Head(batch)
         all == PutAll(data, op.table, op.records)
         entry(k) == [type |-> "write", table |-> op.table, key |-> k, val |-> op.records[k]]
     IN
     \E failed \in SUBSET DOMAIN op.records :
     \E order \in SetToSeqs(DOMAIN op.records \ failed) :
       /\ failed # {} => TRUE \in AppendOutcomes
       /\ IF failed = {} THEN data' = all
          ELSE \E last \in failed : data' = Put(all, op.table, NoKey, OldVal(op.table, last))
       /\ Logged([i \in 1 .. Len(order) |-> entry(order[i])],
                 {op.table} \X (IF failed = {} THEN {} ELSE failed \cup {NoKey}))
       /\ Answer(TRUE)
  /\ successCount' = successCount + 1

\* Mutant: a batch leaves the version as it was.
EndBatchSameVersion ==
  /\ dataMutex = "worker" /\ batch = <<>>
  /\ dirtyFlag' = (dirtyFlag \/ successCount > 0)
  /\ dataMutex' = "free"
  /\ UNCHANGED <<data, version, queueVars, batchVars, walVars, diskVars, saver,
                 watcher, fpc, txVars, closeVars, lifeVars, promised>>

\* Mutant: a batch takes a version and leaves the dirty mark as it was.
EndBatchUnmarked ==
  /\ dataMutex = "worker" /\ batch = <<>>
  /\ version' = IF successCount > 0 THEN version + 1 ELSE version
  /\ dataMutex' = "free"
  /\ UNCHANGED <<data, dirtyFlag, queueVars, batchVars, walVars, diskVars, saver,
                 watcher, fpc, txVars, closeVars, lifeVars, promised>>

EndBatch ==
  /\ dataMutex = "worker" /\ batch = <<>>
  /\ version' = IF successCount > 0 THEN version + 1 ELSE version
  /\ dirtyFlag' = (dirtyFlag \/ successCount > 0)
  /\ dataMutex' = "free"
  /\ UNCHANGED <<data, queueVars, batchVars, walVars, diskVars, saver, watcher,
                 fpc, txVars, closeVars, lifeVars, promised>>

\* The channel is drained, or the cancelled context wins the select.
WriterExit ==
  /\ "writer" \notin exited /\ closed /\ dataMutex # "worker"
  /\ writeBuffer = <<>> \/ (ctxDone /\ "ctxWins" \in Features)
  /\ exited' = exited \cup {"writer"}
  /\ UNCHANGED <<dataVars, queueVars, batchVars, walVars, diskVars, saver, watcher,
                 fpc, txVars, closed, ctxDone, cpc, lifeVars, promised>>

Worker ==
  \/ TakeBatch \/ ApplyCreate \/ NoTableError \/ ApplyWrite \/ ApplyDelete
  \/ ApplyRecords \/ EndBatch \/ WriterExit

-----------------------------------------------------------------------------
(***************************************************************************)
(* The log, as AbstractLog describes it.                                   *)
(***************************************************************************)

logFrame == <<dataVars, queueVars, batchVars, diskVars, saver, watcher, fpc,
              txVars, closeVars, lifeVars, promised>>

Persisted(n) ==
  /\ walFile' = walFile \o SubSeq(walBuf, 1, n)
  /\ walBuf' = SubSeq(walBuf, n + 1, Len(walBuf))

LogPersist ==
  /\ ~walStopped
  /\ \E n \in 1 .. Len(walBuf) : Persisted(n)
  /\ UNCHANGED <<walStopped, unlogged, logFrame>>

\* batchWriter leaves on the cancelled context; what it has taken from the
\* channel it still writes, what is queued then or later stays behind.
LogStop ==
  /\ WALEnabled /\ ctxDone /\ ~walStopped /\ "ctxWins" \in Features
  /\ \E n \in 0 .. Len(walBuf) : Persisted(n)
  /\ walStopped' = TRUE
  /\ UNCHANGED <<unlogged, logFrame>>

\* rotate moves the file to a backup that no restart reads, whether or not
\* the state file has what it says; what batchWriter still holds goes along.
LogRotate ==
  /\ WALEnabled /\ "rotate" \in Features /\ walFile # <<>>
  /\ \E n \in 0 .. (IF walStopped THEN 0 ELSE Len(walBuf)) :
       /\ unlogged' = unlogged \cup Touched(walFile \o SubSeq(walBuf, 1, n))
       /\ walBuf' = SubSeq(walBuf, n + 1, Len(walBuf))
  /\ walFile' = <<>>
  /\ UNCHANGED <<walStopped, logFrame>>

-----------------------------------------------------------------------------
(***************************************************************************)
(* flushToDisk: Save under RLock, then the CompareAndSwap on dirtyFlag     *)
(* without it.  It runs in periodicSave, in Import and in Close.           *)
(***************************************************************************)

saveFrame == <<data, version, dataMutex, queueVars, batchVars, walVars, watcher,
               fpc, txVars, closed, ctxDone, lifeVars, promised>>

PeriodicDue ==
  /\ "save" \in Features /\ "periodic" \notin exited
  /\ saver["periodic"] = "idle" /\ dirtyFlag
  /\ saver' = [saver EXCEPT !["periodic"] = "due"]
  /\ UNCHANGED <<dirtyFlag, diskVars, exited, cpc, saveFrame>>

\* On ctx.Done(): one more save if dirty, then return.
PeriodicLast ==
  /\ "periodic" \notin exited /\ ctxDone /\ saver["periodic"] = "idle"
  /\ saver' = IF dirtyFlag THEN [saver EXCEPT !["periodic"] = "due"] ELSE saver
  /\ exited' = exited \cup {"periodic"}
  /\ UNCHANGED <<dirtyFlag, diskVars, cpc, saveFrame>>

Save(s) ==
  /\ saver[s] = "due" /\ dataMutex = "free"
  /\ snapshot' = data /\ fresh' = FALSE /\ foreign' = FALSE
  /\ saver' = [saver EXCEPT ![s] = "saved"]
  /\ UNCHANGED <<dirtyFlag, exited, cpc, saveFrame>>

SaveError(s) ==
  /\ "diskFails" \in Features /\ saver[s] = "due" /\ dataMutex = "free"
  /\ saver' = [saver EXCEPT ![s] = "idle"]
  /\ UNCHANGED <<dirtyFlag, diskVars, exited, cpc, saveFrame>>

ClearDirty(s) ==
  /\ saver[s] = "saved"
  /\ dirtyFlag' = FALSE
  /\ saver' = [saver EXCEPT ![s] = "idle"]
  /\ UNCHANGED <<diskVars, exited, cpc, saveFrame>>

FlushToDisk ==
  \/ PeriodicDue \/ PeriodicLast
  \/ \E s \in Savers : Save(s) \/ SaveError(s) \/ ClearDirty(s)

-----------------------------------------------------------------------------
(***************************************************************************)
(* fileOnChange.                                                           *)
(***************************************************************************)

watchFrame == <<version, dirtyFlag, dataMutex, queueVars, batchVars, walBuf,
                walFile, walStopped, saver, fpc, txVars, closed, ctxDone, cpc,
                lifeVars, promised>>

\* The file's mtime differs from lastLoaded.
WatchSee ==
  /\ "watch" \in Features /\ "watcher" \notin exited /\ ~closed
  /\ watcher = "idle" /\ snapshot # NoFile /\ ~fresh
  /\ watcher' = "seen"
  /\ UNCHANGED <<data, unlogged, diskVars, exited, watchFrame>>

\* The re-check under dataMutex; a load that fails changes nothing either.
WatchSkip ==
  /\ watcher = "seen" /\ dataMutex = "free"
  /\ dirtyFlag \/ writeBuffer # <<>> \/ "diskFails" \in Features
  /\ watcher' = "idle"
  /\ UNCHANGED <<data, unlogged, diskVars, exited, watchFrame>>

\* Mutant: dirtyFlag and pendingOps are not checked again under the lock.
WatchReloadUnchecked ==
  /\ watcher = "seen" /\ dataMutex = "free"
  /\ data' = snapshot /\ unlogged' = unlogged \cup Differing(data, snapshot)
  /\ fresh' = TRUE /\ foreign' = FALSE
  /\ watcher' = "idle"
  /\ UNCHANGED <<snapshot, exited, watchFrame>>

WatchReload ==
  /\ watcher = "seen" /\ dataMutex = "free"
  /\ ~dirtyFlag /\ writeBuffer = <<>>
  /\ data' = snapshot /\ unlogged' = unlogged \cup Differing(data, snapshot)
  /\ fresh' = TRUE /\ foreign' = FALSE
  /\ watcher' = "idle"
  /\ UNCHANGED <<snapshot, exited, watchFrame>>

WatcherExit ==
  /\ "watcher" \notin exited /\ watcher = "idle" /\ closed
  /\ exited' = exited \cup {"watcher"}
  /\ UNCHANGED <<data, unlogged, diskVars, watcher, watchFrame>>

\* Another process, with the same key, saves to the file: what fileOnChange is
\* there for.
ForeignSave(d) ==
  /\ "foreign" \in Features /\ submitted < MaxOps /\ submitted' = submitted + 1
  /\ snapshot' = d /\ fresh' = FALSE /\ foreign' = TRUE
  /\ unlogged' = unlogged \cup Differing(OnDisk, d)
  /\ UNCHANGED <<dataVars, writeBuffer, batchVars, walBuf, walFile, walStopped, saver,
                 watcher, fpc, txVars, closeVars, lifeVars, promised>>

Watcher == WatchSee \/ WatchSkip \/ WatchReload \/ WatcherExit

-----------------------------------------------------------------------------
(***************************************************************************)
(* Flush and Import.                                                       *)
(***************************************************************************)

flushFrame == <<data, version, queueVars, batchVars, walStopped, unlogged, saver, watcher,
                txVars, closeVars, lifeVars, promised>>
flushNoLog == <<walBuf, walFile, flushFrame>>

\* waitForPendingOps has seen the counter at zero.
FlushPoll ==
  /\ "flush" \in Features /\ fpc = "idle" /\ ~closed
  /\ writeBuffer = <<>> /\ batch = <<>>
  /\ fpc' = "polled"
  /\ UNCHANGED <<dirtyFlag, dataMutex, diskVars, flushNoLog>>

FlushRefused ==
  /\ fpc = "polled" /\ dataMutex = "free"
  /\ closed \/ (dirtyFlag /\ "diskFails" \in Features)
  /\ fpc' = "idle"
  /\ UNCHANGED <<dirtyFlag, dataMutex, diskVars, flushNoLog>>

FlushNothing ==
  /\ fpc = "polled" /\ dataMutex = "free" /\ ~closed /\ ~dirtyFlag
  /\ fpc' = "idle"
  /\ UNCHANGED <<dirtyFlag, dataMutex, diskVars, flushNoLog>>

\* The file is written but verifyFlush fails: still dirty, Flush returns an error.
FlushUnverified ==
  /\ "diskFails" \in Features
  /\ fpc = "polled" /\ dataMutex = "free" /\ ~closed /\ dirtyFlag
  /\ snapshot' = data /\ fresh' = FALSE /\ foreign' = FALSE /\ fpc' = "idle"
  /\ UNCHANGED <<dirtyFlag, dataMutex, flushNoLog>>

\* Save, reload and compare; verifyFlush sets lastLoaded.
FlushSave ==
  /\ fpc = "polled" /\ dataMutex = "free" /\ ~closed /\ dirtyFlag
  /\ dataMutex' = "flush" /\ fpc' = "saved"
  /\ snapshot' = data /\ fresh' = TRUE /\ foreign' = FALSE
  /\ UNCHANGED <<dirtyFlag, flushNoLog>>

\* wal.Sync, which may leave entries behind (WAL, SyncGuarantee) and whose
\* error is ignored; then the mark is cleared and the mutex released.
FlushEnd ==
  /\ fpc = "saved"
  /\ \E n \in 0 .. (IF walStopped THEN 0 ELSE Len(walBuf)) : Persisted(n)
  /\ dirtyFlag' = FALSE /\ dataMutex' = "free"
  /\ fpc' = "idle"
  /\ UNCHANGED <<diskVars, flushFrame>>

Flush ==
  \/ FlushPoll \/ FlushRefused \/ FlushNothing \/ FlushUnverified
  \/ FlushSave \/ FlushEnd

\* Import and ImportEncrypted up to their call of flushToDisk.
Import(d) ==
  /\ "import" \in Features /\ ~closed /\ dataMutex = "free" /\ saver["import"] = "idle"
  /\ submitted < MaxOps /\ submitted' = submitted + 1
  /\ data' = d /\ dirtyFlag' = TRUE
  /\ saver' = [saver EXCEPT !["import"] = "due"]
  /\ promised' = d /\ unlogged' = unlogged \cup Differing(data, d)
  /\ UNCHANGED <<version, dataMutex, writeBuffer, batchVars, walBuf, walFile, walStopped,
                 diskVars, watcher, fpc, txVars, closeVars, lifeVars>>

-----------------------------------------------------------------------------
(***************************************************************************)
(* Transactions.                                                           *)
(***************************************************************************)

txFrame == <<dataMutex, queueVars, batchVars, walBuf, walFile, walStopped, diskVars, saver, watcher,
             fpc, closeVars, lifeVars>>

\* The snapshot and the version are read under one RLock.
BeginTransaction(t) ==
  /\ "tx" \in Features /\ ~closed /\ tpc[t] = "none" /\ dataMutex = "free"
  /\ tpc' = [tpc EXCEPT ![t] = "active"]
  /\ tver' = [tver EXCEPT ![t] = version]
  /\ tsnap' = [tsnap EXCEPT ![t] = data]
  /\ UNCHANGED <<data, version, dirtyFlag, promised, unlogged, txFrame>>

Rollback(t) ==
  /\ tpc[t] = "active"
  /\ tpc' = [tpc EXCEPT ![t] = "finished"]
  /\ UNCHANGED <<data, version, dirtyFlag, tver, tsnap, promised, unlogged, txFrame>>

\* txManager.Commit: the transaction is final before its version is checked.
CommitFinalize(t) ==
  /\ tpc[t] = "active"
  /\ tpc' = [tpc EXCEPT ![t] = "committing"]
  /\ UNCHANGED <<data, version, dirtyFlag, tver, tsnap, promised, unlogged, txFrame>>

CommitConflict(t) ==
  /\ tpc[t] = "committing" /\ dataMutex = "free" /\ version # tver[t]
  /\ tpc' = [tpc EXCEPT ![t] = "finished"]
  /\ UNCHANGED <<data, version, dirtyFlag, tver, tsnap, promised, unlogged, txFrame>>

\* The tables of the changes are created, a nil change deletes its key.
Committed(d, changes) ==
  [t \in Tables |->
     IF \E p \in DOMAIN changes : p[1] = t
       THEN [k \in AllKeys |->
               IF <<t, k>> \notin DOMAIN changes THEN Ensure(d, t)[t][k]
               ELSE IF changes[<<t, k>>] = Nil THEN Absent ELSE changes[<<t, k>>]]
       ELSE d[t]]

\* A commit writes no log entry, not even for a table that it creates.
UnloggedBy(changes) ==
  UNION {{p[1]} \X (IF HasTable(data, p[1]) THEN {p[2]} ELSE AllKeys) : p \in DOMAIN changes}

\* Neither an index nor the log hears of it.
CommitApply(t) ==
  /\ tpc[t] = "committing" /\ dataMutex = "free" /\ version = tver[t]
  /\ \E changes \in TxChanges :
       /\ data' = Committed(data, changes)
       /\ promised' = Committed(promised, changes)
       /\ unlogged' = unlogged \cup UnloggedBy(changes)
  /\ version' = version + 1 /\ dirtyFlag' = TRUE
  /\ tpc' = [tpc EXCEPT ![t] = "finished"]
  /\ UNCHANGED <<tver, tsnap, txFrame>>

Transaction(t) ==
  \/ BeginTransaction(t) \/ Rollback(t) \/ CommitFinalize(t)
  \/ CommitConflict(t) \/ CommitApply(t)

-----------------------------------------------------------------------------
(***************************************************************************)
(* CloseWithTimeout, crash, and the next InitWithConfig.                   *)
(***************************************************************************)

closeFrame == <<dataVars, queueVars, batchVars, diskVars, watcher, fpc, txVars,
                exited, reopens, promised>>

CloseMark ==
  /\ "close" \in Features /\ cpc = "open"
  /\ closed' = TRUE /\ cpc' = "marked"
  /\ UNCHANGED <<ctxDone, saver, walVars, phase, closeFrame>>

CloseCancel ==
  /\ cpc = "marked"
  /\ ctxDone' = TRUE /\ cpc' = "waiting"
  /\ UNCHANGED <<closed, saver, walVars, phase, closeFrame>>

\* wg.Wait() has returned.
CloseSave ==
  /\ cpc = "waiting" /\ exited = Workers /\ saver["periodic"] = "idle"
  /\ IF dirtyFlag THEN /\ saver' = [saver EXCEPT !["closer"] = "due"]
                       /\ cpc' = "saving"
                  ELSE cpc' = "closingWAL" /\ UNCHANGED saver
  /\ UNCHANGED <<closed, ctxDone, walVars, phase, closeFrame>>

CloseSaved ==
  /\ cpc = "saving" /\ saver["closer"] = "idle"
  /\ cpc' = "closingWAL"
  /\ UNCHANGED <<closed, ctxDone, saver, walVars, phase, closeFrame>>

\* Mutant: what the last drain of the log takes is not flushed.
CloseWALUndrained ==
  /\ cpc = "closingWAL"
  /\ walBuf' = IF walStopped THEN walBuf ELSE <<>>
  /\ phase' = "closed"
  /\ UNCHANGED <<walFile, walStopped, unlogged, saver, closed, ctxDone, cpc, closeFrame>>

\* wal.Close drains the channel only through a batchWriter still alive; what it
\* does not, stays in walBuf, and is gone with the process.
CloseWAL ==
  /\ cpc = "closingWAL"
  /\ IF walStopped THEN UNCHANGED <<walFile, walBuf>>
                   ELSE walFile' = walFile \o walBuf /\ walBuf' = <<>>
  /\ phase' = "closed"
  /\ UNCHANGED <<walStopped, unlogged, saver, closed, ctxDone, cpc, closeFrame>>

Close == CloseMark \/ CloseCancel \/ CloseSave \/ CloseSaved \/ CloseWAL

Crash ==
  /\ "crash" \in Features
  /\ phase' = "crashed"
  /\ UNCHANGED <<walVars, saver, closed, ctxDone, cpc, closeFrame>>

\* load, then recoverFromWAL; every volatile variable starts anew.
Reopen ==
  /\ phase # "up" /\ reopens < MaxReopens
  /\ reopens' = reopens + 1 /\ phase' = "up"
  /\ data' = IF WALEnabled THEN Replay(OnDisk, walFile) ELSE OnDisk
  /\ promised' = data'
  /\ fresh' = (snapshot # NoFile)
  /\ version' = 0 /\ dirtyFlag' = FALSE /\ dataMutex' = "free"
  /\ writeBuffer' = <<>> /\ batch' = <<>> /\ successCount' = 0 /\ oks' = 0
  /\ walBuf' = <<>> /\ walStopped' = FALSE /\ unlogged' = {}
  /\ saver' = [s \in Savers |-> "idle"] /\ watcher' = "idle" /\ fpc' = "idle"
  /\ tpc' = [t \in Txs |-> "none"] /\ tver' = [t \in Txs |-> 0]
  /\ tsnap' = [t \in Txs |-> EmptyData]
  /\ closed' = FALSE /\ ctxDone' = FALSE /\ exited' = {} /\ cpc' = "open"
  /\ foreign' = FALSE
  /\ UNCHANGED <<submitted, walFile, snapshot>>

Next ==
  \/ /\ phase = "up"
     /\ \/ \E op \in Ops : Submit(op)
        \/ Worker \/ LogPersist \/ LogStop \/ LogRotate \/ FlushToDisk \/ Watcher \/ Flush
        \/ \E d \in Imports : Import(d) \/ ForeignSave(d)
        \/ \E t \in Txs : Transaction(t)
        \/ Close \/ Crash
  \/ Reopen

Spec == Init /\ [][Next]_vars

-----------------------------------------------------------------------------
(***************************************************************************)
(* Properties.                                                             *)
(***************************************************************************)

\* Two states agree, but for these places.
AgreeBut(d, e, places) ==
  /\ \A p \in Places \ places : Look(d, p) = Look(e, p)
  /\ \A t \in Tables : ({t} \X AllKeys) \cap places = {} => d[t] = e[t]

\* The log repairs any snapshot: whatever periodicSave, Flush, failing saves,
\* other processes, crashes and restarts made of the state file, replaying the
\* log over it gives the state in memory.  What an Append that fails, a commit,
\* an import, a reload or a rotation keeps out of the log stays confined to the
\* places it changed: a rollback in the middle of a batch disturbs no other
\* record, a rotation none whose entries it does not take away.
LogRepairs ==
  phase = "up" => AgreeBut(Replay(OnDisk, walFile \o walBuf), data, unlogged)

\* A restart, after a Close or a crash at any step, finds every answered write
\* that was logged, in the state file or in the log, but for those whose entries
\* had not reached the file: also when the last periodic save has cleared a dirty
\* mark too many, and when Close, with the log's batchWriter gone on the cancelled
\* context, has left entries in the channel.
RestartKeepsAnswers ==
  [][phase # "up" /\ phase' = "up"
       => AgreeBut(data', promised, unlogged \cup Touched(walBuf))]_vars

\* The batch being applied has changed something; its end marks it and gives it
\* a version.
InBatch == dataMutex = "worker" /\ successCount > 0

\* Memory is ahead of the state file and the dirty mark does not say so: savers,
\* Flush and Close skip it, and the watcher may overwrite it.
Forgotten == phase = "up" /\ ~dirtyFlag /\ ~InBatch /\ ~foreign /\ OnDisk # data

\* dirtyFlag, which all early exits rely on: only two steps of all that change,
\* save or load data leave a change in memory unmarked.  The clear of flushToDisk,
\* outside the mutex, takes the mark of what was changed since its save, and a
\* restart does not mark what it has replayed.  Batches, commits, imports, the
\* reload and the clear in Flush never do.
OnlyClearsAndReplaysForget ==
  [][Forgotten' /\ ~Forgotten =>
       \/ \E s \in Savers : ClearDirty(s)
       \/ Reopen /\ WALEnabled /\ walFile # <<>>]_vars

\* fileOnChange takes a file that is older than memory, or another process's.
StaleReload == WatchReload /\ (Forgotten \/ foreign)

\* A caller that got its answer finds its write in memory until another replaces
\* it: only the rollback after an Append of the same record or table that failed,
\* and a reload while the mark is wrong or the file another's, take it away.  A
\* reload after the dirty mark or pendingOps has risen does not.
OnlyRollbacksAndReloadsLoseAnswers ==
  [][\A p \in Places :
       Look(data, p) = Look(promised, p) /\ Look(data', p) # Look(promised', p) =>
         \/ WALEnabled /\ dataMutex = "worker" /\ p \in unlogged'
         \/ StaleReload]_vars

\* An open transaction whose version is current but not its snapshot: its commit
\* would overwrite what it has not seen.
Outdated(t) ==
  /\ tpc[t] \in {"active", "committing"}
  /\ tver[t] = version /\ ~InBatch /\ tsnap[t] # data

\* Optimistic concurrency: of all that changes data next to a transaction, only
\* Import and a stale reload, which take no version, escape its check.
OnlyImportsAndReloadsOutdate ==
  [][\A t \in Txs : Outdated(t)' /\ ~Outdated(t) =>
       \/ \E d \in Imports : Import(d)
       \/ StaleReload]_vars

(***************************************************************************)
(* What documentation and comments claim, and the code does not keep.      *)
(***************************************************************************)

\* README.md, WAL durability: the log serializes operations "to guarantee
\* acknowledged writes survive crashes": what it holds restores all of memory.
LogIsWhole == phase = "up" => Replay(OnDisk, walFile \o walBuf) = data

\* Without exceptions: an open transaction whose version is current has an
\* up-to-date snapshot.
TxSnapshotCurrent ==
  \A t \in Txs : dataMutex = "free" => ~Outdated(t)

\* Without exceptions: when the mark is down, the file holds what memory holds.
CleanMeansPersisted ==
  phase = "up" /\ dataMutex = "free" /\ ~dirtyFlag => OnDisk = data

\* flush.go: Flush "safely persists the ENTIRE state of the database".
FlushPersists == [][FlushNothing \/ FlushEnd => OnDisk' = data']_vars

\* The state after a restart is the one the answers announced.
DurableAnswers == [][phase # "up" /\ phase' = "up" => data' = promised]_vars

\* flush.go: "the data is already safe in the snapshot": when all of memory was
\* in the state file and marked clean, the next start finds it again.
ReopenKeepsSaved ==
  [][phase # "up" /\ phase' = "up" /\ OnDisk = data /\ ~dirtyFlag => data' = data]_vars

\* CHANGELOG.md: "Fixed version counter incrementing on failed operations".
VersionOnlyOnSuccess ==
  [][dataMutex = "worker" /\ version' # version => oks > 0]_vars

\* database.go, processBatch, after a failed Append: "fail la op para
\* garantizar durability": no success without a log entry.
OkMeansLogged == [][WALEnabled /\ oks' > oks => walBuf' # walBuf]_vars

=============================================================================
