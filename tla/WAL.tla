-------------------------------- MODULE WAL --------------------------------
(***************************************************************************)
(* The write-ahead log of polarysdb (modules/wal/wal.go, wal_sync.go).     *)
(* An entry travels                                                        *)
(*                                                                         *)
(*   Append -> buffer -> hand -> pendingBatch -> bufio -> file -> disk     *)
(*                                                                         *)
(* moved by the goroutines batchWriter, periodicSync and rotateWatcher and *)
(* by the calls Sync, Truncate and Close.  Code that runs under batchMutex *)
(* is one step; rotate, which may be cut by a crash between its flush and  *)
(* its rename, is two.  closeMutex is a variable: rotate and Truncate hold *)
(* it across several steps.                                                *)
(*                                                                         *)
(* An entry is its number in order of acceptance; what it says is the      *)
(* subject of module Database.  Sizes are counted in entries.  The 256KB   *)
(* bufio.Writer never fills by itself.                                     *)
(***************************************************************************)
EXTENDS Integers, Sequences, FiniteSets, SequencesExt

CONSTANTS
  MaxEntries,   \* bound on the number of accepted entries
  BufferCap,    \* capacity of the channel w.buffer (1000 in the code)
  BatchSize,    \* config.BatchSize (0 as polarysdb configures it)
  MaxSize,      \* config.MaxSize, in entries
  GroupCommit,  \* config.GroupCommit
  Bad,          \* entries whose value cannot be serialised or is too large
  Features      \* what the environment does, see below

AllFeatures == {"sync", "truncate", "closeBuffer", "cancel", "close",
                "drainTimeouts", "closeTimeout", "filesFail", "diskFails", "crash"}

ASSUME WALAssumption ==
  /\ MaxEntries \in Nat
  /\ BufferCap \in Nat \ {0}
  /\ BatchSize \in Nat /\ MaxSize \in Nat
  /\ GroupCommit \in BOOLEAN
  /\ Bad \subseteq 1 .. MaxEntries
  /\ Features \subseteq AllFeatures

VARIABLES
  accepted,      \* number of entries accepted by Append
  apc,           \* the appender: "idle", or "sending" past the closed check
  buffer,        \* the channel w.buffer
  bufferClosed,  \* close(w.buffer) has happened
  hand,          \* the entry batchWriter received and has not yet stored
  bpc, leaving,  \* where batchWriter is; it returns after this flush
  pendingBatch,  \* w.pendingBatch
  bufio,         \* entries in w.writer that Flush has not passed on
  writer,        \* "ok"; "stale": its file is closed or the disk gives errors;
                 \* "failed": the sticky error of a bufio.Writer
  file,          \* entries in the file at w.path, in the page cache at least
  synced,        \* how many of them fsync has put on disk
  retired,       \* history: entries that left w.path by rotation or Truncate
  lost,          \* history: accepted entries that will reach no file
  size,          \* w.size
  rotating,      \* the atomic flag w.rotating
  ppc,           \* where periodicSync is
  rpc,           \* where rotateWatcher is
  closeMutex,    \* holder of closeMutex across steps
  batchMutex,    \* holder of batchMutex across steps
  ctxDone,       \* w.ctx is cancelled
  closed,        \* w.closed
  kpc,           \* where Close is
  spc, target,   \* where Sync is; history: how many were accepted when it began
  tpc,           \* where Truncate is
  down           \* the process is gone: "crash", "panic", or "no"

appendVars == <<accepted, apc>>
chanVars   == <<buffer, bufferClosed>>
bwVars     == <<hand, bpc, leaving>>
fileVars   == <<pendingBatch, bufio, writer, file, synced, size, lost>>
syncVars   == <<spc, target>>
lifeVars   == <<ctxDone, closed, kpc>>
lockVars   == <<closeMutex, batchMutex>>
vars == <<appendVars, chanVars, bwVars, fileVars, retired, rotating, ppc, rpc,
          lockVars, lifeVars, syncVars, tpc, down>>

Entry == 1 .. MaxEntries

\* Type invariant.
TypeOK ==
  /\ accepted \in 0 .. MaxEntries /\ target \in 0 .. MaxEntries
  /\ buffer \in Seq(Entry) /\ hand \in Seq(Entry) /\ pendingBatch \in Seq(Entry)
  /\ bufio \in Seq(Entry) /\ file \in Seq(Entry) /\ retired \in Seq(Entry)
  /\ Len(buffer) <= BufferCap /\ Len(hand) <= 1
  /\ lost \subseteq Entry
  /\ synced \in 0 .. Len(file) /\ size \in Nat
  /\ bufferClosed \in BOOLEAN /\ leaving \in BOOLEAN /\ rotating \in BOOLEAN
  /\ ctxDone \in BOOLEAN /\ closed \in BOOLEAN
  /\ apc \in {"idle", "sending"}
  /\ bpc \in {"outer", "outerGot", "inner", "innerGot", "flush", "exited"}
  /\ writer \in {"ok", "stale", "failed"}
  /\ ppc \in {"idle", "checked", "sync", "lastSync", "exited"}
  /\ rpc \in {"idle", "locking", "swap", "lower", "exited"}
  /\ kpc \in {"open", "cancel", "wait", "final", "done"}
  /\ spc \in {"idle", "drain", "run", "runLate"}
  /\ tpc \in {"idle", "drain", "flush", "close", "remove", "swap"}
  /\ closeMutex \in {"free", "rotate", "truncate"}
  /\ batchMutex \in {"free", "rotate"}
  /\ down \in {"no", "crash", "panic"}

Init ==
  /\ accepted = 0 /\ apc = "idle"
  /\ buffer = <<>> /\ bufferClosed = FALSE
  /\ hand = <<>> /\ bpc = "outer" /\ leaving = FALSE
  /\ pendingBatch = <<>> /\ bufio = <<>> /\ writer = "ok"
  /\ file = <<>> /\ synced = 0 /\ size = 0 /\ lost = {} /\ retired = <<>>
  /\ rotating = FALSE
  /\ ppc = (IF GroupCommit THEN "exited" ELSE "idle")
  /\ rpc = "idle" /\ closeMutex = "free" /\ batchMutex = "free"
  /\ ctxDone = FALSE /\ closed = FALSE /\ kpc = "open"
  /\ spc = "idle" /\ target = 0
  /\ tpc = "idle" /\ down = "no"

-----------------------------------------------------------------------------
(***************************************************************************)
(* Append.  Its caller is the goroutine processWriteBuffer.                *)
(***************************************************************************)

\* A closed WAL makes Append return an error and changes nothing.
AppendCheck ==
  /\ apc = "idle" /\ closeMutex = "free" /\ ~closed /\ accepted < MaxEntries
  /\ apc' = "sending"
  /\ UNCHANGED <<accepted, chanVars, bwVars, fileVars, retired, rotating, ppc, rpc,
                 lockVars, lifeVars, syncVars, tpc, down>>

AppendSend ==
  /\ apc = "sending" /\ ~bufferClosed /\ Len(buffer) < BufferCap
  /\ accepted' = accepted + 1
  /\ buffer' = Append(buffer, accepted')
  /\ apc' = "idle"
  /\ UNCHANGED <<bufferClosed, bwVars, fileVars, retired, rotating, ppc, rpc,
                 lockVars, lifeVars, syncVars, tpc, down>>

\* time.After(5 * time.Second) while the channel stays full.
AppendTimeout ==
  /\ apc = "sending" /\ ~bufferClosed /\ Len(buffer) = BufferCap
  /\ apc' = "idle"
  /\ UNCHANGED <<accepted, chanVars, bwVars, fileVars, retired, rotating, ppc, rpc,
                 lockVars, lifeVars, syncVars, tpc, down>>

\* What is left when the process dies: the files.
Volatile(k) ==
  /\ buffer' = <<>> /\ hand' = <<>> /\ pendingBatch' = <<>> /\ bufio' = <<>>
  /\ file' = SubSeq(file, 1, k) /\ synced' = k
  /\ UNCHANGED <<appendVars, bufferClosed, bpc, leaving, writer, size, lost, retired,
                 rotating, ppc, rpc, lockVars, lifeVars, syncVars, tpc>>

\* A send on the closed channel panics; the page cache survives.
AppendPanic ==
  /\ apc = "sending" /\ bufferClosed
  /\ down' = "panic"
  /\ Volatile(Len(file))

-----------------------------------------------------------------------------
(***************************************************************************)
(* flushBatchLocked: write the batch to the bufio.Writer, then flush it.   *)
(***************************************************************************)

\* How many entries of the batch writeEntry takes before it fails.
Writable ==
  IF writer = "failed" THEN 0
  ELSE Cardinality({n \in 1 .. Len(pendingBatch) :
                      \A i \in 1 .. n : pendingBatch[i] \notin Bad})

\* flushBatchLocked returns nil.
FlushSucceeds ==
  pendingBatch = <<>> \/ (writer = "ok" /\ Writable = Len(pendingBatch))

\* Mutant: the error path of writeEntry leaves w.pendingBatch as it was.
FlushBatchRetry ==
  LET n == Writable IN
  /\ pendingBatch' = IF FlushSucceeds THEN <<>> ELSE pendingBatch
  /\ size' = size + n
  /\ rotating' = (rotating \/ (n > 0 /\ size' > MaxSize))
  /\ bufio' = IF FlushSucceeds THEN <<>> ELSE bufio \o SubSeq(pendingBatch, 1, n)
  /\ file' = IF FlushSucceeds THEN file \o bufio \o pendingBatch ELSE file
  /\ UNCHANGED <<synced, lost, writer>>

\* Mutant: w.pendingBatch is not replaced by an empty batch.
FlushBatchKeep ==
  /\ file' = file \o bufio \o pendingBatch
  /\ bufio' = <<>>
  /\ UNCHANGED <<pendingBatch, synced, lost, writer, size, rotating>>

\* The batch is taken out of w.pendingBatch first: when writeEntry fails,
\* the rest of it is gone.  A bufio.Writer whose Flush failed fails for ever.
FlushBatchLocked ==
  LET n == Writable IN
  /\ pendingBatch' = <<>>
  /\ lost' = lost \cup {pendingBatch[i] : i \in n + 1 .. Len(pendingBatch)}
  /\ size' = size + n
  /\ rotating' = (rotating \/ (n > 0 /\ size' > MaxSize))
  /\ IF FlushSucceeds /\ pendingBatch # <<>>
       THEN /\ file' = file \o bufio \o pendingBatch
            /\ bufio' = <<>>
            /\ synced' = IF GroupCommit THEN Len(file') ELSE synced
            /\ UNCHANGED writer
       ELSE /\ bufio' = bufio \o SubSeq(pendingBatch, 1, n)
            /\ writer' = IF writer = "stale" /\ n > 0 /\ n = Len(pendingBatch)
                           THEN "failed" ELSE writer
            /\ UNCHANGED <<file, synced>>

\* w.writer.Flush() on its own.
WriterFlush ==
  /\ file' = IF writer = "ok" THEN file \o bufio ELSE file
  /\ bufio' = IF writer = "ok" THEN <<>> ELSE bufio
  /\ writer' = IF writer = "stale" /\ bufio # <<>> THEN "failed" ELSE writer
  /\ UNCHANGED <<pendingBatch, size, lost>>

\* flushBatchLocked whose error is ignored, then w.writer.Flush() and
\* w.file.Sync(): what the writer took reaches the disk.
FlushAndSync ==
  LET n == Writable IN
  /\ pendingBatch' = <<>>
  /\ lost' = lost \cup {pendingBatch[i] : i \in n + 1 .. Len(pendingBatch)}
  /\ size' = size + n
  /\ rotating' = (rotating \/ (n > 0 /\ size' > MaxSize))
  /\ IF writer = "ok"
       THEN /\ file' = file \o bufio \o SubSeq(pendingBatch, 1, n)
            /\ bufio' = <<>>
            /\ synced' = Len(file')
       ELSE /\ bufio' = bufio \o SubSeq(pendingBatch, 1, n)
            /\ UNCHANGED <<file, synced>>

\* The disk is full or fails: Flush and Sync will return errors.
DiskFails ==
  /\ "diskFails" \in Features /\ writer = "ok"
  /\ writer' = "stale"
  /\ UNCHANGED <<appendVars, chanVars, bwVars, pendingBatch, bufio, file, synced, size,
                 lost, retired, rotating, ppc, rpc, lockVars, lifeVars, syncVars, tpc, down>>

-----------------------------------------------------------------------------
(***************************************************************************)
(* batchWriter.                                                            *)
(***************************************************************************)

bwFrame == <<appendVars, bufferClosed, retired, ppc, rpc, lockVars,
             lifeVars, syncVars, tpc, down>>

\* case entry, ok := <-w.buffer with an entry, in either select.
BwRecv ==
  /\ bpc \in {"outer", "inner"} /\ buffer # <<>>
  /\ hand' = <<Head(buffer)>> /\ buffer' = Tail(buffer)
  /\ bpc' = IF bpc = "outer" THEN "outerGot" ELSE "innerGot"
  /\ UNCHANGED <<leaving, fileVars, rotating, bwFrame>>

\* Under batchMutex.  Only the outer branch looks at the batch length.
BwStore ==
  /\ bpc \in {"outerGot", "innerGot"} /\ batchMutex = "free"
  /\ pendingBatch' = pendingBatch \o hand
  /\ hand' = <<>>
  /\ bpc' = IF bpc = "outerGot" /\ Len(pendingBatch') >= BatchSize THEN "flush" ELSE "outer"
  /\ UNCHANGED <<buffer, leaving, bufio, writer, file, synced, size, lost, rotating, bwFrame>>

\* The channel is closed and empty.
BwClosed ==
  /\ bpc \in {"outer", "inner"} /\ buffer = <<>> /\ bufferClosed
  /\ bpc' = "flush" /\ leaving' = TRUE
  /\ UNCHANGED <<buffer, hand, fileVars, rotating, bwFrame>>

BwDefault ==
  /\ bpc = "outer" /\ buffer = <<>> /\ ~bufferClosed
  /\ bpc' = "inner"
  /\ UNCHANGED <<buffer, hand, leaving, fileVars, rotating, bwFrame>>

\* The context wins the inner select, an entry queued meanwhile or not.
BwDone ==
  /\ bpc = "inner" /\ ctxDone
  /\ bpc' = "flush" /\ leaving' = TRUE
  /\ UNCHANGED <<buffer, hand, fileVars, rotating, bwFrame>>

\* Mutant: the ticker case does nothing.
BwTickSkip ==
  /\ bpc = "inner"
  /\ bpc' = "outer"
  /\ UNCHANGED <<buffer, hand, leaving, fileVars, rotating, bwFrame>>

BwTick ==
  /\ bpc = "inner"
  /\ bpc' = "flush"
  /\ UNCHANGED <<buffer, hand, leaving, fileVars, rotating, bwFrame>>

BwFlush ==
  /\ bpc = "flush" /\ batchMutex = "free"
  /\ FlushBatchLocked
  /\ bpc' = IF leaving THEN "exited" ELSE "outer"
  /\ UNCHANGED <<buffer, hand, leaving, bwFrame>>

BatchWriter ==
  BwRecv \/ BwStore \/ BwClosed \/ BwDefault \/ BwDone \/ BwTick \/ BwFlush

-----------------------------------------------------------------------------
(***************************************************************************)
(* periodicSync.                                                           *)
(***************************************************************************)

psFrame == <<appendVars, chanVars, bwVars, retired, rotating, rpc, lockVars,
             lifeVars, syncVars, tpc, down>>

PsCheck ==
  /\ ppc = "idle" /\ closeMutex = "free"
  /\ ppc' = IF closed THEN "exited" ELSE "checked"
  /\ UNCHANGED <<fileVars, psFrame>>

\* The flush, under batchMutex; an error skips the fsync.
PsFlush ==
  /\ ppc = "checked" /\ batchMutex = "free"
  /\ WriterFlush
  /\ ppc' = IF writer' = "failed" THEN "idle" ELSE "sync"
  /\ UNCHANGED <<synced, psFrame>>

PsDone ==
  /\ ppc = "idle" /\ ctxDone /\ batchMutex = "free"
  /\ WriterFlush
  /\ ppc' = "lastSync"
  /\ UNCHANGED <<synced, psFrame>>

\* w.file.Sync(), without a lock: rotate may have put a new file there.
PsSync ==
  /\ ppc \in {"sync", "lastSync"}
  /\ synced' = IF writer = "ok" THEN Len(file) ELSE synced
  /\ ppc' = IF ppc = "sync" THEN "idle" ELSE "exited"
  /\ UNCHANGED <<pendingBatch, bufio, writer, file, size, lost, psFrame>>

PeriodicSync == PsCheck \/ PsFlush \/ PsDone \/ PsSync

-----------------------------------------------------------------------------
(***************************************************************************)
(* rotateWatcher and rotate.                                               *)
(***************************************************************************)

rwFrame == <<appendVars, chanVars, bwVars, ppc, lifeVars, syncVars, tpc, down>>

\* The ticker finds the flag raised; rotate takes closeMutex.
RwTick ==
  /\ rpc = "idle" /\ rotating /\ closeMutex = "free"
  /\ rpc' = IF closed THEN "lower" ELSE "locking"
  /\ closeMutex' = IF closed THEN "free" ELSE "rotate"
  /\ UNCHANGED <<fileVars, retired, rotating, batchMutex, rwFrame>>

\* Mutant: rotate calls flushBatch, which waits for the mutex rotate holds.
RwFlushReenter ==
  /\ rpc = "locking" /\ batchMutex = "free"
  /\ batchMutex' = "rotate"
  /\ UNCHANGED <<rpc, closeMutex, fileVars, rotating, retired, rwFrame>>

\* flushBatchLocked, w.writer.Flush(), w.file.Sync() and w.file.Close(),
\* all of them successful, under batchMutex.
RwFlush ==
  /\ rpc = "locking" /\ batchMutex = "free"
  /\ FlushSucceeds /\ writer = "ok"
  /\ FlushAndSync
  /\ batchMutex' = "rotate" /\ rpc' = "swap"
  /\ UNCHANGED <<writer, retired, closeMutex, rwFrame>>

\* flushBatchLocked fails, or the writer's file is closed: rotate gives both
\* locks back and changes nothing else.
RwFlushError ==
  /\ rpc = "locking" /\ batchMutex = "free"
  /\ \/ ~FlushSucceeds /\ FlushBatchLocked
     \/ FlushSucceeds /\ writer # "ok" /\ WriterFlush /\ UNCHANGED <<synced, rotating>>
  /\ closeMutex' = "free" /\ rpc' = "lower"
  /\ UNCHANGED <<retired, batchMutex, rwFrame>>

\* Rename, open the new file, install a new writer.
RwSwap ==
  /\ rpc = "swap"
  /\ retired' = retired \o file
  /\ file' = <<>> /\ synced' = 0 /\ size' = 0
  /\ lost' = lost \cup ToSet(bufio) /\ bufio' = <<>>
  /\ closeMutex' = "free" /\ batchMutex' = "free" /\ rpc' = "lower"
  /\ UNCHANGED <<pendingBatch, writer, rotating, rwFrame>>

\* os.Rename or os.OpenFile fails after the file was closed: w.file and
\* w.writer stay, and whatever is flushed later meets a closed file.
RwSwapError ==
  /\ "filesFail" \in Features /\ rpc = "swap"
  /\ writer' = "stale"
  /\ closeMutex' = "free" /\ batchMutex' = "free" /\ rpc' = "lower"
  /\ UNCHANGED <<pendingBatch, bufio, file, synced, size, lost, retired, rotating, rwFrame>>

\* w.rotating.Store(false), after the locks are free again.
RwLower ==
  /\ rpc = "lower"
  /\ rotating' = FALSE /\ rpc' = "idle"
  /\ UNCHANGED <<fileVars, retired, lockVars, rwFrame>>

RwDone ==
  /\ rpc = "idle" /\ ctxDone
  /\ rpc' = "exited"
  /\ UNCHANGED <<fileVars, retired, rotating, lockVars, rwFrame>>

RotateWatcher ==
  RwTick \/ RwFlush \/ RwFlushError \/ RwSwap \/ RwSwapError \/ RwLower \/ RwDone

-----------------------------------------------------------------------------
(***************************************************************************)
(* Sync, by one caller.                                                    *)
(***************************************************************************)

syFrame == <<appendVars, chanVars, bwVars, retired, rotating, ppc, rpc,
             lockVars, lifeVars, tpc, down>>

SyncCheck ==
  /\ "sync" \in Features
  /\ spc = "idle" /\ closeMutex = "free" /\ ~closed
  /\ spc' = "drain" /\ target' = accepted
  /\ UNCHANGED <<fileVars, syFrame>>

\* waitForBufferDrain: len(w.buffer) == 0, or its deadline.
SyncDrain ==
  /\ spc = "drain"
  /\ \/ buffer = <<>> /\ spc' = "run"
     \/ buffer # <<>> /\ "drainTimeouts" \in Features /\ spc' = "runLate"
  /\ UNCHANGED <<target, fileVars, syFrame>>

\* Flush and fsync under batchMutex.
SyncRun ==
  /\ spc \in {"run", "runLate"} /\ batchMutex = "free"
  /\ WriterFlush
  /\ synced' = IF writer = "ok" THEN Len(file') ELSE synced
  /\ spc' = "idle" /\ target' = 0
  /\ UNCHANGED syFrame

SyncCall == SyncCheck \/ SyncDrain \/ SyncRun

-----------------------------------------------------------------------------
(***************************************************************************)
(* Truncate, by one caller.  After flushBatch it works on w.writer and     *)
(* w.file without batchMutex; the model interleaves its steps with those   *)
(* of batchWriter but does not tear them.                                  *)
(***************************************************************************)

trFrame == <<appendVars, chanVars, bwVars, ppc, rpc, batchMutex, lifeVars,
             syncVars, down>>

TrStart ==
  /\ "truncate" \in Features
  /\ tpc = "idle" /\ closeMutex = "free" /\ ~closed
  /\ closeMutex' = "truncate" /\ tpc' = "drain"
  /\ UNCHANGED <<fileVars, retired, rotating, trFrame>>

TrDrain ==
  /\ tpc = "drain"
  /\ buffer = <<>> \/ "drainTimeouts" \in Features
  /\ tpc' = "flush"
  /\ UNCHANGED <<closeMutex, fileVars, retired, rotating, trFrame>>

TrFlush ==
  /\ tpc = "flush" /\ batchMutex = "free"
  /\ FlushBatchLocked
  /\ tpc' = "close"
  /\ UNCHANGED <<closeMutex, retired, trFrame>>

\* w.writer.Flush(), w.file.Sync() and w.file.Close(), whose errors are ignored.
TrClose ==
  /\ tpc = "close"
  /\ file' = (IF writer = "ok" THEN file \o bufio ELSE file)
  /\ bufio' = (IF writer = "ok" THEN <<>> ELSE bufio)
  /\ synced' = (IF writer = "ok" THEN Len(file') ELSE synced)
  /\ writer' = (IF writer = "ok" \/ (writer = "stale" /\ bufio = <<>>)
                  THEN "stale" ELSE "failed")
  /\ tpc' = "remove"
  /\ UNCHANGED <<closeMutex, pendingBatch, size, lost, retired, rotating, trFrame>>

\* os.Remove(w.path).
TrRemove ==
  /\ tpc = "remove"
  /\ retired' = retired \o file /\ file' = <<>> /\ synced' = 0
  /\ tpc' = "swap"
  /\ UNCHANGED <<closeMutex, pendingBatch, bufio, writer, size, lost, rotating, trFrame>>

\* os.Remove or os.OpenFile fails: the closed file and its writer stay, and
\* with the file gone the next Truncate fails at os.Remove.
TrError ==
  /\ "filesFail" \in Features /\ tpc \in {"remove", "swap"}
  /\ closeMutex' = "free" /\ tpc' = "idle"
  /\ UNCHANGED <<fileVars, retired, rotating, trFrame>>

\* The new file and writer; what the old writer still held is dropped.
TrSwap ==
  /\ tpc = "swap"
  /\ lost' = lost \cup ToSet(bufio) /\ bufio' = <<>>
  /\ writer' = "ok" /\ size' = 0
  /\ closeMutex' = "free" /\ tpc' = "idle"
  /\ UNCHANGED <<pendingBatch, file, synced, retired, rotating, trFrame>>

TruncateCall ==
  TrStart \/ TrDrain \/ TrFlush \/ TrClose \/ TrRemove \/ TrSwap \/ TrError

-----------------------------------------------------------------------------
(***************************************************************************)
(* End of life.                                                            *)
(***************************************************************************)

clFrame == <<appendVars, bwVars, retired, ppc, rpc, lockVars, syncVars, tpc, down>>

CloseBuffer ==
  /\ "closeBuffer" \in Features /\ closeMutex = "free" /\ ~bufferClosed
  /\ bufferClosed' = TRUE
  /\ UNCHANGED <<buffer, fileVars, rotating, lifeVars, clFrame>>

\* The database cancels the parent context (CloseWithTimeout).
ParentCancel ==
  /\ "cancel" \in Features /\ ~ctxDone
  /\ ctxDone' = TRUE
  /\ UNCHANGED <<chanVars, fileVars, rotating, closed, kpc, clFrame>>

CloseMark ==
  /\ "close" \in Features /\ kpc = "open" /\ closeMutex = "free"
  /\ closed' = TRUE /\ bufferClosed' = TRUE /\ kpc' = "cancel"
  /\ UNCHANGED <<buffer, fileVars, rotating, ctxDone, clFrame>>

CloseCancel ==
  /\ kpc = "cancel"
  /\ ctxDone' = TRUE /\ kpc' = "wait"
  /\ UNCHANGED <<chanVars, fileVars, rotating, closed, clFrame>>

WorkersGone == bpc = "exited" /\ ppc = "exited" /\ rpc = "exited"

CloseWait ==
  /\ kpc = "wait"
  /\ WorkersGone \/ "closeTimeout" \in Features
  /\ kpc' = "final"
  /\ UNCHANGED <<chanVars, fileVars, rotating, ctxDone, closed, clFrame>>

\* flushBatch, Flush, Sync, Close.  w.buffer is not looked at again.
CloseFinal ==
  /\ kpc = "final" /\ batchMutex = "free"
  /\ FlushAndSync
  /\ writer' = (IF writer = "ok" THEN "stale" ELSE writer)
  /\ kpc' = "done"
  /\ UNCHANGED <<chanVars, ctxDone, closed, clFrame>>

CloseCall == CloseMark \/ CloseCancel \/ CloseWait \/ CloseFinal

\* Power loss or a killed process: of what fsync has not confirmed any prefix
\* may have reached the disk.
Crash ==
  /\ "crash" \in Features
  /\ down' = "crash"
  /\ \E k \in synced .. Len(file) : Volatile(k)

Next ==
  /\ down = "no"
  /\ \/ AppendCheck \/ AppendSend \/ AppendTimeout \/ AppendPanic
     \/ BatchWriter \/ PeriodicSync \/ RotateWatcher
     \/ SyncCall \/ TruncateCall
     \/ CloseBuffer \/ ParentCancel \/ CloseCall
     \/ DiskFails \/ Crash

Spec == Init /\ [][Next]_vars

(***************************************************************************)
(* Fairness.  Tickers keep firing and Go runs every runnable goroutine; a  *)
(* mutex that is free again and again is eventually obtained (SF), and     *)
(* periodicSync's select eventually sees the cancelled context between its *)
(* ticks.  Nobody is obliged to call anything; a call once begun goes on.  *)
(***************************************************************************)
Fairness ==
  /\ WF_vars(down = "no" /\ (AppendSend \/ AppendTimeout \/ AppendPanic))
  /\ SF_vars(down = "no" /\ BatchWriter)
  /\ SF_vars(down = "no" /\ PeriodicSync)
  /\ SF_vars(down = "no" /\ PsDone)
  /\ SF_vars(down = "no" /\ RotateWatcher)
  /\ SF_vars(down = "no" /\ (SyncDrain \/ SyncRun))
  /\ SF_vars(down = "no" /\ (TrDrain \/ TrFlush \/ TrClose \/ TrRemove \/ TrSwap))
  /\ SF_vars(down = "no" /\ (CloseCancel \/ CloseWait \/ CloseFinal))

FairSpec == Spec /\ Fairness

-----------------------------------------------------------------------------
(***************************************************************************)
(* Properties.                                                             *)
(***************************************************************************)

\* Everything accepted and not lost, oldest first.
Log == retired \o file \o bufio \o pendingBatch \o hand \o buffer

\* The entries keep the order of Append on their way to the file, none is
\* duplicated, and every accepted entry is either on its way or on record
\* as lost, whatever rotation, Truncate, Sync and Close do meanwhile.
LogOrdered ==
  /\ \A i, j \in DOMAIN Log : i < j => Log[i] < Log[j]
  /\ down = "no" => /\ ToSet(Log) \cup lost = 1 .. accepted
                    /\ ToSet(Log) \cap lost = {}

Abstract == INSTANCE AbstractLog WITH
  log <- Log, stable <- Len(retired) + synced, alive <- (down = "no"),
  excuse <- writer # "ok" \/ \E i \in DOMAIN pendingBatch : pendingBatch[i] \in Bad

\* The log as a whole (the file at w.path and the rotated ones) keeps the
\* promise of AbstractLog through failing entries and rotations, Truncate,
\* Sync, Close and crashes: a crash leaves a prefix of the entries that holds
\* at least what was fsynced, and an entry is given up only before it is on
\* disk, with an unwritable entry in its batch or a file that is closed or bad.
ImplementsAbstractLog == Abstract!LogSpec

\* Every accepted entry reaches the disk, through rotations and failing
\* calls, unless the process dies, the log is closed, its file is gone bad, or
\* the entry is on record as lost.
EventuallyDurable ==
  \A n \in Entry :
    accepted >= n ~> \/ n \in ToSet(retired) \cup ToSet(SubSeq(file, 1, synced))
                     \/ n \in lost \/ writer # "ok" \/ ctxDone \/ down # "no"

\* Sync, Truncate and Close return: closeMutex -> batchMutex never deadlock.
CallsReturn ==
  /\ spc # "idle" ~> (spc = "idle" \/ down # "no")
  /\ tpc # "idle" ~> (tpc = "idle" \/ down # "no")
  /\ kpc # "open" ~> (kpc = "done" \/ down # "no")

\* wal_sync.go: Sync "Waits for batchWriter to have processed the pending
\* entries in w.buffer, so that previous Append() calls are already in the
\* file."
SyncGuarantee ==
  [][SyncRun /\ spc = "run" /\ writer = "ok"
       => 1 .. target \subseteq ToSet(retired') \cup ToSet(file')]_vars

\* wal.go, CloseBuffer: closes the channel "para que Append falle rapido",
\* so that Append fails fast.
AppendFailsFast == down # "panic"

\* wal.go, rotateWatcher: the flag is lowered after a failed rotation too,
\* "para no atascar rotaciones futuras", so that later rotations are not
\* stuck: one that begins gets to its rename.
LaterRotationsWork ==
  [][rpc = "locking" /\ rpc' # "locking" => rpc' = "swap"]_vars

\* README.md: "Truncate() waits for the write buffer to drain before
\* removing the file, so queued entries are never silently dropped".
TruncateKeepsQueued == lost = {}

=============================================================================
