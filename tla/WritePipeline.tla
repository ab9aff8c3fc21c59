--------------------------- MODULE WritePipeline ---------------------------
(***************************************************************************)
(* The asynchronous write path of polarysdb (database.go, flush.go):       *)
(* callers of Create, Write, WriteBatch and Delete hand a WriteOperation   *)
(* to the buffered channel writeBuffer and block on its ResultCh; the      *)
(* single worker processWriteBuffer collects operations into a batch and   *)
(* applies the batch under dataMutex; Flush polls the pendingOps counter   *)
(* before it takes dataMutex; CloseWithTimeout closes the channel, cancels *)
(* the context and waits for the worker.                                   *)
(*                                                                         *)
(* A caller has at most one operation outstanding (it blocks on ResultCh), *)
(* so an operation is named by its caller.  What an operation does to the  *)
(* tables is the subject of module Database; here applying it only decides *)
(* between success and error.                                              *)
(***************************************************************************)
EXTENDS Integers, Sequences, FiniteSets, SequencesExt

CONSTANTS
  Clients,     \* goroutines that call the write operations
  BufferSize,  \* capacity of writeBuffer (Config.BufferSize)
  BatchLimit,  \* batch length that forces processing (50 in the code)
  Shutdown     \* whether the application ever calls Close

ASSUME PipelineAssumption ==
  /\ IsFiniteSet(Clients)
  /\ BufferSize \in Nat \ {0}
  /\ BatchLimit \in Nat \ {0}
  /\ Shutdown \in BOOLEAN

VARIABLES
  pc,          \* where each caller is in its operation
  reply,       \* content of the operation's ResultCh
  writeBuffer, \* the channel: callers whose operation is queued
  bufClosed,   \* close(writeBuffer) has happened
  batch,       \* the worker's local slice pendingOps, what is left of it
  wpc,         \* where processWriteBuffer is
  leaving,     \* the worker returns after the batch in hand
  pendingOps,  \* the atomic counter db.pendingOps
  lock,        \* holder of dataMutex in write mode
  closed,      \* db.closed
  ctxDone,     \* db.ctx is cancelled
  cpc,         \* where CloseWithTimeout is
  fpc,         \* where Flush is
  awaited,     \* history: operations counted when Flush began and not yet over
  crashed      \* a goroutine panicked: the process is gone

clientVars == <<pc, reply>>
workerVars == <<batch, wpc, leaving>>
closeVars  == <<bufClosed, closed, ctxDone, cpc>>
flushVars  == <<fpc, awaited>>
vars == <<clientVars, writeBuffer, workerVars, pendingOps, lock, closeVars,
          flushVars, crashed>>

Replies == {"ok", "err"}

\* Type invariant.  pendingOps is an atomic.Int64: that no interleaving of
\* Add(1) and Add(-1) takes it below zero is part of the claim.
TypeOK ==
  /\ pc \in [Clients -> {"idle", "called", "sending", "waiting"}]
  /\ reply \in [Clients -> Replies \cup {"none"}]
  /\ writeBuffer \in Seq(Clients)
  /\ batch \in Seq(Clients)
  /\ wpc \in {"outer", "inner", "batch", "apply", "exited"}
  /\ pendingOps \in Nat
  /\ lock \in {"free", "worker", "flush"}
  /\ leaving \in BOOLEAN /\ bufClosed \in BOOLEAN /\ closed \in BOOLEAN
  /\ ctxDone \in BOOLEAN /\ crashed \in BOOLEAN
  /\ cpc \in {"open", "marked", "shut", "wait", "done"}
  /\ fpc \in {"idle", "polling", "ticking", "locking", "saving"}
  /\ awaited \in SUBSET Clients

Init ==
  /\ pc = [c \in Clients |-> "idle"]
  /\ reply = [c \in Clients |-> "none"]
  /\ writeBuffer = <<>> /\ bufClosed = FALSE
  /\ batch = <<>> /\ wpc = "outer" /\ leaving = FALSE
  /\ pendingOps = 0 /\ lock = "free"
  /\ closed = FALSE /\ ctxDone = FALSE /\ cpc = "open"
  /\ fpc = "idle" /\ awaited = {}
  /\ crashed = FALSE

-----------------------------------------------------------------------------
(***************************************************************************)
(* The caller's side of Create, Write, WriteBatch and Delete.              *)
(***************************************************************************)

\* The operation passes the check of db.closed.  A call that finds the
\* database closed, or a batch over maxBatchSize, returns an error and
\* changes nothing.
Call(c) ==
  /\ pc[c] = "idle" /\ ~closed
  /\ pc' = [pc EXCEPT ![c] = "called"]
  /\ reply' = [reply EXCEPT ![c] = "none"]
  /\ UNCHANGED <<writeBuffer, workerVars, pendingOps, lock, closeVars, flushVars, crashed>>

\* Mutant: the operation is never counted.
CountNothing(c) ==
  /\ pc[c] = "called"
  /\ pc' = [pc EXCEPT ![c] = "sending"]
  /\ UNCHANGED <<reply, writeBuffer, workerVars, pendingOps, lock, closeVars, flushVars, crashed>>

\* db.pendingOps.Add(1), a step of its own: Close may run before it.
Count(c) ==
  /\ pc[c] = "called"
  /\ pc' = [pc EXCEPT ![c] = "sending"]
  /\ pendingOps' = pendingOps + 1
  /\ UNCHANGED <<reply, writeBuffer, workerVars, lock, closeVars, flushVars, crashed>>

\* select: the channel accepts the operation.
Send(c) ==
  /\ pc[c] = "sending" /\ ~bufClosed
  /\ Len(writeBuffer) < BufferSize
  /\ writeBuffer' = Append(writeBuffer, c)
  /\ pc' = [pc EXCEPT ![c] = "waiting"]
  /\ UNCHANGED <<reply, workerVars, pendingOps, lock, closeVars, flushVars, crashed>>

\* select: a send on a closed channel panics, and nothing recovers it.
SendOnClosed(c) ==
  /\ pc[c] = "sending" /\ bufClosed
  /\ crashed' = TRUE
  /\ UNCHANGED <<clientVars, writeBuffer, workerVars, pendingOps, lock, closeVars, flushVars>>

\* Mutant: the give-up path forgets pendingOps.Add(-1).
GiveUpCounted(c) ==
  /\ pc[c] = "sending"
  /\ pc' = [pc EXCEPT ![c] = "idle"]
  /\ awaited' = awaited \ {c}
  /\ UNCHANGED <<reply, writeBuffer, workerVars, pendingOps, lock, closeVars, fpc, crashed>>

\* select: ctx.Done() or the operation's timer wins, the count is undone.
GiveUp(c) ==
  /\ pc[c] = "sending"
  /\ pc' = [pc EXCEPT ![c] = "idle"]
  /\ pendingOps' = pendingOps - 1
  /\ awaited' = awaited \ {c}
  /\ UNCHANGED <<reply, writeBuffer, workerVars, lock, closeVars, fpc, crashed>>

\* <-op.ResultCh, which has no timeout and does not watch the context.
Return(c) ==
  /\ pc[c] = "waiting" /\ reply[c] # "none"
  /\ pc' = [pc EXCEPT ![c] = "idle"]
  /\ UNCHANGED <<reply, writeBuffer, workerVars, pendingOps, lock, closeVars, flushVars, crashed>>

-----------------------------------------------------------------------------
(***************************************************************************)
(* processWriteBuffer.  "outer" is the select that drains the channel      *)
(* first, "inner" the one entered through its default branch.              *)
(***************************************************************************)

TakeOp ==
  /\ writeBuffer # <<>>
  /\ batch' = Append(batch, Head(writeBuffer))
  /\ writeBuffer' = Tail(writeBuffer)

OuterRecv ==
  /\ wpc = "outer" /\ TakeOp
  /\ wpc' = IF Len(batch') >= BatchLimit THEN "batch" ELSE "outer"
  /\ UNCHANGED <<clientVars, leaving, pendingOps, lock, closeVars, flushVars, crashed>>

\* Mutant: on a closed channel the worker does not return.
OuterClosedStay ==
  /\ wpc = "outer" /\ writeBuffer = <<>> /\ bufClosed
  /\ wpc' = "batch"
  /\ UNCHANGED <<clientVars, writeBuffer, batch, leaving, pendingOps, lock, closeVars, flushVars, crashed>>

\* Channel closed and empty: last batch, then return.
OuterClosed ==
  /\ wpc = "outer" /\ writeBuffer = <<>> /\ bufClosed
  /\ wpc' = "batch" /\ leaving' = TRUE
  /\ UNCHANGED <<clientVars, writeBuffer, batch, pendingOps, lock, closeVars, flushVars, crashed>>

OuterDefault ==
  /\ wpc = "outer" /\ writeBuffer = <<>> /\ ~bufClosed
  /\ wpc' = "inner"
  /\ UNCHANGED <<clientVars, writeBuffer, batch, leaving, pendingOps, lock, closeVars, flushVars, crashed>>

\* Go picks any ready case: the context may win over a queued operation.
InnerDone ==
  /\ wpc = "inner" /\ ctxDone
  /\ wpc' = "batch" /\ leaving' = TRUE
  /\ UNCHANGED <<clientVars, writeBuffer, batch, pendingOps, lock, closeVars, flushVars, crashed>>

\* Mutant: an operation received in the inner select is dropped.
InnerRecvDrop ==
  /\ wpc = "inner" /\ writeBuffer # <<>>
  /\ writeBuffer' = Tail(writeBuffer)
  /\ wpc' = "outer"
  /\ UNCHANGED <<clientVars, batch, leaving, pendingOps, lock, closeVars, flushVars, crashed>>

\* This branch does not look at the batch length.
InnerRecv ==
  /\ wpc = "inner" /\ TakeOp
  /\ wpc' = "outer"
  /\ UNCHANGED <<clientVars, leaving, pendingOps, lock, closeVars, flushVars, crashed>>

\* Mutant: the worker returns without the last processBatch().
InnerClosedQuit ==
  /\ wpc = "inner" /\ writeBuffer = <<>> /\ bufClosed
  /\ wpc' = "exited" /\ leaving' = TRUE
  /\ UNCHANGED <<clientVars, writeBuffer, batch, pendingOps, lock, closeVars, flushVars, crashed>>

InnerClosed ==
  /\ wpc = "inner" /\ writeBuffer = <<>> /\ bufClosed
  /\ wpc' = "batch" /\ leaving' = TRUE
  /\ UNCHANGED <<clientVars, writeBuffer, batch, pendingOps, lock, closeVars, flushVars, crashed>>

\* Mutant: the ticker case does not process the batch.
InnerTickSkip ==
  /\ wpc = "inner"
  /\ wpc' = "outer"
  /\ UNCHANGED <<clientVars, writeBuffer, batch, leaving, pendingOps, lock, closeVars, flushVars, crashed>>

InnerTick ==
  /\ wpc = "inner"
  /\ wpc' = "batch"
  /\ UNCHANGED <<clientVars, writeBuffer, batch, leaving, pendingOps, lock, closeVars, flushVars, crashed>>

AfterBatch == IF leaving THEN "exited" ELSE "outer"

\* processBatch returns at once on an empty batch, without the lock.
BatchEmpty ==
  /\ wpc = "batch" /\ batch = <<>>
  /\ wpc' = AfterBatch
  /\ UNCHANGED <<clientVars, writeBuffer, batch, leaving, pendingOps, lock, closeVars, flushVars, crashed>>

BatchLock ==
  /\ wpc = "batch" /\ batch # <<>> /\ lock = "free"
  /\ lock' = "worker" /\ wpc' = "apply"
  /\ UNCHANGED <<clientVars, writeBuffer, batch, leaving, pendingOps, closeVars, flushVars, crashed>>

\* One operation of the batch: apply it, uncount it, answer it.  ResultCh
\* has room for the one answer it ever gets.
ApplyOp ==
  /\ wpc = "apply" /\ batch # <<>>
  /\ LET c == Head(batch) IN
       /\ \E r \in Replies : reply' = [reply EXCEPT ![c] = r]
       /\ awaited' = awaited \ {c}
  /\ batch' = Tail(batch)
  /\ pendingOps' = pendingOps - 1
  /\ UNCHANGED <<pc, writeBuffer, wpc, leaving, lock, closeVars, fpc, crashed>>

BatchUnlock ==
  /\ wpc = "apply" /\ batch = <<>>
  /\ lock' = "free" /\ wpc' = AfterBatch
  /\ UNCHANGED <<clientVars, writeBuffer, batch, leaving, pendingOps, closeVars, flushVars, crashed>>

-----------------------------------------------------------------------------
(***************************************************************************)
(* CloseWithTimeout.  Only the caller that wins the CompareAndSwap gets    *)
(* past the first line; its timeout abandons the wait, not the shutdown.   *)
(***************************************************************************)

CloseMark ==
  /\ Shutdown /\ cpc = "open" /\ ~closed
  /\ closed' = TRUE /\ cpc' = "marked"
  /\ UNCHANGED <<clientVars, writeBuffer, workerVars, pendingOps, lock, bufClosed, ctxDone, flushVars, crashed>>

CloseBuffer ==
  /\ cpc = "marked"
  /\ bufClosed' = TRUE /\ cpc' = "shut"
  /\ UNCHANGED <<clientVars, writeBuffer, workerVars, pendingOps, lock, closed, ctxDone, flushVars, crashed>>

CloseCancel ==
  /\ cpc = "shut"
  /\ ctxDone' = TRUE /\ cpc' = "wait"
  /\ UNCHANGED <<clientVars, writeBuffer, workerVars, pendingOps, lock, closed, bufClosed, flushVars, crashed>>

\* db.wg.Wait() returns once the worker is gone.
CloseDone ==
  /\ cpc = "wait" /\ wpc = "exited"
  /\ cpc' = "done"
  /\ UNCHANGED <<clientVars, writeBuffer, workerVars, pendingOps, lock, closed, bufClosed, ctxDone, flushVars, crashed>>

-----------------------------------------------------------------------------
(***************************************************************************)
(* Flush: poll pendingOps, then save and verify under dataMutex.           *)
(***************************************************************************)

\* Operations between their pendingOps.Add(1) and their pendingOps.Add(-1).
InFlight ==
  {c \in Clients : pc[c] = "sending" \/ (pc[c] = "waiting" /\ reply[c] = "none")}

FlushStart ==
  /\ fpc = "idle" /\ ~closed
  /\ fpc' = "polling" /\ awaited' = InFlight
  /\ UNCHANGED <<clientVars, writeBuffer, workerVars, pendingOps, lock, closeVars, crashed>>

\* Mutant: wait for the channel to be empty instead of the counter.
FlushPolledQueue ==
  /\ fpc = "polling" /\ writeBuffer = <<>>
  /\ fpc' = "locking"
  /\ UNCHANGED <<clientVars, writeBuffer, workerVars, pendingOps, lock, closeVars, awaited, crashed>>

FlushPolled ==
  /\ fpc = "polling" /\ pendingOps = 0
  /\ fpc' = "locking"
  /\ UNCHANGED <<clientVars, writeBuffer, workerVars, pendingOps, lock, closeVars, awaited, crashed>>

FlushBusy ==
  /\ fpc = "polling" /\ pendingOps # 0
  /\ fpc' = "ticking"
  /\ UNCHANGED <<clientVars, writeBuffer, workerVars, pendingOps, lock, closeVars, awaited, crashed>>

FlushTick ==
  /\ fpc = "ticking"
  /\ fpc' = "polling"
  /\ UNCHANGED <<clientVars, writeBuffer, workerVars, pendingOps, lock, closeVars, awaited, crashed>>

\* ctx.Done() or the BatchTimeout timer: Flush returns an error.
FlushGiveUp ==
  /\ fpc = "ticking"
  /\ fpc' = "idle" /\ awaited' = {}
  /\ UNCHANGED <<clientVars, writeBuffer, workerVars, pendingOps, lock, closeVars, crashed>>

\* The re-check of db.closed under the lock.
FlushLock ==
  /\ fpc = "locking" /\ lock = "free"
  /\ IF closed THEN /\ fpc' = "idle" /\ awaited' = {} /\ UNCHANGED lock
               ELSE /\ fpc' = "saving" /\ lock' = "flush" /\ UNCHANGED awaited
  /\ UNCHANGED <<clientVars, writeBuffer, workerVars, pendingOps, closeVars, crashed>>

\* Mutant: a return path of Flush that leaves dataMutex locked.
FlushKeepLock ==
  /\ fpc = "saving"
  /\ fpc' = "idle" /\ awaited' = {}
  /\ UNCHANGED <<clientVars, writeBuffer, workerVars, pendingOps, lock, closeVars, crashed>>

FlushUnlock ==
  /\ fpc = "saving"
  /\ fpc' = "idle" /\ lock' = "free" /\ awaited' = {}
  /\ UNCHANGED <<clientVars, writeBuffer, workerVars, pendingOps, closeVars, crashed>>

-----------------------------------------------------------------------------
ClientStep(c) ==
  Call(c) \/ Count(c) \/ Send(c) \/ SendOnClosed(c) \/ GiveUp(c) \/ Return(c)

WorkerStep ==
  \/ OuterRecv \/ OuterClosed \/ OuterDefault
  \/ InnerDone \/ InnerRecv \/ InnerClosed \/ InnerTick
  \/ BatchEmpty \/ BatchLock \/ ApplyOp \/ BatchUnlock

CloseStep == CloseMark \/ CloseBuffer \/ CloseCancel \/ CloseDone

FlushStep ==
  \/ FlushStart \/ FlushPolled \/ FlushBusy \/ FlushTick \/ FlushGiveUp
  \/ FlushLock \/ FlushUnlock

Next ==
  /\ ~crashed
  /\ \/ \E c \in Clients : ClientStep(c)
     \/ WorkerStep
     \/ CloseStep
     \/ FlushStep

Spec == Init /\ [][Next]_vars

(***************************************************************************)
(* Fairness.  Go schedules every runnable goroutine, so each goroutine     *)
(* that can step does (WF); a sync.RWMutex hands over in arrival order, so *)
(* a waiter that finds it free again and again gets it (SF); a timer that  *)
(* has fired stays ready, and select picks among ready cases at random, so *)
(* a timeout that is always possible is not postponed for ever (SF).  No   *)
(* application is obliged to call anything: Call, FlushStart and CloseMark *)
(* carry no fairness.                                                      *)
(***************************************************************************)
Fairness ==
  /\ \A c \in Clients :
       /\ WF_vars(~crashed /\ (Count(c) \/ Return(c)))
       /\ WF_vars(~crashed /\ (Send(c) \/ SendOnClosed(c) \/ GiveUp(c)))
  /\ WF_vars(~crashed /\ WorkerStep)
  /\ SF_vars(~crashed /\ BatchLock)
  /\ WF_vars(~crashed /\ (CloseBuffer \/ CloseCancel \/ CloseDone))
  /\ WF_vars(~crashed /\ (FlushPolled \/ FlushBusy \/ FlushTick \/ FlushUnlock))
  /\ SF_vars(~crashed /\ FlushGiveUp)
  /\ SF_vars(~crashed /\ FlushLock)

FairSpec == Spec /\ Fairness

-----------------------------------------------------------------------------
(***************************************************************************)
(* Properties.                                                             *)
(***************************************************************************)

\* db.pendingOps counts exactly the operations that were announced and are
\* neither answered nor abandoned, on every path through the select and
\* through processBatch.
PendingOpsExact == pendingOps = Cardinality(InFlight)

\* The order in which the worker will apply what it has been handed.
Queue == batch \o writeBuffer

\* Callers blocked on an empty ResultCh.
Blocked == {c \in Clients : pc[c] = "waiting" /\ reply[c] = "none"}

\* Exactly once: the operations in the channel and in the worker's slice
\* are those of the callers blocked on an empty ResultCh, each there once.
\* None is dropped by the worker, none is applied or answered twice.
QueueExact ==
  /\ ToSet(Queue) = Blocked
  /\ IsInjective(Queue)

\* Flush, guarantee 1: when it goes for dataMutex, every operation that was
\* counted when Flush was called has been applied or abandoned.
FlushCovers == fpc \in {"locking", "saving"} => awaited = {}

\* Flush, guarantee 2: no operation of a batch is applied while Flush saves
\* and verifies.
FlushExcludesApply == ~(wpc = "apply" /\ fpc = "saving")

\* The worker never returns with operations in its slice: whatever it does
\* not answer at shutdown is still in the channel.
NoBatchAbandoned == wpc = "exited" => batch = <<>>

\* dataMutex is held exactly by the goroutine that is past its Lock().
LockExact ==
  /\ lock = "worker" <=> wpc = "apply"
  /\ lock = "flush" <=> fpc = "saving"

\* An operation that is not yet queued has a fresh, empty ResultCh.
FreshReply ==
  \A c \in Clients : pc[c] \in {"called", "sending"} => reply[c] = "none"

\* What Flush still waits for is still in flight.
AwaitedInFlight == awaited \subseteq InFlight

\* The inductive invariant.  FlushCovers alone is not inductive: that a
\* counter at zero means nothing awaited needs PendingOpsExact, which needs
\* QueueExact to know that the operation at the head of the batch is counted
\* and unanswered when it is uncounted.
IInv ==
  /\ TypeOK
  /\ PendingOpsExact
  /\ QueueExact
  /\ FreshReply
  /\ LockExact
  /\ AwaitedInFlight
  /\ FlushCovers
  /\ NoBatchAbandoned

\* As long as nobody closes the database, every write call returns.
EveryCallReturns == \A c \in Clients : pc[c] # "idle" ~> (pc[c] = "idle" \/ closed)

\* Every Flush returns, also when Close races with it.
FlushReturns == fpc # "idle" ~> (fpc = "idle" \/ crashed)

\* CloseWithTimeout: wg.Wait() returns, whatever callers and Flush do.
CloseTerminates == closed ~> (cpc = "done" \/ crashed)

\* README.md: "Clean shutdown without panics".  A caller that passed the
\* check of db.closed may still be about to send when Close closes the
\* channel.
NoPanic == ~crashed

\* database.go:1218: processWriteBuffer drains everything before it leaves
\* ("Cerrar buffer -> processWriteBuffer draina todo antes de salir").
DrainedAtExit == wpc = "exited" => writeBuffer = <<>>

=============================================================================
