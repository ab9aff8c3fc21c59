------------------------ MODULE WritePipelineProofs ------------------------
(***************************************************************************)
(* Proofs about the write pipeline, for any finite set of callers, any     *)
(* channel capacity and any batch limit.                                   *)
(***************************************************************************)
EXTENDS WritePipeline, FiniteSetTheorems, TLAPS

(***************************************************************************)
(* Facts about sequences.                                                  *)
(***************************************************************************)

\* Moving the head of t to the end of s leaves the concatenation unchanged:
\* what the worker does when it receives from the channel.
LEMMA MoveHead ==
  ASSUME NEW S, NEW s \in Seq(S), NEW t \in Seq(S), t # <<>>
  PROVE  Append(s, Head(t)) \o Tail(t) = s \o t
  OBVIOUS

\* A send extends the concatenation at its end.
LEMMA AppendRight ==
  ASSUME NEW S, NEW s \in Seq(S), NEW t \in Seq(S), NEW e \in S
  PROVE  s \o Append(t, e) = Append(s \o t, e)
  OBVIOUS

\* Taking the head of s takes the head of the concatenation.
LEMMA TailLeft ==
  ASSUME NEW S, NEW s \in Seq(S), NEW t \in Seq(S), s # <<>>
  PROVE  /\ s \o t # <<>>
         /\ Head(s \o t) = Head(s)
         /\ Tail(s) \o t = Tail(s \o t)
  OBVIOUS

\* Appending a new element keeps a sequence free of duplicates.
LEMMA AppendDistinct ==
  ASSUME NEW S, NEW s \in Seq(S), NEW e \in S
  PROVE  /\ ToSet(Append(s, e)) = ToSet(s) \cup {e}
         /\ IsInjective(s) /\ e \notin ToSet(s) => IsInjective(Append(s, e))
<1> DEFINE n == Len(s)
           a == Append(s, e)
<1>1. /\ n \in Nat /\ DOMAIN s = 1..n /\ DOMAIN a = 1..(n+1)
      /\ a[n+1] = e /\ \A i \in 1..n : a[i] = s[i]
  OBVIOUS
<1> HIDE DEF n, a
<1>2. ToSet(a) = ToSet(s) \cup {e}
  <2>1. ASSUME NEW x \in ToSet(a) PROVE x \in ToSet(s) \cup {e}
    <3>1. PICK i \in 1..(n+1) : x = a[i]
      BY <1>1, <2>1 DEF ToSet
    <3>2. i \in 1..n \/ i = n + 1
      BY <1>1, <3>1
    <3> QED  BY <1>1, <3>1, <3>2 DEF ToSet
  <2>2. ASSUME NEW x \in ToSet(s) PROVE x \in ToSet(a)
    <3>1. PICK i \in 1..n : x = s[i]
      BY <1>1, <2>2 DEF ToSet
    <3>2. i \in 1..(n+1) /\ x = a[i]
      BY <1>1, <3>1
    <3> QED  BY <1>1, <3>2 DEF ToSet
  <2>3. e \in ToSet(a)
    <3>1. n + 1 \in 1..(n+1)
      BY <1>1
    <3> QED  BY <1>1, <3>1 DEF ToSet
  <2> QED  BY <2>1, <2>2, <2>3
<1>3. ASSUME IsInjective(s), e \notin ToSet(s) PROVE IsInjective(a)
  <2>1. ASSUME NEW i \in 1..(n+1), NEW j \in 1..(n+1), a[i] = a[j] PROVE i = j
    <3>1. \A k \in 1..n : a[k] # e
      BY <1>1, <1>3 DEF ToSet
    <3>2. CASE i \in 1..n /\ j \in 1..n
      BY <1>1, <1>3, <2>1, <3>2 DEF IsInjective
    <3>3. CASE i = n + 1 \/ j = n + 1
      BY <1>1, <2>1, <3>1, <3>3
    <3> QED  BY <1>1, <3>2, <3>3
  <2> QED  BY <1>1, <2>1 DEF IsInjective
<1> QED  BY <1>2, <1>3 DEF a

\* Removing the head of a duplicate-free sequence removes that element.
LEMMA TailDistinct ==
  ASSUME NEW S, NEW s \in Seq(S), s # <<>>, IsInjective(s)
  PROVE  /\ ToSet(Tail(s)) = ToSet(s) \ {Head(s)}
         /\ Head(s) \in ToSet(s)
         /\ IsInjective(Tail(s))
<1> DEFINE n == Len(s) - 1
           t == Tail(s)
<1>1. /\ n \in Nat /\ DOMAIN s = 1..(n+1) /\ DOMAIN t = 1..n
      /\ Head(s) = s[1] /\ \A i \in 1..n : t[i] = s[i+1]
  OBVIOUS
<1> HIDE DEF n, t
<1>2. 1 \in 1..(n+1) /\ \A i \in 1..n : i + 1 \in 1..(n+1) /\ i + 1 # 1
  BY <1>1
<1>3. \A i, j \in 1..(n+1) : s[i] = s[j] => i = j
  BY <1>1 DEF IsInjective
<1>4. ToSet(t) \subseteq ToSet(s) \ {Head(s)}
  <2>1. ASSUME NEW x \in ToSet(t) PROVE x \in ToSet(s) /\ x # s[1]
    <3>1. PICK i \in 1..n : x = s[i+1]
      BY <1>1, <2>1 DEF ToSet
    <3> QED  BY <1>1, <1>2, <1>3, <3>1 DEF ToSet
  <2> QED  BY <1>1, <2>1
<1>5. ASSUME NEW x \in ToSet(s), x # Head(s) PROVE x \in ToSet(t)
  <2>1. PICK i \in 1..(n+1) : x = s[i]
    BY <1>1, <1>5 DEF ToSet
  <2>2. i - 1 \in 1..n /\ (i - 1) + 1 = i
    BY <1>1, <1>5, <2>1
  <2>3. x = t[i - 1]
    BY <1>1, <2>1, <2>2
  <2> QED  BY <1>1, <2>2, <2>3 DEF ToSet
<1>6. Head(s) \in ToSet(s)
  BY <1>1, <1>2 DEF ToSet
<1>7. IsInjective(t)
  <2>1. ASSUME NEW i \in 1..n, NEW j \in 1..n, t[i] = t[j] PROVE i = j
    <3>1. i + 1 = j + 1
      BY <1>1, <1>2, <1>3, <2>1
    <3> QED  BY <1>1, <3>1
  <2> QED  BY <1>1, <2>1 DEF IsInjective
<1> QED  BY <1>4, <1>5, <1>6, <1>7 DEF t

-----------------------------------------------------------------------------
(***************************************************************************)
(* The inductive invariant.                                                *)
(***************************************************************************)

\* The operations in flight form a finite set, so that counting them works.
LEMMA InFlightFinite == IsFiniteSet(InFlight)
<1>1. InFlight \in SUBSET Clients
  BY DEF InFlight
<1> QED  BY <1>1, FS_Subset, PipelineAssumption DEF PipelineAssumption

\* The initial state satisfies the inductive invariant.
LEMMA InitIInv == Init => IInv
<1> SUFFICES ASSUME Init PROVE IInv
  OBVIOUS
<1>1. TypeOK
  <2>1. /\ pc \in [Clients -> {"idle", "called", "sending", "waiting"}]
        /\ reply \in [Clients -> Replies \cup {"none"}]
        /\ writeBuffer \in Seq(Clients) /\ batch \in Seq(Clients)
        /\ pendingOps \in Nat /\ awaited \in SUBSET Clients
    BY DEF Init
  <2>2. /\ leaving \in BOOLEAN /\ bufClosed \in BOOLEAN /\ closed \in BOOLEAN
        /\ ctxDone \in BOOLEAN /\ crashed \in BOOLEAN
    BY Zenon DEF Init
  <2> QED  BY <2>1, <2>2 DEF Init, TypeOK
<1>2. InFlight = {} /\ Blocked = {}
  BY DEF Init, InFlight, Blocked
<1>3. PendingOpsExact
  BY <1>2, FS_EmptySet DEF Init, PendingOpsExact
<1>4. Queue = <<>>
  BY DEF Init, Queue
<1>5. QueueExact
  BY <1>2, <1>4 DEF QueueExact, ToSet, IsInjective
<1> QED
  BY <1>1, <1>2, <1>3, <1>5
  DEF IInv, Init, FreshReply, LockExact, AwaitedInFlight, FlushCovers,
      NoBatchAbandoned

\* Steps that leave callers, queue, counter and history alone keep the parts
\* of the invariant that speak of them.
LEMMA Framed ==
  ASSUME IInv, UNCHANGED <<pc, reply, batch, writeBuffer, pendingOps>>
  PROVE  /\ InFlight' = InFlight
         /\ PendingOpsExact'
         /\ QueueExact'
         /\ FreshReply'
<1>1. InFlight' = InFlight /\ Blocked' = Blocked /\ Queue' = Queue
  BY DEF InFlight, Blocked, Queue
<1> QED
  BY <1>1 DEF IInv, PendingOpsExact, QueueExact, FreshReply

\* Removing a counted operation and lowering the counter keeps it exact.
LEMMA Uncount ==
  ASSUME IInv, NEW c \in InFlight, InFlight' = InFlight \ {c},
         pendingOps' = pendingOps - 1
  PROVE  PendingOpsExact' /\ pendingOps' \in Nat
<1>1. /\ IsFiniteSet(InFlight')
      /\ Cardinality(InFlight') = Cardinality(InFlight) - 1
  BY InFlightFinite, FS_RemoveElement
<1>2. Cardinality(InFlight') \in Nat
  BY <1>1, FS_CardinalityType
<1> QED  BY <1>1, <1>2 DEF IInv, PendingOpsExact

\* Every step of the pipeline preserves the inductive invariant.
LEMMA NextIInv == IInv /\ [Next]_vars => IInv'
<1> SUFFICES ASSUME IInv, [Next]_vars PROVE IInv'
  OBVIOUS
<1> USE DEF clientVars, workerVars, closeVars, flushVars
<1>1. ASSUME NEW c \in Clients, Call(c) PROVE IInv'
  <2>1. TypeOK'
    BY <1>1 DEF IInv, TypeOK, Call
  <2>2. InFlight' = InFlight /\ Blocked' = Blocked /\ Queue' = Queue
    BY <1>1 DEF IInv, TypeOK, Call, InFlight, Blocked, Queue
  <2>8. FreshReply'
    BY <1>1 DEF IInv, TypeOK, FreshReply, Call
  <2> QED
    BY <1>1, <2>8, <2>1, <2>2
    DEF IInv, Call, PendingOpsExact, QueueExact, LockExact, AwaitedInFlight,
        FlushCovers, NoBatchAbandoned
<1>2. ASSUME NEW c \in Clients, Count(c) PROVE IInv'
  <2>1. InFlight' = InFlight \cup {c} /\ c \notin InFlight
    BY <1>2 DEF IInv, TypeOK, Count, InFlight
  <2>2. PendingOpsExact'
    BY <1>2, <2>1, InFlightFinite, FS_AddElement DEF IInv, PendingOpsExact, Count
  <2>3. Blocked' = Blocked /\ Queue' = Queue
    BY <1>2 DEF IInv, TypeOK, Count, Blocked, Queue
  <2>4. TypeOK'
    BY <1>2 DEF IInv, TypeOK, Count
  <2>8. FreshReply'
    BY <1>2 DEF IInv, TypeOK, FreshReply, Count
  <2> QED
    BY <1>2, <2>8, <2>1, <2>2, <2>3, <2>4
    DEF IInv, Count, QueueExact, LockExact, AwaitedInFlight,
        FlushCovers, NoBatchAbandoned
<1>3. ASSUME NEW c \in Clients, Send(c) PROVE IInv'
  <2>1. TypeOK'
    BY <1>3 DEF IInv, TypeOK, Send
  <2>2. InFlight' = InFlight
    BY <1>3 DEF IInv, TypeOK, FreshReply, Send, InFlight
  <2>3. Queue' = Append(Queue, c) /\ Queue \in Seq(Clients)
    BY <1>3, AppendRight DEF IInv, TypeOK, Send, Queue
  <2>4. Blocked' = Blocked \cup {c} /\ c \notin Blocked
    BY <1>3 DEF IInv, TypeOK, FreshReply, Send, Blocked
  <2>5. QueueExact'
    BY <2>3, <2>4, AppendDistinct DEF IInv, QueueExact
  <2>8. FreshReply'
    BY <1>3 DEF IInv, TypeOK, FreshReply, Send
  <2> QED
    BY <1>3, <2>8, <2>1, <2>2, <2>5
    DEF IInv, Send, PendingOpsExact, LockExact, AwaitedInFlight,
        FlushCovers, NoBatchAbandoned
<1>4. ASSUME NEW c \in Clients, SendOnClosed(c) PROVE IInv'
  <2>1. TypeOK'
    BY <1>4 DEF IInv, TypeOK, SendOnClosed
  <2> QED
    BY <1>4, <2>1, Framed
    DEF IInv, SendOnClosed, LockExact, AwaitedInFlight, FlushCovers, NoBatchAbandoned
<1>5. ASSUME NEW c \in Clients, GiveUp(c) PROVE IInv'
  <2>1. InFlight' = InFlight \ {c} /\ c \in InFlight
    BY <1>5 DEF IInv, TypeOK, GiveUp, InFlight
  <2>2. /\ PendingOpsExact'
        /\ pendingOps' \in Nat
    BY <1>5, <2>1, Uncount DEF GiveUp
  <2>3. Blocked' = Blocked /\ Queue' = Queue
    BY <1>5 DEF IInv, TypeOK, GiveUp, Blocked, Queue
  <2>4. TypeOK'
    BY <1>5, <2>2 DEF IInv, TypeOK, GiveUp
  <2>8. FreshReply'
    BY <1>5 DEF IInv, TypeOK, FreshReply, GiveUp
  <2> QED
    BY <1>5, <2>8, <2>1, <2>2, <2>3, <2>4
    DEF IInv, GiveUp, QueueExact, LockExact, AwaitedInFlight,
        FlushCovers, NoBatchAbandoned
<1>6. ASSUME NEW c \in Clients, Return(c) PROVE IInv'
  <2>1. TypeOK'
    BY <1>6 DEF IInv, TypeOK, Return
  <2>2. InFlight' = InFlight /\ Blocked' = Blocked /\ Queue' = Queue
    BY <1>6 DEF IInv, TypeOK, Return, InFlight, Blocked, Queue
  <2>8. FreshReply'
    BY <1>6 DEF IInv, TypeOK, FreshReply, Return
  <2> QED
    BY <1>6, <2>8, <2>1, <2>2
    DEF IInv, Return, PendingOpsExact, QueueExact, LockExact, AwaitedInFlight,
        FlushCovers, NoBatchAbandoned
<1>7. CASE OuterRecv \/ InnerRecv
  <2>1. /\ batch' = Append(batch, Head(writeBuffer))
        /\ writeBuffer' = Tail(writeBuffer) /\ writeBuffer # <<>>
        /\ wpc' \in {"outer", "batch"} /\ wpc \in {"outer", "inner"}
        /\ UNCHANGED <<pc, reply, leaving, pendingOps, lock, closeVars, flushVars, crashed>>
    BY <1>7 DEF OuterRecv, InnerRecv, TakeOp
  <2>2. batch \in Seq(Clients) /\ writeBuffer \in Seq(Clients)
    BY DEF IInv, TypeOK
  <2>3. Head(writeBuffer) \in Clients /\ Tail(writeBuffer) \in Seq(Clients)
    BY <2>1, <2>2
  <2>4. batch' \in Seq(Clients) /\ writeBuffer' \in Seq(Clients)
    BY <2>1, <2>2, <2>3
  <2>5. TypeOK'
    BY <2>1, <2>4 DEF IInv, TypeOK
  <2>6. Queue' = Queue
    BY <2>1, <2>2, MoveHead DEF Queue
  <2>7. InFlight' = InFlight /\ Blocked' = Blocked
    BY <2>1 DEF InFlight, Blocked
  <2>8. FreshReply'
    BY <2>1 DEF IInv, FreshReply
  <2> QED
    BY <2>1, <2>8, <2>5, <2>6, <2>7
    DEF IInv, PendingOpsExact, QueueExact, LockExact, AwaitedInFlight,
        FlushCovers, NoBatchAbandoned
<1>8. CASE OuterClosed \/ OuterDefault \/ InnerDone \/ InnerClosed \/ InnerTick
  <2>1. /\ wpc' \in {"batch", "inner"} /\ wpc \in {"outer", "inner"}
        /\ leaving' \in BOOLEAN
        /\ UNCHANGED <<pc, reply, batch, writeBuffer, pendingOps, lock, closeVars, flushVars, crashed>>
    BY <1>8 DEF OuterClosed, OuterDefault, InnerDone, InnerClosed, InnerTick, IInv, TypeOK
  <2>2. TypeOK'
    BY <2>1 DEF IInv, TypeOK
  <2> QED
    BY <2>1, <2>2, Framed
    DEF IInv, LockExact, AwaitedInFlight, FlushCovers, NoBatchAbandoned
<1>9. CASE BatchEmpty \/ BatchLock \/ BatchUnlock
  <2>1. TypeOK'
    BY <1>9 DEF BatchEmpty, BatchLock, BatchUnlock, AfterBatch, IInv, TypeOK
  <2>2. UNCHANGED <<pc, reply, batch, writeBuffer, pendingOps, flushVars>>
    BY <1>9 DEF BatchEmpty, BatchLock, BatchUnlock
  <2>3. LockExact' /\ NoBatchAbandoned'
    BY <1>9 DEF BatchEmpty, BatchLock, BatchUnlock, AfterBatch, IInv, LockExact, NoBatchAbandoned
  <2> QED
    BY <2>1, <2>2, <2>3, Framed DEF IInv, AwaitedInFlight, FlushCovers
<1>10. CASE ApplyOp
  <2> DEFINE c == Head(batch)
  <2>1. batch \in Seq(Clients) /\ writeBuffer \in Seq(Clients) /\ batch # <<>>
    BY <1>10 DEF ApplyOp, IInv, TypeOK
  <2>2. c \in Clients /\ Tail(batch) \in Seq(Clients) /\ Queue \in Seq(Clients)
    BY <2>1 DEF Queue
  <2>3. Queue # <<>> /\ Head(Queue) = c /\ Queue' = Tail(Queue)
    BY <1>10, <2>1, TailLeft DEF ApplyOp, Queue
  <2>4. /\ ToSet(Queue') = ToSet(Queue) \ {c}
        /\ c \in ToSet(Queue)
        /\ IsInjective(Queue')
    BY <2>2, <2>3, TailDistinct DEF IInv, QueueExact
  <2>5. pc[c] = "waiting" /\ reply[c] = "none"
    BY <2>4 DEF IInv, QueueExact, Blocked
  <2>6. PICK r \in Replies : reply' = [reply EXCEPT ![c] = r]
    BY <1>10 DEF ApplyOp
  <2> HIDE DEF c
  <2>7. r # "none" /\ reply'[c] = r /\ \A d \in Clients \ {c} : reply'[d] = reply[d]
    BY <2>2, <2>6 DEF Replies, IInv, TypeOK
  <2>8. /\ Blocked' = Blocked \ {c}
        /\ InFlight' = InFlight \ {c} /\ c \in InFlight
    BY <1>10, <2>2, <2>5, <2>7 DEF ApplyOp, Blocked, InFlight
  <2>9. QueueExact'
    BY <2>4, <2>8 DEF IInv, QueueExact
  <2>10. PendingOpsExact' /\ pendingOps' \in Nat
    BY <1>10, <2>8, Uncount DEF ApplyOp
  <2>11. awaited' = awaited \ {c}
    BY <1>10 DEF ApplyOp, c
  <2>12. reply' \in [Clients -> Replies \cup {"none"}]
    BY <2>2, <2>6 DEF IInv, TypeOK
  <2>13. TypeOK'
    BY <1>10, <2>2, <2>10, <2>11, <2>12 DEF ApplyOp, IInv, TypeOK
  <2>14. FreshReply'
    BY <1>10, <2>2, <2>5, <2>7 DEF ApplyOp, IInv, FreshReply
  <2> QED
    BY <1>10, <2>8, <2>9, <2>10, <2>11, <2>13, <2>14
    DEF ApplyOp, IInv, LockExact, AwaitedInFlight, FlushCovers, NoBatchAbandoned
<1>11. CASE CloseStep
  <2>1. TypeOK'
    <3>1. CASE CloseMark
      BY <3>1 DEF CloseMark, IInv, TypeOK
    <3>2. CASE CloseBuffer
      BY <3>2 DEF CloseBuffer, IInv, TypeOK
    <3>3. CASE CloseCancel
      BY <3>3 DEF CloseCancel, IInv, TypeOK
    <3>4. CASE CloseDone
      BY <3>4 DEF CloseDone, IInv, TypeOK
    <3> QED  BY <1>11, <3>1, <3>2, <3>3, <3>4 DEF CloseStep
  <2>2. UNCHANGED <<pc, reply, batch, writeBuffer, wpc, lock, pendingOps, flushVars>>
    BY <1>11 DEF CloseStep, CloseMark, CloseBuffer, CloseCancel, CloseDone
  <2> QED
    BY <2>1, <2>2, Framed
    DEF IInv, LockExact, AwaitedInFlight, FlushCovers, NoBatchAbandoned
<1>12. CASE FlushStart
  <2>1. InFlight \subseteq Clients
    BY DEF InFlight
  <2>2. TypeOK'
    BY <1>12, <2>1 DEF FlushStart, IInv, TypeOK
  <2> QED
    BY <1>12, <2>2, Framed
    DEF FlushStart, IInv, LockExact, AwaitedInFlight, FlushCovers, NoBatchAbandoned
<1>13. CASE FlushPolled
  <2>1. TypeOK'
    BY <1>13 DEF FlushPolled, IInv, TypeOK
  <2>2. InFlight = {}
    BY <1>13, InFlightFinite, FS_EmptySet DEF FlushPolled, IInv, PendingOpsExact
  <2> QED
    BY <1>13, <2>1, <2>2, Framed
    DEF FlushPolled, IInv, LockExact, AwaitedInFlight, FlushCovers, NoBatchAbandoned
<1>14. CASE FlushBusy \/ FlushTick \/ FlushGiveUp \/ FlushLock \/ FlushUnlock
  <2>1. TypeOK'
    BY <1>14 DEF FlushBusy, FlushTick, FlushGiveUp, FlushLock, FlushUnlock, IInv, TypeOK
  <2>2. UNCHANGED <<pc, reply, batch, writeBuffer, wpc, pendingOps>>
    BY <1>14 DEF FlushBusy, FlushTick, FlushGiveUp, FlushLock, FlushUnlock
  <2>3. LockExact' /\ FlushCovers' /\ awaited' \subseteq awaited
    BY <1>14
    DEF FlushBusy, FlushTick, FlushGiveUp, FlushLock, FlushUnlock, IInv,
        TypeOK, LockExact, FlushCovers
  <2> QED
    BY <2>1, <2>2, <2>3, Framed DEF IInv, AwaitedInFlight, NoBatchAbandoned
<1>15. CASE UNCHANGED vars
  <2>1. TypeOK'
    BY <1>15 DEF vars, IInv, TypeOK
  <2> QED
    BY <1>15, <2>1, Framed
    DEF vars, IInv, LockExact, AwaitedInFlight, FlushCovers, NoBatchAbandoned
<1> QED
  BY <1>1, <1>2, <1>3, <1>4, <1>5, <1>6, <1>7, <1>8, <1>9, <1>10, <1>11,
     <1>12, <1>13, <1>14, <1>15
  DEF Next, ClientStep, WorkerStep, FlushStep

\* The inductive invariant holds of every behaviour of the pipeline.
THEOREM Invariance == Spec => []IInv
<1> QED  BY InitIInv, NextIInv, PTL DEF Spec

\* Type correctness, including that db.pendingOps never goes below zero.
THEOREM TypeCorrect == Spec => []TypeOK
<1>1. IInv => TypeOK
  BY DEF IInv
<1> QED  BY <1>1, Invariance, PTL

\* db.pendingOps counts exactly the operations in flight, whatever the
\* number of callers, the capacity of writeBuffer and the batch limit.
THEOREM PendingOpsCorrect == Spec => []PendingOpsExact
<1>1. IInv => PendingOpsExact
  BY DEF IInv
<1> QED  BY <1>1, Invariance, PTL

\* Every accepted operation is in the channel or in the worker's slice
\* exactly once until it is answered.
THEOREM ExactlyOnce == Spec => []QueueExact
<1>1. IInv => QueueExact
  BY DEF IInv
<1> QED  BY <1>1, Invariance, PTL

\* Flush takes dataMutex only when every operation counted before it was
\* called is over, and no batch is being applied while it saves.
THEOREM FlushCorrect == Spec => [](FlushCovers /\ FlushExcludesApply)
<1>1. IInv => FlushCovers /\ FlushExcludesApply
  BY DEF IInv, LockExact, FlushExcludesApply
<1> QED  BY <1>1, Invariance, PTL

\* The worker returns with nothing in its slice: what shutdown leaves over is
\* in the channel.
THEOREM SliceEmptyAtExit == Spec => []NoBatchAbandoned
<1>1. IInv => NoBatchAbandoned
  BY DEF IInv
<1> QED  BY <1>1, Invariance, PTL

=============================================================================
