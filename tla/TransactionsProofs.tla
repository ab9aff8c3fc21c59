------------------------- MODULE TransactionsProofs -------------------------
(***************************************************************************)
(* Theorems about transactions, for any transactions, records and values,  *)
(* and any number of batches: they take effect as SerialStore says.        *)
(***************************************************************************)
EXTENDS Transactions, TLAPS

USE TransactionsAssumption

-----------------------------------------------------------------------------
(***************************************************************************)
(* The invariant.                                                          *)
(***************************************************************************)

\* A transaction is finalised exactly when its commit is under way or over.
FinalOnce == \A t \in Txs : call[t] # "idle" <=> status[t] = "committed"

\* No transaction has seen a version that is still to come, and one that was
\* applied has moved the version past its own.
VersionsPast ==
  \A t \in Txs : /\ status[t] # "none" => snapshotVersion[t] <= version
                 /\ call[t] = "applied" => snapshotVersion[t] < version

\* Unless a batch is under way, an unchanged version means unchanged data.
SnapshotCurrent ==
  \A t \in Txs : /\ status[t] # "none" /\ dataMutex = "free"
                 /\ snapshotVersion[t] = version
                 => snapshot[t] = data

IInv == TypeOK /\ FinalOnce /\ VersionsPast /\ SnapshotCurrent /\ OneWinner

\* What tx.Write and tx.Delete make of the changes collected so far.
LEMMA Collected ==
  ASSUME NEW c \in Changes, NEW k \in Keys, NEW v \in Vals \cup {Nil}
  PROVE  [x \in DOMAIN c \cup {k} |-> IF x = k THEN v ELSE c[x]] \in Changes
<1>1. PICK K \in SUBSET Keys : c \in [K -> Vals \cup {Nil}]
  BY DEF Changes
<1>2. [x \in DOMAIN c \cup {k} |-> IF x = k THEN v ELSE c[x]]
        \in [K \cup {k} -> Vals \cup {Nil}]
  BY <1>1
<1>3. K \cup {k} \in SUBSET Keys
  BY <1>1
<1> QED BY <1>2, <1>3 DEF Changes

\* Applying changes to records gives records.
LEMMA ChangedRecords ==
  ASSUME NEW d \in Records, NEW c \in Changes
  PROVE  Changed(d, c) \in Records
<1>1. PICK K \in SUBSET Keys : c \in [K -> Vals \cup {Nil}]
  BY DEF Changes
<1> QED BY <1>1 DEF Changed, Records

\* The invariant holds at first.
LEMMA InitIInv == Init => IInv
<1> SUFFICES ASSUME Init PROVE IInv
  OBVIOUS
<1>1. NoChanges \in Changes
  <2>1. NoChanges \in [{} -> Vals \cup {Nil}]
    BY DEF NoChanges
  <2> QED BY <2>1 DEF Changes
<1>2. TypeOK
  BY <1>1 DEF Init, TypeOK, Records, Empty
<1>3. FinalOnce /\ VersionsPast /\ SnapshotCurrent /\ OneWinner
  BY DEF Init, FinalOnce, VersionsPast, SnapshotCurrent, OneWinner
<1> QED BY <1>2, <1>3 DEF IInv

\* Every step keeps the types.
LEMMA StepTypeOK == TypeOK /\ [Next]_vars => TypeOK'
<1> SUFFICES ASSUME TypeOK, [Next]_vars PROVE TypeOK'
  OBVIOUS
<1>1. CASE BatchApply
  BY <1>1 DEF BatchApply, TypeOK, Records, txVars
<1>2. CASE BatchEnd
  BY <1>2 DEF BatchEnd, TypeOK, Records, txVars
<1>3. ASSUME NEW t \in Txs, BeginTransaction(t) PROVE TypeOK'
  BY <1>3 DEF BeginTransaction, TypeOK, storeVars
<1>4. ASSUME NEW t \in Txs, TxWrite(t) PROVE TypeOK'
  <2>1. PICK k \in Keys, v \in Vals \cup {Nil} :
          changes' = [changes EXCEPT ![t] =
                        [x \in DOMAIN @ \cup {k} |-> IF x = k THEN v ELSE @[x]]]
    BY <1>4 DEF TxWrite
  <2>2. changes[t] \in Changes
    BY DEF TypeOK
  <2>3. changes' \in [Txs -> Changes]
    BY <2>1, <2>2, Collected DEF TypeOK
  <2> QED BY <1>4, <2>3 DEF TxWrite, TypeOK, storeVars
<1>5. ASSUME NEW t \in Txs, Rollback(t) PROVE TypeOK'
  BY <1>5 DEF Rollback, TypeOK, storeVars
<1>6. ASSUME NEW t \in Txs, CommitFinalize(t) PROVE TypeOK'
  BY <1>6 DEF CommitFinalize, TypeOK, storeVars
<1>7. ASSUME NEW t \in Txs, CommitConflict(t) PROVE TypeOK'
  BY <1>7 DEF CommitConflict, TypeOK, storeVars
<1>8. ASSUME NEW t \in Txs, CommitApply(t) PROVE TypeOK'
  <2>1. Changed(data, changes[t]) \in Records
    BY ChangedRecords DEF TypeOK
  <2> QED BY <1>8, <2>1 DEF CommitApply, TypeOK
<1>9. CASE UNCHANGED vars
  BY <1>9 DEF vars, storeVars, txVars, TypeOK
<1> QED BY <1>1, <1>2, <1>3, <1>4, <1>5, <1>6, <1>7, <1>8, <1>9 DEF Next, CommitDecide

\* Every step keeps the invariant.
LEMMA StepIInv == IInv /\ [Next]_vars => IInv'
<1> SUFFICES ASSUME IInv, [Next]_vars PROVE IInv'
  OBVIOUS
<1> USE DEF IInv
<1>0. TypeOK /\ TypeOK'
  BY StepTypeOK
<1> DEFINE Rest == FinalOnce /\ VersionsPast /\ SnapshotCurrent /\ OneWinner
<1>1. CASE BatchApply
  BY <1>0, <1>1 DEF BatchApply, TypeOK, txVars, FinalOnce, VersionsPast, SnapshotCurrent,
     OneWinner
<1>2. CASE BatchEnd
  BY <1>0, <1>2 DEF BatchEnd, TypeOK, txVars, FinalOnce, VersionsPast, SnapshotCurrent,
     OneWinner
<1>3. ASSUME NEW t \in Txs, BeginTransaction(t) PROVE Rest'
  BY <1>0, <1>3 DEF BeginTransaction, TypeOK, storeVars, FinalOnce, VersionsPast,
     SnapshotCurrent, OneWinner
<1>4. ASSUME NEW t \in Txs, TxWrite(t) PROVE Rest'
  BY <1>0, <1>4 DEF TxWrite, storeVars, FinalOnce, VersionsPast, SnapshotCurrent, OneWinner
<1>5. ASSUME NEW t \in Txs, Rollback(t) PROVE Rest'
  BY <1>0, <1>5 DEF Rollback, TypeOK, storeVars, FinalOnce, VersionsPast,
     SnapshotCurrent, OneWinner
<1>6. ASSUME NEW t \in Txs, CommitFinalize(t) PROVE Rest'
  BY <1>0, <1>6 DEF CommitFinalize, TypeOK, storeVars, FinalOnce, VersionsPast,
     SnapshotCurrent, OneWinner
<1>7. ASSUME NEW t \in Txs, CommitConflict(t) PROVE Rest'
  BY <1>0, <1>7 DEF CommitConflict, TypeOK, storeVars, FinalOnce, VersionsPast,
     SnapshotCurrent, OneWinner
<1>8. ASSUME NEW t \in Txs, CommitApply(t) PROVE Rest'
  <2>1. FinalOnce'
    BY <1>0, <1>8 DEF CommitApply, TypeOK, FinalOnce
  <2>2. VersionsPast'
    BY <1>0, <1>8 DEF CommitApply, TypeOK, VersionsPast, FinalOnce
  <2>3. SnapshotCurrent'
    BY <1>0, <1>8 DEF CommitApply, TypeOK, VersionsPast, SnapshotCurrent
  <2>4. OneWinner'
    BY <1>0, <1>8 DEF CommitApply, TypeOK, VersionsPast, OneWinner
  <2> QED BY <2>1, <2>2, <2>3, <2>4
<1>9. CASE UNCHANGED vars
  BY <1>0, <1>9 DEF vars, storeVars, txVars, FinalOnce, VersionsPast, SnapshotCurrent,
     OneWinner
<1> QED BY <1>0, <1>1, <1>2, <1>3, <1>4, <1>5, <1>6, <1>7, <1>8, <1>9 DEF Next, CommitDecide

\* The invariant of the specification.
LEMMA Invariance == Spec => []IInv
  BY InitIInv, StepIInv, PTL DEF Spec

-----------------------------------------------------------------------------
(***************************************************************************)
(* Theorems.                                                               *)
(***************************************************************************)

\* Type correctness: every variable keeps its type, whatever Begin, Write,
\* Rollback, Commit and the batches of the worker do.
THEOREM TypeCorrect == Spec => []TypeOK
<1>1. IInv => TypeOK
  BY DEF IInv
<1> QED BY <1>1, Invariance, PTL

\* Optimistic concurrency: of the transactions that CommitTransaction applies
\* no two began at the same version of the database.
THEOREM OneWinnerPerVersion == Spec => []OneWinner
<1>1. IInv => OneWinner
  BY DEF IInv
<1> QED BY <1>1, Invariance, PTL

\* Every step of the database is one of the serial store, or none.
LEMMA SerialStep ==
  IInv /\ [Next]_vars => [Serial!SerialNext]_(Serial!serialVars)
<1> SUFFICES ASSUME IInv, [Next]_vars
             PROVE  Serial!SerialNext \/ UNCHANGED Serial!serialVars
  OBVIOUS
<1> USE DEF IInv
<1>0. TypeOK /\ TypeOK'
  BY StepTypeOK
<1> DEFINE outcome == [t \in Txs |-> Outcome(t)]
<1>1. CASE BatchApply
  BY <1>0, <1>1 DEF BatchApply, TypeOK, txVars, Outcome, Serial!SerialNext, Serial!Other,
     Serial!Records, Records
<1>2. CASE BatchEnd
  BY <1>2 DEF BatchEnd, txVars, Outcome, Serial!serialVars
<1>3. ASSUME NEW t \in Txs, BeginTransaction(t) PROVE Serial!Show(t)
  <2>1. outcome[t] = "none"
    BY <1>3 DEF BeginTransaction, Outcome
  <2>2. outcome' = [outcome EXCEPT ![t] = "open"]
    BY <1>0, <1>3 DEF BeginTransaction, Outcome, TypeOK, FinalOnce
  <2> QED BY <1>3, <2>1, <2>2 DEF BeginTransaction, storeVars, Serial!Show
<1>4. ASSUME NEW t \in Txs, TxWrite(t) PROVE Serial!Ask(t)
  <2>1. outcome[t] = "open"
    BY <1>0, <1>4 DEF TxWrite, Outcome, TypeOK, FinalOnce
  <2>2. outcome' = outcome
    BY <1>4 DEF TxWrite, Outcome
  <2>3. /\ changes'[t] \in Serial!Changes
        /\ changes' = [changes EXCEPT ![t] = changes'[t]]
    BY <1>0, <1>4 DEF TxWrite, TypeOK, Changes, Serial!Changes
  <2> QED BY <1>4, <2>1, <2>2, <2>3 DEF TxWrite, storeVars, Serial!Ask
<1>5. ASSUME NEW t \in Txs, Rollback(t) PROVE Serial!Reject(t)
  <2>1. outcome[t] = "open"
    BY <1>0, <1>5 DEF Rollback, Outcome, TypeOK, FinalOnce
  <2>2. outcome' = [outcome EXCEPT ![t] = "rejected"]
    BY <1>0, <1>5 DEF Rollback, Outcome, TypeOK
  <2> QED BY <1>5, <2>1, <2>2 DEF Rollback, storeVars, Serial!Reject
<1>6. ASSUME NEW t \in Txs, CommitFinalize(t) PROVE UNCHANGED Serial!serialVars
  <2>1. outcome' = outcome
    BY <1>0, <1>6 DEF CommitFinalize, Outcome, TypeOK, FinalOnce
  <2> QED BY <1>6, <2>1 DEF CommitFinalize, storeVars, Serial!serialVars
<1>7. ASSUME NEW t \in Txs, CommitConflict(t) PROVE Serial!Reject(t)
  <2>1. outcome[t] = "open"
    BY <1>0, <1>7 DEF CommitConflict, Outcome, TypeOK, FinalOnce
  <2>2. outcome' = [outcome EXCEPT ![t] = "rejected"]
    BY <1>0, <1>7 DEF CommitConflict, Outcome, TypeOK, FinalOnce
  <2> QED BY <1>7, <2>1, <2>2 DEF CommitConflict, storeVars, Serial!Reject
<1>8. ASSUME NEW t \in Txs, CommitApply(t) PROVE Serial!Commit(t)
  <2>1. outcome[t] = "open"
    BY <1>0, <1>8 DEF CommitApply, Outcome, TypeOK, FinalOnce
  <2>2. outcome' = [outcome EXCEPT ![t] = "committed"]
    BY <1>0, <1>8 DEF CommitApply, Outcome, TypeOK, FinalOnce
  <2>3. snapshot[t] = data
    BY <1>0, <1>8 DEF CommitApply, FinalOnce, SnapshotCurrent
  <2>4. data' = Serial!Changed(data, changes[t])
    BY <1>8 DEF CommitApply, Changed, Serial!Changed
  <2> QED BY <1>8, <2>1, <2>2, <2>3, <2>4 DEF CommitApply, Serial!Commit
<1>9. CASE UNCHANGED vars
  BY <1>9 DEF vars, storeVars, txVars, Outcome, Serial!serialVars
<1> QED BY <1>1, <1>2, <1>3, <1>4, <1>5, <1>6, <1>7, <1>8, <1>9
        DEF Next, CommitDecide, Serial!SerialNext

\* Transactions are serial: finalised under tx.mutex and checked later under
\* dataMutex, each still makes all its changes at once to the very state in
\* its snapshot, or none of them, whatever the worker does in between.
THEOREM Serializable == Spec => ImplementsSerialStore
<1>1. Init => Serial!SerialInit
  BY DEF Init, Outcome, Serial!SerialInit, Empty, NoChanges, Serial!Empty, Serial!NoChanges
<1> QED BY <1>1, Invariance, SerialStep, PTL
        DEF Spec, ImplementsSerialStore, Serial!SerialSpec

=============================================================================
