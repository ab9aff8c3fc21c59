---------------------------- MODULE Transactions ----------------------------
(***************************************************************************)
(* Transactions of polarysdb: modules/tx/manager.go, and                   *)
(* BeginTransaction, createSnapshot and CommitTransaction of database.go,  *)
(* next to the worker that applies ordinary writes.                        *)
(*                                                                         *)
(* A transaction is finalised under its own mutex, before CommitTransaction*)
(* takes dataMutex and compares versions: between the two steps anything   *)
(* may happen, and the changes to apply are the live map of the            *)
(* transaction.  Tables are left out: a key here is a place in a table.    *)
(* The manager's map of transactions and its counters, which nothing       *)
(* reads, are left out too.  Import and fileOnChange, which replace db.data*)
(* without a new version, and dirtyFlag are in module Database.            *)
(***************************************************************************)
EXTENDS Integers

CONSTANTS
  Txs,          \* the transactions that will be begun, each by an own Begin
  Keys, Vals,
  Absent, Nil,  \* no record; the change that tx.Delete stores
  MaxBatches    \* bound on the batches of the worker

ASSUME TransactionsAssumption ==
  /\ Absent \notin Vals /\ Nil \notin Vals
  /\ MaxBatches \in Nat

VARIABLES
  data,       \* db.data
  version,    \* db.version
  dataMutex,  \* "free", or "worker" while a batch is applied
  batches,    \* batches applied so far
  status,     \* "none", "active", or tx.Committed, tx.Aborted
  snapshot,   \* tx.Snapshot
  snapshotVersion,
  changes,    \* tx.Changes
  call        \* CommitTransaction: "idle", "locking" dataMutex, "applied", "conflict"

storeVars == <<data, version, dataMutex, batches>>
txVars    == <<status, snapshot, snapshotVersion, changes, call>>
vars == <<storeVars, txVars>>

Records == [Keys -> Vals \cup {Absent}]
Changes == UNION {[K -> Vals \cup {Nil}] : K \in SUBSET Keys}
Empty == [k \in Keys |-> Absent]
NoChanges == [k \in {} |-> Nil]

\* Type invariant.
TypeOK ==
  /\ data \in Records
  /\ version \in Nat
  /\ dataMutex \in {"free", "worker"}
  /\ batches \in 0 .. MaxBatches
  /\ status \in [Txs -> {"none", "active", "committed", "aborted"}]
  /\ snapshot \in [Txs -> Records]
  /\ snapshotVersion \in [Txs -> Nat]
  /\ changes \in [Txs -> Changes]
  /\ call \in [Txs -> {"idle", "locking", "applied", "conflict"}]

Init ==
  /\ data = Empty /\ version = 0 /\ dataMutex = "free" /\ batches = 0
  /\ status = [t \in Txs |-> "none"]
  /\ snapshot = [t \in Txs |-> Empty]
  /\ snapshotVersion = [t \in Txs |-> 0]
  /\ changes = [t \in Txs |-> NoChanges]
  /\ call = [t \in Txs |-> "idle"]

-----------------------------------------------------------------------------
(***************************************************************************)
(* The worker: the data changes at the start of a batch, the version at    *)
(* its end, both under dataMutex.                                          *)
(***************************************************************************)

BatchApply ==
  /\ dataMutex = "free" /\ batches < MaxBatches
  /\ data' \in {[data EXCEPT ![k] = v] : k \in Keys, v \in Vals \cup {Absent}}
  /\ dataMutex' = "worker"
  /\ batches' = batches + 1
  /\ UNCHANGED <<version, txVars>>

BatchEnd ==
  /\ dataMutex = "worker"
  /\ version' = version + 1
  /\ dataMutex' = "free"
  /\ UNCHANGED <<data, batches, txVars>>

-----------------------------------------------------------------------------
(***************************************************************************)
(* The calls of an application.  Those on one transaction may come from    *)
(* several goroutines; tx.mutex makes each of them one step.               *)
(***************************************************************************)

\* Snapshot and version are read under one RLock.
BeginTransaction(t) ==
  /\ status[t] = "none" /\ dataMutex = "free"
  /\ status' = [status EXCEPT ![t] = "active"]
  /\ snapshot' = [snapshot EXCEPT ![t] = data]
  /\ snapshotVersion' = [snapshotVersion EXCEPT ![t] = version]
  /\ UNCHANGED <<storeVars, changes, call>>

\* tx.Write, and tx.Delete, which stores nil; a finalised transaction refuses.
TxWrite(t) ==
  /\ status[t] = "active"
  /\ \E k \in Keys, v \in Vals \cup {Nil} :
       changes' = [changes EXCEPT ![t] =
                     [x \in DOMAIN @ \cup {k} |-> IF x = k THEN v ELSE @[x]]]
  /\ UNCHANGED <<storeVars, status, snapshot, snapshotVersion, call>>

Rollback(t) ==
  /\ status[t] = "active"
  /\ status' = [status EXCEPT ![t] = "aborted"]
  /\ UNCHANGED <<storeVars, snapshot, snapshotVersion, changes, call>>

\* Manager.Commit.  Of several callers one gets past it; a transaction that
\* met a conflict is finalised like any other and cannot be tried again.
CommitFinalize(t) ==
  /\ status[t] = "active"
  /\ status' = [status EXCEPT ![t] = "committed"]
  /\ call' = [call EXCEPT ![t] = "locking"]
  /\ UNCHANGED <<storeVars, snapshot, snapshotVersion, changes>>

\* Mutant: after a conflict the transaction is open again, with its snapshot.
CommitConflictReopen(t) ==
  /\ call[t] = "locking" /\ dataMutex = "free"
  /\ version # snapshotVersion[t]
  /\ call' = [call EXCEPT ![t] = "idle"]
  /\ status' = [status EXCEPT ![t] = "active"]
  /\ snapshotVersion' = [snapshotVersion EXCEPT ![t] = version]
  /\ UNCHANGED <<storeVars, snapshot, changes>>

CommitConflict(t) ==
  /\ call[t] = "locking" /\ dataMutex = "free"
  /\ version # snapshotVersion[t]
  /\ call' = [call EXCEPT ![t] = "conflict"]
  /\ UNCHANGED <<storeVars, status, snapshot, snapshotVersion, changes>>

\* A nil change deletes its key.
Changed(d, asked) ==
  [k \in Keys |-> IF k \notin DOMAIN asked THEN d[k]
                  ELSE IF asked[k] = Nil THEN Absent ELSE asked[k]]

\* Mutant: a commit takes a new version only when it changes a record.
CommitApplyQuiet(t) ==
  /\ call[t] = "locking" /\ dataMutex = "free"
  /\ version = snapshotVersion[t]
  /\ data' = Changed(data, changes[t])
  /\ version' = IF data' = data THEN version ELSE version + 1
  /\ call' = [call EXCEPT ![t] = "applied"]
  /\ UNCHANGED <<dataMutex, batches, status, snapshot, snapshotVersion, changes>>

CommitApply(t) ==
  /\ call[t] = "locking" /\ dataMutex = "free"
  /\ version = snapshotVersion[t]
  /\ data' = Changed(data, changes[t])
  /\ version' = version + 1
  /\ call' = [call EXCEPT ![t] = "applied"]
  /\ UNCHANGED <<dataMutex, batches, status, snapshot, snapshotVersion, changes>>

CommitDecide(t) == CommitConflict(t) \/ CommitApply(t)

Next ==
  \/ BatchApply \/ BatchEnd
  \/ \E t \in Txs : \/ BeginTransaction(t) \/ TxWrite(t) \/ Rollback(t)
                    \/ CommitFinalize(t) \/ CommitDecide(t)

Spec == Init /\ [][Next]_vars

-----------------------------------------------------------------------------
(***************************************************************************)
(* Properties.                                                             *)
(***************************************************************************)

Outcome(t) ==
  IF status[t] = "none" THEN "none"
  ELSE IF status[t] = "aborted" \/ call[t] = "conflict" THEN "rejected"
  ELSE IF call[t] = "applied" THEN "committed" ELSE "open"

Serial == INSTANCE SerialStore WITH
  store <- data, view <- snapshot, wanted <- changes,
  outcome <- [t \in Txs |-> Outcome(t)]

\* Transactions take effect one at a time, each on the very state in its
\* snapshot, with exactly the changes it had when Commit was called, or never:
\* the version check outside tx.mutex is enough, although the transaction is
\* final and its map of changes handed over before dataMutex is taken.
ImplementsSerialStore == Serial!SerialSpec

\* Optimistic concurrency: of the transactions that began at one version at
\* most one is applied, also when it changes nothing.
OneWinner ==
  \A t, u \in Txs :
    /\ call[t] = "applied" /\ call[u] = "applied"
    /\ snapshotVersion[t] = snapshotVersion[u]
    => t = u

=============================================================================
