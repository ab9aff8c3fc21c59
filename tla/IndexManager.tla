---------------------------- MODULE IndexManager ----------------------------
(***************************************************************************)
(* One secondary index, on one field of one table (modules/index), and the *)
(* code of database.go that keeps it: the worker stores a record, then     *)
(* updates the index, then logs; CreateIndex takes a reference to the      *)
(* table under RLock and iterates it without; QueryByIndex copies the keys *)
(* of a value and looks them up later.  Tables and fields do not interact. *)
(*                                                                         *)
(* A record is what its field holds.  Format is formatIndexValue, which    *)
(* may map different values to one string.                                 *)
(***************************************************************************)
EXTENDS Integers, Sequences, FiniteSets, SequencesExt

CONSTANTS
  Keys, Vals, Strings,
  Format,     \* formatIndexValue, a function from Vals to Strings
  MaxStores,  \* bound on the stores of the worker and of transactions
  Features,   \* see below
  Absent, NoField, NoIndex, NoOp, Live

\* "newTable": the table does not exist at first; "race": CreateIndex runs
\* while the worker holds dataMutex; "appendFails": wal.Append times out;
\* "replace": load or Import puts new maps into db.data; "commit":
\* CommitTransaction writes to the table; "query": somebody queries.
AllFeatures == {"newTable", "race", "appendFails", "replace", "commit", "query"}

Record == Vals \cup {NoField, Absent}

ASSUME IndexAssumption ==
  /\ Format \in [Vals -> Strings]
  /\ MaxStores \in Nat
  /\ Features \subseteq AllFeatures
  /\ Absent \notin Vals /\ NoField \notin Vals
  /\ NoOp \notin [key : Keys, old : Record, new : Record]
  /\ NoIndex \notin [Strings -> Seq(Keys)]

VARIABLES
  exists,  \* the table exists
  records, \* db.data[table]
  stores,  \* stores so far
  index,   \* idx.data, empty lists included, or NoIndex
  wpc, op, \* where the worker is; the key and the old and new record in hand
  cpc,     \* where CreateIndex is
  source,  \* the map it iterates: Live, or the contents of another map
  todo,    \* keys its iteration has still to visit
  partial, \* idx.data under construction
  qpc,     \* where QueryByIndex is: "idle", "copying", "done"
  view,    \* the backing array of the list it copies, up to the length it read
  aliased, \* that array is still the one of the list
  asked,   \* the string it looks for
  result,  \* keys copied so far
  found,   \* keys of the records it returns, their order is left out
  steady,  \* history: keys that match since the query began
  seen,    \* history: keys that matched at some time since then
  raced,   \* history: CreateIndex ran while the worker held dataMutex
  bypassed, \* history: the table changed, or began, without the index: see
            \* Bypassing and CreateTable
  down     \* "fatal error: concurrent map iteration and map write"

tableVars  == <<exists, records, stores>>
workerVars == <<wpc, op>>
createVars == <<cpc, source, todo, partial>>
queryVars  == <<qpc, view, aliased, asked, result, found, steady, seen>>
history    == <<raced, bypassed>>
vars == <<tableVars, index, workerVars, createVars, queryVars, history, down>>

Empty == [s \in Strings |-> <<>>]
NoRecords == [k \in Keys |-> Absent]
Operation == [key : Keys, old : Record, new : Record]

\* Type invariant.
TypeOK ==
  /\ exists \in BOOLEAN /\ records \in [Keys -> Record] /\ stores \in 0 .. MaxStores
  /\ index = NoIndex \/ index \in [Strings -> Seq(Keys)]
  /\ partial \in [Strings -> Seq(Keys)]
  /\ wpc \in {"idle", "locked", "stored", "logging"}
  /\ op \in Operation \cup {NoOp} /\ (op = NoOp <=> wpc \in {"idle", "locked"})
  /\ cpc \in {"idle", "referenced", "building"}
  /\ source = Live \/ source \in [Keys -> Record]
  /\ todo \subseteq Keys /\ steady \subseteq Keys /\ seen \subseteq Keys
  /\ qpc \in {"idle", "copying", "done"} /\ asked \in Strings
  /\ view \in Seq(Keys) /\ result \in Seq(Keys) /\ found \subseteq Keys
  /\ {aliased, down, raced, bypassed} \subseteq BOOLEAN

Init ==
  /\ exists = ("newTable" \notin Features) /\ records = NoRecords /\ stores = 0
  /\ index = NoIndex /\ wpc = "idle" /\ op = NoOp
  /\ cpc = "idle" /\ source = Live /\ todo = {} /\ partial = Empty
  /\ qpc = "idle" /\ view = <<>> /\ aliased = FALSE
  /\ asked \in Strings /\ result = <<>> /\ found = {} /\ steady = {} /\ seen = {}
  /\ down = FALSE /\ raced = FALSE /\ bypassed = FALSE

-----------------------------------------------------------------------------
(***************************************************************************)
(* Records and lists of keys.                                              *)
(***************************************************************************)

\* extractFieldValue followed by formatIndexValue.
Matches(rec, s) == rec \in Vals /\ Format[rec] = s

Matching(s) == {k \in Keys : Matches(records[k], s)}

\* idx.data[s] with the key of a record appended.
Added(idx, rec, k) ==
  [s \in Strings |-> IF Matches(rec, s) THEN Append(idx[s], k) ELSE idx[s]]

\* Mutant: the loop over the keys never finds the one to remove.
RemovedNothing(idx, rec, k) == idx

\* idx.data with the first occurrence of the key of a record removed.
Removed(idx, rec, k) ==
  [s \in Strings |-> IF Matches(rec, s) THEN RemoveFirst(idx[s], k) ELSE idx[s]]

\* append(keys[:i], keys[i+1:]...) moves the rest of the list down in place:
\* what a reader of the same array finds where it has not copied yet.
Shifted(list, k) ==
  LET i == SelectInSeq(list, LAMBDA e : e = k) IN
  [j \in DOMAIN view |->
     IF i # 0 /\ i <= j /\ j < Len(list) THEN list[j + 1] ELSE view[j]]

\* An append fills the slot behind the list.
Filled(arr, list, k) ==
  [j \in DOMAIN arr |-> IF j = Len(list) + 1 THEN k ELSE arr[j]]

-----------------------------------------------------------------------------
(***************************************************************************)
(* The worker (processBatch).                                              *)
(***************************************************************************)

Lock ==
  /\ wpc = "idle" /\ ("race" \in Features \/ cpc = "idle")
  /\ wpc' = "locked"
  /\ raced' = (raced \/ cpc # "idle")
  /\ UNCHANGED <<tableVars, index, op, createVars, queryVars, bypassed, down>>

Unlock ==
  /\ wpc = "locked"
  /\ wpc' = "idle"
  /\ UNCHANGED <<tableVars, index, op, createVars, queryVars, history, down>>

CreateTable ==
  /\ wpc = "locked" /\ ~exists
  /\ exists' = TRUE
  \* A CreateIndex under way holds a nil map, and will not see what is stored.
  /\ bypassed' = (bypassed \/ cpc # "idle")
  /\ UNCHANGED <<records, stores, index, workerVars, createVars, queryVars, raced, down>>

\* Go may or may not produce a key that is inserted during an iteration.
Inserted(k) ==
  IF cpc = "building" /\ source = Live /\ records[k] = Absent
    THEN todo' \in {todo, todo \cup {k}} ELSE UNCHANGED todo

\* What a query under way has to know of a store.
Noted(k, rec) ==
  /\ steady' = steady \ {k}
  /\ seen' = IF Matches(rec, asked) THEN seen \cup {k} ELSE seen

\* t[key] = value, delete(t, key), or one record of a batch.
Store(k, rec) ==
  /\ wpc = "locked" /\ exists /\ stores < MaxStores
  /\ op' = [key |-> k, old |-> records[k], new |-> rec]
  /\ records' = [records EXCEPT ![k] = rec]
  /\ stores' = stores + 1
  /\ Inserted(k) /\ Noted(k, rec)
  /\ wpc' = "stored"
  /\ UNCHANGED <<exists, index, cpc, source, partial, qpc, view, aliased, asked,
                 result, found, history, down>>

\* Mutant: CreateIndex builds without the manager's mutex.
UpdateIndexUnlocked ==
  /\ wpc = "stored"
  /\ wpc' = "logging"
  /\ index' = IF index = NoIndex THEN NoIndex
              ELSE Added(Removed(index, op.old, op.key), op.new, op.key)
  /\ UNCHANGED <<tableVars, op, createVars, queryVars, history, down>>

\* Mutant: the old record is not taken out of the list of its value.
UpdateIndexAddOnly ==
  /\ wpc = "stored" /\ cpc # "building"
  /\ wpc' = "logging"
  /\ index' = IF index = NoIndex THEN NoIndex ELSE Added(index, op.new, op.key)
  /\ UNCHANGED <<tableVars, op, createVars, queryVars, history, down>>

\* GetIndexedFields, which waits for a CreateIndex in progress, then
\* UpdateIndex or DeleteFromIndex.
UpdateIndex ==
  /\ wpc = "stored" /\ cpc # "building"
  /\ wpc' = "logging"
  /\ IF index = NoIndex THEN UNCHANGED <<index, view, aliased>>
     ELSE LET without == Removed(index, op.old, op.key)
              arr == IF aliased /\ Matches(op.old, asked)
                       THEN Shifted(index[asked], op.key) ELSE view
              same == aliased /\ without[asked] # <<>>
          IN
          /\ index' = Added(without, op.new, op.key)
          /\ view' = IF same /\ Matches(op.new, asked)
                       THEN Filled(arr, without[asked], op.key) ELSE arr
          \* At full capacity append moves the list to a new array.
          /\ IF same /\ Matches(op.new, asked) /\ Len(without[asked]) >= Len(view)
               THEN aliased' \in BOOLEAN ELSE aliased' = same
  /\ UNCHANGED <<tableVars, op, createVars, qpc, asked, result, found, steady, seen,
                 history, down>>

LogAppended ==
  /\ wpc = "logging"
  /\ op' = NoOp /\ wpc' = "locked"
  /\ UNCHANGED <<tableVars, index, createVars, queryVars, history, down>>

\* A change that an index, finished or under construction, does not see.
Bypassing == bypassed' = (bypassed \/ index # NoIndex \/ cpc # "idle")

\* The rollback restores the record, a present nil if there was none, and
\* leaves the index.
LogFailed ==
  /\ "appendFails" \in Features /\ wpc = "logging"
  /\ LET old == IF op.old = Absent THEN NoField ELSE op.old IN
       /\ records' = [records EXCEPT ![op.key] = old]
       /\ Noted(op.key, old)
  /\ op' = NoOp /\ wpc' = "locked"
  /\ Bypassing
  /\ UNCHANGED <<exists, stores, index, createVars, qpc, view, aliased, asked,
                 result, found, raced, down>>

Worker ==
  \/ Lock \/ Unlock \/ CreateTable
  \/ \E k \in Keys, rec \in Record : Store(k, rec)
  \/ UpdateIndex \/ LogAppended \/ LogFailed

-----------------------------------------------------------------------------
(***************************************************************************)
(* CreateIndex.                                                            *)
(***************************************************************************)

createFrame == <<tableVars, workerVars, queryVars, history, down>>

\* tableData := db.data[table] under RLock: a reference, or a nil map.
Reference ==
  /\ cpc = "idle" /\ index = NoIndex /\ wpc = "idle"
  /\ cpc' = "referenced"
  /\ source' = IF exists THEN Live ELSE NoRecords
  /\ UNCHANGED <<todo, partial, index, createFrame>>

Contents == IF source = Live THEN records ELSE source

\* Manager.CreateIndex takes the manager's mutex.
StartBuild ==
  /\ cpc = "referenced"
  /\ cpc' = "building" /\ partial' = Empty
  /\ todo' = {k \in Keys : Contents[k] # Absent}
  /\ UNCHANGED <<source, index, createFrame>>

Visit(k) ==
  /\ cpc = "building" /\ k \in todo
  /\ todo' = todo \ {k}
  /\ partial' = Added(partial, Contents[k], k)
  /\ UNCHANGED <<cpc, source, index, createFrame>>

Install ==
  /\ cpc = "building" /\ todo = {}
  /\ index' = partial /\ cpc' = "idle"
  /\ source' = Live /\ partial' = Empty
  /\ UNCHANGED <<todo, createFrame>>

\* The Go runtime notices a write during the iteration.
ConcurrentMapAccess ==
  /\ cpc = "building" /\ source = Live /\ wpc = "stored"
  /\ down' = TRUE
  /\ UNCHANGED <<tableVars, index, workerVars, createVars, queryVars, history>>

CreateIndex ==
  \/ Reference \/ StartBuild \/ (\E k \in Keys : Visit(k)) \/ Install
  \/ ConcurrentMapAccess

-----------------------------------------------------------------------------
(***************************************************************************)
(* QueryByIndex, by one caller.                                            *)
(***************************************************************************)

queryFrame == <<tableVars, index, workerVars, createVars, history, down>>

\* The slice is read under the index's mutex, its elements are not.  A key
\* whose operation is under way may still be listed under its old record.
QueryStart(s) ==
  /\ "query" \in Features /\ qpc = "idle"
  /\ index # NoIndex /\ cpc # "building"
  /\ qpc' = "copying" /\ asked' = s
  /\ view' = index[s] /\ aliased' = (index[s] # <<>>) /\ result' = <<>> /\ found' = {}
  /\ steady' = {k \in Matching(s) : op # NoOp => op.key # k}
  /\ seen' = Matching(s) \cup {k \in Keys : op # NoOp /\ op.key = k /\ Matches(op.old, s)}
  /\ UNCHANGED queryFrame

\* copy(result, keys), element by element.
QueryCopy ==
  /\ qpc = "copying" /\ Len(result) < Len(view)
  /\ result' = Append(result, view[Len(result) + 1])
  /\ UNCHANGED <<qpc, view, aliased, asked, found, steady, seen, queryFrame>>

\* The look-up in db.data under RLock.
QueryLookUp ==
  /\ qpc = "copying" /\ Len(result) = Len(view) /\ wpc = "idle"
  /\ qpc' = "done"
  /\ found' = {k \in ToSet(result) : records[k] # Absent} /\ result' = <<>>
  /\ view' = <<>> /\ aliased' = FALSE
  /\ UNCHANGED <<asked, steady, seen, queryFrame>>

QueryReturn ==
  /\ qpc = "done"
  /\ qpc' = "idle" /\ found' = {} /\ steady' = {} /\ seen' = {}
  /\ UNCHANGED <<view, aliased, asked, result, queryFrame>>

Query == (\E s \in Strings : QueryStart(s)) \/ QueryCopy \/ QueryLookUp \/ QueryReturn

-----------------------------------------------------------------------------
(***************************************************************************)
(* Changes of the table that pass the index by.                            *)
(***************************************************************************)

\* load or Import: db.data is another map.
Replace(recs) ==
  /\ "replace" \in Features /\ wpc = "idle" /\ stores < MaxStores
  /\ exists' = TRUE /\ records' = recs /\ stores' = stores + 1
  /\ source' = IF cpc # "idle" /\ source = Live THEN records ELSE source
  /\ steady' = {k \in steady : records[k] = recs[k]}
  /\ seen' = seen \cup {k \in Keys : Matches(recs[k], asked)}
  /\ Bypassing
  /\ UNCHANGED <<index, workerVars, cpc, todo, partial, qpc, view, aliased, asked,
                 result, found, raced, down>>

\* CommitTransaction applies one change of a key.
Commit(k, rec) ==
  /\ "commit" \in Features /\ wpc = "idle" /\ stores < MaxStores
  /\ exists' = TRUE /\ stores' = stores + 1
  /\ records' = [records EXCEPT ![k] = rec]
  /\ Inserted(k) /\ Noted(k, rec)
  /\ Bypassing
  /\ UNCHANGED <<index, workerVars, cpc, source, partial, qpc, view, aliased, asked,
                 result, found, raced, down>>

Next ==
  /\ ~down
  /\ \/ Worker \/ CreateIndex \/ Query
     \/ \E recs \in [Keys -> Record] : Replace(recs)
     \/ \E k \in Keys, rec \in Record : Commit(k, rec)

Spec == Init /\ [][Next]_vars

-----------------------------------------------------------------------------
(***************************************************************************)
(* Properties.                                                             *)
(***************************************************************************)

\* No operation is between its store and its index update, and no index is
\* being built.
Settled == index # NoIndex /\ cpc = "idle" /\ wpc \in {"idle", "locked"}

\* CHANGELOG.md: "Index maintenance on write and delete paths so secondary
\* indexes stay consistent with data changes": under each value exactly the
\* keys whose records have it, each of them once.
IndexConsistent ==
  Settled => \A s \in Strings : /\ ToSet(index[s]) = Matching(s)
                                /\ IsInjective(index[s])

\* Batches keep the index exact, through any writes and deletes, if it was
\* built between two batches.
IndexExact == raced \/ bypassed \/ IndexConsistent

\* Every record that has the field is listed under its value.
IndexFindsAll ==
  Settled => \A s \in Strings : Matching(s) \subseteq ToSet(index[s])

\* So it is also when CreateIndex races with a batch that writes and deletes,
\* though not with one that creates the table.
IndexCovers == bypassed \/ IndexFindsAll

\* A query that races with batches, which edit the list while it copies it,
\* returns only records that matched at some time during the query.
QuerySound == raced \/ bypassed \/ (qpc = "done" => found \subseteq seen)

\* A query returns every record that matched all the time.
QueryComplete == qpc = "done" => steady \subseteq found

=============================================================================
