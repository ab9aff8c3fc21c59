--------------------------- MODULE DatabaseProofs ---------------------------
(***************************************************************************)
(* Results about db.data and its files, for every value of the constants: *)
(*  - the log and the data (LogIInv): where the log is on, replaying it    *)
(*    over any state file gives the data that callers were told, but for   *)
(*    the places that were changed without it;                             *)
(*  - type correctness (TypeIInv);                                         *)
(*  - which steps can break the dirty mark, outdate a transaction and lose *)
(*    an answered write, without any assumption.                           *)
(***************************************************************************)
EXTENDS Database, FiniteSetTheorems, SequenceTheorems, TLAPS

-----------------------------------------------------------------------------
(***************************************************************************)
(* What db.data and the state file can hold.                               *)
(***************************************************************************)

\* The sets of values, and: a watcher that has seen a change has seen a file.
Typed ==
  /\ watcher = "seen" => snapshot # NoFile
  /\ data \in Data /\ snapshot \in Data \cup {NoFile}
  /\ writeBuffer \in Seq(Ops) /\ batch \in Seq(Ops)

\* The data is never mistaken for a missing file.
LEMMA DataIsAFile == Typed => data # NoFile
  BY DatabaseAssumption DEF DatabaseAssumption, Typed

\* Storing a record in a table that exists.
LEMMA PutTyped ==
  ASSUME NEW d \in Data, NEW t \in Tables, HasTable(d, t),
         NEW k \in AllKeys, NEW u \in Vals \cup {Absent, Nil}
  PROVE  Put(d, t, k, u) \in Data
<1>1. d[t] \in Table
  BY DEF Data, HasTable
<1> DEFINE tab == [d[t] EXCEPT ![k] = u]
<1>2. tab \in Table
  BY <1>1 DEF Table
<1>3. Put(d, t, k, u) = [d EXCEPT ![t] = tab]
  BY DEF Put
<1> HIDE DEF tab
<1> QED
  BY <1>2, <1>3 DEF Data

\* Storing the records of a batch in a table that exists.
LEMMA PutAllTyped ==
  ASSUME NEW d \in Data, NEW t \in Tables, HasTable(d, t),
         NEW K \in SUBSET Keys, NEW recs \in [K -> Vals]
  PROVE  PutAll(d, t, recs) \in Data /\ HasTable(PutAll(d, t, recs), t)
<1>1. d[t] \in Table
  BY DEF Data, HasTable
<1> DEFINE tab == [k \in AllKeys |-> IF k \in DOMAIN recs THEN recs[k] ELSE d[t][k]]
<1>2. tab \in Table
  BY <1>1 DEF Table
<1>3. PutAll(d, t, recs) = [d EXCEPT ![t] = tab]
  BY DEF PutAll
<1> HIDE DEF tab
<1>4. PutAll(d, t, recs)[t] = tab
  BY <1>3 DEF Data
<1> QED
  BY <1>2, <1>3, <1>4, DatabaseAssumption DEF Data, HasTable, DatabaseAssumption

\* An empty table and an absent one are values of db.data.
LEMMA EnsureTyped ==
  ASSUME NEW d \in Data, NEW t \in Tables
  PROVE  /\ Ensure(d, t) \in Data /\ Ensure(d, t)[t] \in Table
         /\ [d EXCEPT ![t] = NoTable] \in Data
<1>1. EmptyTable \in Table
  BY DEF EmptyTable, Table
<1> QED
  BY <1>1 DEF Ensure, Data, HasTable

\* The value that a rollback stores.
LEMMA OldValTyped ==
  ASSUME data \in Data, NEW t \in Tables, HasTable(data, t), NEW k \in AllKeys
  PROVE  OldVal(t, k) \in Vals \cup {Absent, Nil}
<1>1. data[t] \in Table
  BY DEF Data, HasTable
<1> QED
  BY <1>1 DEF OldVal, Table

\* The fields of a queued operation.
LEMMA OpTyped ==
  ASSUME DatabaseAssumption, batch \in Seq(Ops), batch # <<>>
  PROVE  /\ Head(batch) \in Operation /\ Tail(batch) \in Seq(Ops)
         /\ Head(batch).table \in Tables
         /\ Head(batch).type = "write" => Head(batch).key \in Keys /\ Head(batch).val \in Vals
         /\ Head(batch).type = "delete" => Head(batch).key \in Keys
         /\ Head(batch).type = "batch" =>
              \E K \in SUBSET Keys : Head(batch).records \in [K -> Vals]
<1>1. Head(batch) \in Ops /\ Tail(batch) \in Seq(Ops)
  BY HeadTailProperties
<1>2. Head(batch) \in Operation
  BY <1>1 DEF DatabaseAssumption
<1> DEFINE op == Head(batch)
<1>3. op \in Operation
  BY <1>2
<1> HIDE DEF op
<1>4. /\ op.table \in Tables
      /\ op.type = "write" => op.key \in Keys /\ op.val \in Vals
      /\ op.type = "delete" => op.key \in Keys
      /\ op.type = "batch" => \E K \in SUBSET Keys : op.records \in [K -> Vals]
  BY <1>3 DEF Operation
<1> QED
  BY <1>1, <1>2, <1>4 DEF op

\* One operation applied by the worker: applyCreate ... applyBatch.
LEMMA ApplyTyped ==
  ASSUME Typed,
         ApplyCreate \/ NoTableError \/ ApplyWrite \/ ApplyDelete \/ ApplyRecords
  PROVE  Typed'
<1> DEFINE op == Head(batch)
           t == Head(batch).table
<1>1. batch # <<>> /\ batch \in Seq(Ops) /\ data \in Data
  BY DEF ApplyCreate, NoTableError, ApplyWrite, ApplyDelete, ApplyRecords, Next1, Typed
<1>2. t \in Tables /\ Tail(batch) \in Seq(Ops)
  BY <1>1, OpTyped, DatabaseAssumption
<1>3. /\ batch' = Tail(batch) /\ snapshot' = snapshot /\ writeBuffer' = writeBuffer
      /\ watcher' = watcher
  BY DEF ApplyCreate, NoTableError, ApplyWrite, ApplyDelete, ApplyRecords, Answer,
         queueVars, diskVars
<1>4. SUFFICES data' \in Data
  BY <1>2, <1>3 DEF Typed
<1>5. CASE ApplyCreate
  <2>1. \/ data' = [data EXCEPT ![t] = NoTable]
        \/ data' = Ensure(data, t)
    BY <1>5 DEF ApplyCreate
  <2> HIDE DEF t
  <2> QED
    BY <1>1, <1>2, <2>1, EnsureTyped
<1>6. CASE NoTableError
  BY <1>1, <1>6 DEF NoTableError
<1>7. CASE ApplyWrite
  <2>1. /\ HasTable(data, t) /\ op.key \in AllKeys
        /\ op.val \in Vals \cup {Absent, Nil}
    BY <1>1, <1>7, OpTyped, DatabaseAssumption DEF ApplyWrite, Next1, AllKeys
  <2>2. OldVal(t, op.key) \in Vals \cup {Absent, Nil}
    BY <1>1, <1>2, <2>1, OldValTyped
  <2>3. \/ data' = Put(data, t, op.key, op.val)
        \/ data' = Put(data, t, op.key, OldVal(t, op.key))
    BY <1>7 DEF ApplyWrite
  <2> HIDE DEF t, op
  <2> QED
    BY <1>1, <1>2, <2>1, <2>2, <2>3, PutTyped
<1>8. CASE ApplyDelete
  <2>1. HasTable(data, t) /\ op.key \in AllKeys
    BY <1>1, <1>8, OpTyped, DatabaseAssumption DEF ApplyDelete, Next1, AllKeys
  <2>2. OldVal(t, op.key) \in Vals \cup {Absent, Nil}
    BY <1>1, <1>2, <2>1, OldValTyped
  <2>3. \/ data' = Put(data, t, op.key, Absent)
        \/ data' = Put(data, t, op.key, OldVal(t, op.key))
    BY <1>8 DEF ApplyDelete
  <2>4. Absent \in Vals \cup {Absent, Nil}
    OBVIOUS
  <2> HIDE DEF t, op
  <2> QED
    BY <1>1, <1>2, <2>1, <2>2, <2>3, <2>4, PutTyped
<1>9. CASE ApplyRecords
  <2> DEFINE recs == Head(batch).records
             all == PutAll(data, t, recs)
  <2>1. HasTable(data, t)
    BY <1>9 DEF ApplyRecords
  <2>2. PICK K \in SUBSET Keys : recs \in [K -> Vals]
    BY <1>1, <1>9, OpTyped, DatabaseAssumption DEF ApplyRecords, Next1
  <2>3. DOMAIN recs = K
    BY <2>2
  <2> HIDE DEF t, op, recs
  <2>4. all \in Data /\ HasTable(all, t)
    BY <1>1, <1>2, <2>1, <2>2, PutAllTyped
  <2>5. PICK failed \in SUBSET K :
          \/ data' = all
          \/ \E last \in failed : data' = Put(all, t, NoKey, OldVal(t, last))
    BY <1>9, <2>3 DEF ApplyRecords, t, recs
  <2>6. CASE data' = all
    BY <2>4, <2>6
  <2>7. ASSUME NEW last \in failed, data' = Put(all, t, NoKey, OldVal(t, last))
        PROVE  data' \in Data
    <3>1. last \in AllKeys /\ NoKey \in AllKeys
      BY DEF AllKeys
    <3>2. OldVal(t, last) \in Vals \cup {Absent, Nil}
      BY <1>1, <1>2, <2>1, <3>1, OldValTyped
    <3> HIDE DEF all
    <3> QED
      BY <1>2, <2>4, <2>7, <3>1, <3>2, PutTyped
  <2> QED
    BY <2>5, <2>6, <2>7
<1> QED
  BY <1>5, <1>6, <1>7, <1>8, <1>9

\* What a commit writes.
LEMMA CommittedTyped ==
  ASSUME NEW d \in Data, NEW changes \in Changes
  PROVE  Committed(d, changes) \in Data
<1>1. PICK P \in SUBSET (Tables \X Keys) : changes \in [P -> Vals \cup {Nil}]
  BY DEF Changes
<1> DEFINE tab(t) == [k \in AllKeys |->
                        IF <<t, k>> \notin DOMAIN changes THEN Ensure(d, t)[t][k]
                        ELSE IF changes[<<t, k>>] = Nil THEN Absent ELSE changes[<<t, k>>]]
<1>2. ASSUME NEW t \in Tables PROVE tab(t) \in Table
  <2>1. Ensure(d, t)[t] \in Table
    BY EnsureTyped
  <2>2. ASSUME NEW k \in AllKeys PROVE tab(t)[k] \in Vals \cup {Absent, Nil}
    <3>1. <<t, k>> \in DOMAIN changes => changes[<<t, k>>] \in Vals \cup {Nil}
      BY <1>1
    <3>2. Ensure(d, t)[t][k] \in Vals \cup {Absent, Nil}
      BY <2>1 DEF Table
    <3> QED
      BY <3>1, <3>2
  <2> QED
    BY <2>2 DEF Table
<1>3. Committed(d, changes) =
        [t \in Tables |-> IF \E p \in DOMAIN changes : p[1] = t THEN tab(t) ELSE d[t]]
  BY DEF Committed
<1>4. ASSUME NEW t \in Tables PROVE d[t] \in Table \cup {NoTable}
  BY DEF Data
<1> HIDE DEF tab
<1> QED
  BY <1>2, <1>3, <1>4 DEF Data

\* A database starts empty.
LEMMA EmptyDataTyped == EmptyData \in Data
  BY DEF EmptyData, Data

-----------------------------------------------------------------------------
(***************************************************************************)
(* Replaying a log.  recoverFromWAL applies the entries one by one; what   *)
(* follows is by induction on the log, over a set of logs.                 *)
(***************************************************************************)

\* A set that has the empty sequence, and with a sequence all its extensions
\* by one element, has every sequence.
LEMMA SeqInduction ==
  ASSUME NEW S, NEW G, <<>> \in G,
         \A s \in Seq(S), e \in S : s \in G => Append(s, e) \in G
  PROVE  Seq(S) \subseteq G
<1> DEFINE R == {p \in Nat \X Nat : p[1] < p[2]}
           U == {n \in Nat : \E s \in Seq(S) : Len(s) = n /\ s \notin G}
<1>1. SUFFICES ASSUME NEW s \in Seq(S), s \notin G PROVE FALSE
  OBVIOUS
<1>2. U \subseteq Nat /\ U # {}
  BY <1>1, LenProperties
<1>3. PICK m \in U : \A y \in U : <<y, m>> \notin R
  <2>1. R = OpToRel(<, Nat)
    BY DEF OpToRel
  <2>2. IsWellFoundedOn(R, Nat)
    BY <2>1, NatLessThanWellFounded
  <2> HIDE DEF R, U
  <2> QED
    BY <1>2, <2>2, WFMin
<1>4. PICK u \in Seq(S) : Len(u) = m /\ u \notin G
  OBVIOUS
<1>5. PICK w \in Seq(S), e \in S : u = Append(w, e)
  BY <1>4, SequenceEmptyOrAppend
<1>6. w \notin G
  BY <1>4, <1>5
<1>7. Len(w) \in Nat /\ m = Len(w) + 1
  BY <1>4, <1>5, AppendProperties, LenProperties
<1>8. <<Len(w), m>> \in R /\ Len(w) \in U
  BY <1>6, <1>7
<1> QED
  BY <1>3, <1>8

\* f holds the states that replaying a log goes through.
Run(d, log, f) ==
  f = [n \in 0 .. Len(log) |-> IF n = 0 THEN d ELSE Replay1(f[n - 1], log[n])]

\* The states of a replay up to some entry are those of a replay of what is
\* before it.
LEMMA RunPrefix ==
  ASSUME NEW log \in Seq(Entry), NEW e \in Entry, NEW d, NEW f,
         Run(d, Append(log, e), f)
  PROVE  /\ Run(d, log, [n \in 0 .. Len(log) |-> f[n]])
         /\ f[Len(log) + 1] = Replay1(f[Len(log)], e)
<1> DEFINE long == Append(log, e)
           n1 == Len(log)
<1>1. /\ n1 \in Nat /\ Len(long) = n1 + 1 /\ long[n1 + 1] = e
      /\ \A i \in 1 .. n1 : long[i] = log[i]
  BY AppendProperties, LenProperties
<1> HIDE DEF n1
<1>2. \A n \in 0 .. n1 + 1 : f[n] = IF n = 0 THEN d ELSE Replay1(f[n - 1], long[n])
  BY <1>1 DEF Run
<1> HIDE DEF long
<1> DEFINE g == [n \in 0 .. n1 |-> f[n]]
<1>3. ASSUME NEW n \in 0 .. n1
      PROVE  f[n] = IF n = 0 THEN d ELSE Replay1(g[n - 1], log[n])
  <2>1. CASE n = 0
    BY <1>1, <1>2, <2>1
  <2>2. CASE n # 0
    <3>1. n \in 1 .. n1 /\ n - 1 \in 0 .. n1 /\ n \in 0 .. n1 + 1
      BY <1>1, <2>2
    <3>2. g[n - 1] = f[n - 1] /\ long[n] = log[n]
      BY <1>1, <3>1
    <3>3. f[n] = Replay1(f[n - 1], long[n])
      BY <1>2, <2>2, <3>1
    <3> QED
      BY <2>2, <3>2, <3>3
  <2> QED
    BY <2>1, <2>2
<1>4. g = [n \in 0 .. n1 |-> IF n = 0 THEN d ELSE Replay1(g[n - 1], log[n])]
  BY <1>3
<1>5. f[n1 + 1] = Replay1(f[n1], e)
  <2>1. n1 + 1 \in 0 .. n1 + 1 /\ n1 + 1 # 0 /\ (n1 + 1) - 1 = n1
    BY <1>1
  <2> QED
    BY <1>1, <1>2, <2>1
<1> QED
  BY <1>4, <1>5 DEF Run, n1

\* A replay of a log and one more entry, from a replay of the log.
LEMMA RunExtended ==
  ASSUME NEW log \in Seq(Entry), NEW e \in Entry, NEW d, NEW f, Run(d, log, f)
  PROVE  Run(d, Append(log, e),
             [n \in 0 .. Len(log) + 1 |->
                IF n <= Len(log) THEN f[n] ELSE Replay1(f[Len(log)], e)])
<1> DEFINE long == Append(log, e)
           n1 == Len(log)
<1>1. /\ n1 \in Nat /\ Len(long) = n1 + 1 /\ long[n1 + 1] = e
      /\ \A i \in 1 .. n1 : long[i] = log[i]
  BY AppendProperties, LenProperties
<1> HIDE DEF n1
<1>2. \A n \in 0 .. n1 : f[n] = IF n = 0 THEN d ELSE Replay1(f[n - 1], log[n])
  BY <1>1 DEF Run, n1
<1> HIDE DEF long
<1> DEFINE g == [n \in 0 .. n1 + 1 |-> IF n <= n1 THEN f[n] ELSE Replay1(f[n1], e)]
<1>3. ASSUME NEW n \in 0 .. n1 + 1
      PROVE  g[n] = IF n = 0 THEN d ELSE Replay1(g[n - 1], long[n])
  <2>1. CASE n = 0
    BY <1>1, <1>2, <2>1
  <2>2. CASE n \in 1 .. n1
    <3>1. n # 0 /\ n - 1 \in 0 .. n1 + 1 /\ n - 1 <= n1 /\ n \in 0 .. n1 /\ n <= n1
      BY <1>1, <2>2
    <3>2. g[n - 1] = f[n - 1] /\ long[n] = log[n] /\ g[n] = f[n]
      BY <1>1, <2>2, <3>1
    <3>3. f[n] = Replay1(f[n - 1], log[n])
      BY <1>2, <3>1
    <3> QED
      BY <3>1, <3>2, <3>3
  <2>3. CASE n = n1 + 1
    <3>1. n # 0 /\ n - 1 = n1 /\ n1 \in 0 .. n1 + 1 /\ ~(n <= n1)
      BY <1>1, <2>3
    <3>2. g[n - 1] = f[n1] /\ g[n] = Replay1(f[n1], e)
      BY <3>1
    <3> HIDE DEF g
    <3> QED
      BY <1>1, <2>3, <3>1, <3>2
  <2> QED
    BY <1>1, <2>1, <2>2, <2>3
<1>4. g = [n \in 0 .. Len(long) |-> IF n = 0 THEN d ELSE Replay1(g[n - 1], long[n])]
  BY <1>1, <1>3
<1> QED
  BY <1>4 DEF Run, long, n1

\* Every log can be replayed, and in one way.
LEMMA RunExists ==
  ASSUME NEW d
  PROVE  \A log \in Seq(Entry) : /\ \E f : Run(d, log, f)
                                 /\ \A f, g : Run(d, log, f) /\ Run(d, log, g) =>
                                      f[Len(log)] = g[Len(log)]
<1> DEFINE G == {log \in Seq(Entry) :
                   /\ \E f : Run(d, log, f)
                   /\ \A f, g : Run(d, log, f) /\ Run(d, log, g) => f[Len(log)] = g[Len(log)]}
<1>1. <<>> \in G
  <2>1. Run(d, <<>>, [n \in 0 .. 0 |-> d])
    BY DEF Run
  <2>2. ASSUME NEW f, Run(d, <<>>, f) PROVE f[0] = d
    BY <2>2 DEF Run
  <2> QED
    BY <2>1, <2>2
<1>2. ASSUME NEW log \in Seq(Entry), NEW e \in Entry, log \in G
      PROVE  Append(log, e) \in G
  <2>1. Append(log, e) \in Seq(Entry) /\ Len(Append(log, e)) = Len(log) + 1 /\ Len(log) \in Nat
    BY AppendProperties, LenProperties
  <2>2. \E f : Run(d, Append(log, e), f)
    BY <1>2, RunExtended
  <2>3. ASSUME NEW f, NEW g, Run(d, Append(log, e), f), Run(d, Append(log, e), g)
        PROVE  f[Len(log) + 1] = g[Len(log) + 1]
    <3> DEFINE f0 == [n \in 0 .. Len(log) |-> f[n]]
               g0 == [n \in 0 .. Len(log) |-> g[n]]
    <3>1. /\ Run(d, log, f0) /\ f[Len(log) + 1] = Replay1(f[Len(log)], e)
          /\ Run(d, log, g0) /\ g[Len(log) + 1] = Replay1(g[Len(log)], e)
      BY <2>3, RunPrefix
    <3>2. f0[Len(log)] = f[Len(log)] /\ g0[Len(log)] = g[Len(log)]
      BY <2>1
    <3> HIDE DEF f0, g0
    <3>3. f0[Len(log)] = g0[Len(log)]
      BY <1>2, <3>1
    <3> QED
      BY <3>1, <3>2, <3>3
  <2> QED
    BY <2>1, <2>2, <2>3
<1> HIDE DEF G
<1>3. Seq(Entry) \subseteq G
  BY <1>1, <1>2, SeqInduction
<1> QED
  BY <1>3 DEF G

\* What recoverFromWAL computes is the last of those states.
LEMMA ReplayIsLast ==
  ASSUME NEW d, NEW log \in Seq(Entry), NEW f, Run(d, log, f)
  PROVE  Replay(d, log) = f[Len(log)]
<1> DEFINE g == CHOOSE g : Run(d, log, g)
<1>1. Run(d, log, g)
  BY Zenon
<1>2. Replay(d, log) = g[Len(log)]
  BY Zenon DEF Replay, Run
<1> QED
  BY <1>1, <1>2, RunExists

\* Replaying the empty log.
LEMMA ReplayEmpty == ASSUME NEW d PROVE Replay(d, <<>>) = d
<1>1. Run(d, <<>>, [n \in 0 .. 0 |-> d])
  BY DEF Run
<1>2. <<>> \in Seq(Entry) /\ Len(<<>>) = 0
  OBVIOUS
<1>3. Replay(d, <<>>) = [n \in 0 .. 0 |-> d][0]
  BY <1>1, <1>2, ReplayIsLast
<1> QED
  BY <1>3

\* Replaying a log and one more entry.
LEMMA ReplayAppend ==
  ASSUME NEW d, NEW log \in Seq(Entry), NEW e \in Entry
  PROVE  Replay(d, Append(log, e)) = Replay1(Replay(d, log), e)
<1>1. PICK f : Run(d, log, f)
  BY RunExists
<1> DEFINE g == [n \in 0 .. Len(log) + 1 |->
                   IF n <= Len(log) THEN f[n] ELSE Replay1(f[Len(log)], e)]
<1>2. /\ Append(log, e) \in Seq(Entry) /\ Len(Append(log, e)) = Len(log) + 1
      /\ Len(log) \in Nat
  BY AppendProperties, LenProperties
<1>3. Run(d, Append(log, e), g)
  BY <1>1, RunExtended
<1>4. g[Len(log) + 1] = Replay1(f[Len(log)], e)
  <2>1. Len(log) + 1 \in 0 .. Len(log) + 1 /\ ~(Len(log) + 1 <= Len(log))
    BY <1>2
  <2> QED
    BY <2>1
<1> HIDE DEF g
<1>5. Replay(d, Append(log, e)) = g[Len(log) + 1]
  BY <1>2, <1>3, ReplayIsLast
<1>6. Replay(d, log) = f[Len(log)]
  BY <1>1, ReplayIsLast
<1> QED
  BY <1>4, <1>5, <1>6

-----------------------------------------------------------------------------
(***************************************************************************)
(* What the operations and the entries do, seen through Look and HasTable. *)
(***************************************************************************)

\* A place where a table is.
LEMMA PlaceIs ==
  ASSUME NEW p \in Places
  PROVE  p[1] \in Tables /\ p[2] \in AllKeys /\ p = <<p[1], p[2]>>
  BY DEF Places

\* Creating a table shows nowhere.
LEMMA EnsureShows ==
  ASSUME NEW d \in Data, NEW t \in Tables
  PROVE  /\ Ensure(d, t) \in Data
         /\ \A p \in Places : Look(Ensure(d, t), p) = Look(d, p)
         /\ \A s \in Tables : HasTable(Ensure(d, t), s) <=> s = t \/ HasTable(d, s)
<1>1. Ensure(d, t) \in Data /\ Ensure(d, t)[t] \in Table
  BY EnsureTyped
<1>2. HasTable(Ensure(d, t), t)
  BY <1>1, DatabaseAssumption DEF DatabaseAssumption, HasTable
<1>3. ASSUME NEW s \in Tables, s # t
      PROVE  Ensure(d, t)[s] = d[s]
  BY <1>3 DEF Ensure, Data
<1>4. ~HasTable(d, t) => \A k \in AllKeys : Ensure(d, t)[t][k] = Absent
  BY DEF Ensure, Data, EmptyTable
<1>5. HasTable(d, t) => Ensure(d, t) = d
  BY DEF Ensure
<1>6. ASSUME NEW p \in Places
      PROVE  Look(Ensure(d, t), p) = Look(d, p)
  BY <1>2, <1>3, <1>4, <1>5, PlaceIs DEF Look, HasTable
<1> QED
  BY <1>1, <1>2, <1>3, <1>6 DEF HasTable

\* Storing a record shows where it is stored.
LEMMA PutShows ==
  ASSUME NEW d \in Data, NEW t \in Tables, HasTable(d, t),
         NEW k \in AllKeys, NEW u \in Vals \cup {Absent, Nil}
  PROVE  /\ Put(d, t, k, u) \in Data
         /\ \A p \in Places : Look(Put(d, t, k, u), p) = IF p = <<t, k>> THEN u ELSE Look(d, p)
         /\ \A s \in Tables : HasTable(Put(d, t, k, u), s) <=> HasTable(d, s)
<1> DEFINE tab == [d[t] EXCEPT ![k] = u]
<1>1. d[t] \in Table
  BY DEF Data, HasTable
<1>2. tab \in Table /\ \A x \in AllKeys : tab[x] = IF x = k THEN u ELSE d[t][x]
  BY <1>1 DEF Table
<1>3. Put(d, t, k, u) = [d EXCEPT ![t] = tab]
  BY DEF Put
<1> HIDE DEF tab
<1>4. \A s \in Tables : Put(d, t, k, u)[s] = IF s = t THEN tab ELSE d[s]
  BY <1>3 DEF Data
<1>5. tab # NoTable
  BY <1>2, DatabaseAssumption DEF DatabaseAssumption
<1>6. \A s \in Tables : HasTable(Put(d, t, k, u), s) <=> HasTable(d, s)
  BY <1>4, <1>5 DEF HasTable
<1>7. ASSUME NEW p \in Places
      PROVE  Look(Put(d, t, k, u), p) = IF p = <<t, k>> THEN u ELSE Look(d, p)
  <2>1. p[1] \in Tables /\ p[2] \in AllKeys /\ p = <<p[1], p[2]>>
    BY PlaceIs
  <2>2. CASE p[1] = t
    BY <1>2, <1>4, <1>6, <2>1, <2>2 DEF Look, HasTable
  <2>3. CASE p[1] # t
    BY <1>4, <1>6, <2>1, <2>3 DEF Look, HasTable
  <2> QED
    BY <2>2, <2>3
<1> QED
  BY PutTyped, <1>6, <1>7

\* So does storing the records of a batch.
LEMMA PutAllShows ==
  ASSUME NEW d \in Data, NEW t \in Tables, HasTable(d, t),
         NEW K \in SUBSET Keys, NEW recs \in [K -> Vals]
  PROVE  /\ PutAll(d, t, recs) \in Data
         /\ \A p \in Places : Look(PutAll(d, t, recs), p) =
              IF p[1] = t /\ p[2] \in K THEN recs[p[2]] ELSE Look(d, p)
         /\ \A s \in Tables : HasTable(PutAll(d, t, recs), s) <=> HasTable(d, s)
<1> DEFINE tab == [k \in AllKeys |-> IF k \in DOMAIN recs THEN recs[k] ELSE d[t][k]]
<1>1. PutAll(d, t, recs) \in Data /\ HasTable(PutAll(d, t, recs), t)
  BY PutAllTyped
<1>2. \A x \in AllKeys : tab[x] = IF x \in K THEN recs[x] ELSE d[t][x]
  OBVIOUS
<1>3. PutAll(d, t, recs) = [d EXCEPT ![t] = tab]
  BY DEF PutAll
<1> HIDE DEF tab
<1>4. \A s \in Tables : PutAll(d, t, recs)[s] = IF s = t THEN tab ELSE d[s]
  BY <1>3 DEF Data
<1>5. \A s \in Tables : HasTable(PutAll(d, t, recs), s) <=> HasTable(d, s)
  BY <1>1, <1>4 DEF HasTable
<1>6. ASSUME NEW p \in Places
      PROVE  Look(PutAll(d, t, recs), p) =
               IF p[1] = t /\ p[2] \in K THEN recs[p[2]] ELSE Look(d, p)
  <2>1. p[1] \in Tables /\ p[2] \in AllKeys
    BY PlaceIs
  <2>2. CASE p[1] = t
    BY <1>1, <1>2, <1>4, <2>1, <2>2 DEF Look, HasTable
  <2>3. CASE p[1] # t
    BY <1>4, <1>5, <2>1, <2>3 DEF Look, HasTable
  <2> QED
    BY <2>2, <2>3
<1> QED
  BY <1>1, <1>5, <1>6

\* applyWALEntry, by type of entry.
LEMMA Replay1Is ==
  ASSUME NEW d, NEW e
  PROVE  /\ e.type = "create" => Replay1(d, e) = Ensure(d, e.table)
         /\ e.type = "write" => Replay1(d, e) = Put(Ensure(d, e.table), e.table, e.key, e.val)
         /\ e.type = "delete" => Replay1(d, e) =
              IF HasTable(d, e.table) THEN Put(d, e.table, e.key, Absent) ELSE d
<1>1. "create" # "write" /\ "create" # "delete" /\ "write" # "delete"
  OBVIOUS
<1> QED
  BY <1>1, Zenon DEF Replay1

\* What each entry shows.
LEMMA CreateShows ==
  ASSUME NEW d \in Data, NEW e \in Entry, e.type = "create"
  PROVE  /\ Replay1(d, e) \in Data
         /\ \A p \in Places : Look(Replay1(d, e), p) = Look(d, p)
         /\ \A s \in Tables : HasTable(Replay1(d, e), s) <=> s = e.table \/ HasTable(d, s)
<1>1. e.table \in Tables /\ Replay1(d, e) = Ensure(d, e.table)
  BY Replay1Is DEF Entry
<1> QED
  BY <1>1, EnsureShows

\* A write shows at its place,
LEMMA WriteShows ==
  ASSUME NEW d \in Data, NEW e \in Entry, e.type = "write"
  PROVE  /\ Replay1(d, e) \in Data
         /\ \A p \in Places : Look(Replay1(d, e), p) =
              IF p = <<e.table, e.key>> THEN e.val ELSE Look(d, p)
         /\ \A s \in Tables : HasTable(Replay1(d, e), s) <=> s = e.table \/ HasTable(d, s)
<1>1. e.table \in Tables /\ e.key \in Keys /\ e.val \in Vals
  BY DEF Entry
<1>2. Replay1(d, e) = Put(Ensure(d, e.table), e.table, e.key, e.val)
  BY Replay1Is
<1> DEFINE d1 == Ensure(d, e.table)
<1>3. /\ d1 \in Data /\ HasTable(d1, e.table)
      /\ \A p \in Places : Look(d1, p) = Look(d, p)
      /\ \A s \in Tables : HasTable(d1, s) <=> s = e.table \/ HasTable(d, s)
  BY <1>1, EnsureShows
<1> HIDE DEF d1
<1>4. e.key \in AllKeys /\ e.val \in Vals \cup {Absent, Nil}
  BY <1>1 DEF AllKeys
<1>5. /\ Put(d1, e.table, e.key, e.val) \in Data
      /\ \A p \in Places : Look(Put(d1, e.table, e.key, e.val), p) =
           IF p = <<e.table, e.key>> THEN e.val ELSE Look(d1, p)
      /\ \A s \in Tables : HasTable(Put(d1, e.table, e.key, e.val), s) <=> HasTable(d1, s)
  BY <1>1, <1>3, <1>4, PutShows
<1> QED
  BY <1>2, <1>3, <1>5 DEF d1

\* and a deletion.
LEMMA DeleteShows ==
  ASSUME NEW d \in Data, NEW e \in Entry, e.type = "delete"
  PROVE  /\ Replay1(d, e) \in Data
         /\ \A p \in Places : Look(Replay1(d, e), p) =
              IF p = <<e.table, e.key>> THEN Absent ELSE Look(d, p)
         /\ \A s \in Tables : HasTable(Replay1(d, e), s) <=> HasTable(d, s)
<1>1. e.table \in Tables /\ e.key \in AllKeys /\ Absent \in Vals \cup {Absent, Nil}
  BY DEF Entry, AllKeys
<1>2. CASE HasTable(d, e.table)
  <2>1. Replay1(d, e) = Put(d, e.table, e.key, Absent)
    BY <1>2, Replay1Is
  <2> QED
    BY <1>1, <1>2, <2>1, PutShows
<1>3. CASE ~HasTable(d, e.table)
  <2>1. Replay1(d, e) = d
    BY <1>3, Replay1Is
  <2>2. Look(d, <<e.table, e.key>>) = Absent
    BY <1>3 DEF Look
  <2> QED
    BY <2>1, <2>2
<1> QED
  BY <1>2, <1>3

\* An entry either leaves what is at a place, or sets it to something that
\* does not depend on the state; and a table stays as it is, or is there.
LEMMA EntryEffect ==
  ASSUME NEW e \in Entry
  PROVE  /\ \A d \in Data : Replay1(d, e) \in Data
         /\ \A p \in Places :
              \/ \A d \in Data : Look(Replay1(d, e), p) = Look(d, p)
              \/ \A d, f \in Data : Look(Replay1(d, e), p) = Look(Replay1(f, e), p)
         /\ \A t \in Tables :
              \/ \A d \in Data : HasTable(Replay1(d, e), t) <=> HasTable(d, t)
              \/ \A d \in Data : HasTable(Replay1(d, e), t)
<1>1. e.type \in {"create", "write", "delete"}
  BY DEF Entry
<1>2. CASE e.type = "create"
  BY <1>2, CreateShows
<1>3. CASE e.type = "write"
  BY <1>3, WriteShows
<1>4. CASE e.type = "delete"
  BY <1>4, DeleteShows
<1> QED
  BY <1>1, <1>2, <1>3, <1>4

\* The same of a log.
LogLeaves(log, p) == \A d \in Data : Look(Replay(d, log), p) = Look(d, p)
LogSets(log, p) == \A d, f \in Data : Look(Replay(d, log), p) = Look(Replay(f, log), p)
LogLeavesTable(log, t) == \A d \in Data : HasTable(Replay(d, log), t) <=> HasTable(d, t)
LogMakesTable(log, t) == \A d \in Data : HasTable(Replay(d, log), t)

\* A log has one of these effects at each place and on each table.
LEMMA LogEffect ==
  \A log \in Seq(Entry) :
    /\ \A d \in Data : Replay(d, log) \in Data
    /\ \A p \in Places : LogLeaves(log, p) \/ LogSets(log, p)
    /\ \A t \in Tables : LogLeavesTable(log, t) \/ LogMakesTable(log, t)
<1> DEFINE G == {log \in Seq(Entry) :
                   /\ \A d \in Data : Replay(d, log) \in Data
                   /\ \A p \in Places : LogLeaves(log, p) \/ LogSets(log, p)
                   /\ \A t \in Tables : LogLeavesTable(log, t) \/ LogMakesTable(log, t)}
<1>1. <<>> \in G
  BY ReplayEmpty DEF LogLeaves, LogLeavesTable
<1>2. ASSUME NEW log \in Seq(Entry), NEW e \in Entry, log \in G
      PROVE  Append(log, e) \in G
  <2> DEFINE long == Append(log, e)
  <2>1. /\ \A d \in Data : Replay(d, log) \in Data
        /\ \A p \in Places : LogLeaves(log, p) \/ LogSets(log, p)
        /\ \A t \in Tables : LogLeavesTable(log, t) \/ LogMakesTable(log, t)
    BY <1>2
  <2>2. long \in Seq(Entry) /\ \A d \in Data : Replay(d, long) = Replay1(Replay(d, log), e)
    BY ReplayAppend
  <2> HIDE DEF long
  <2>3. \A d \in Data : Replay(d, long) \in Data
    BY <2>1, <2>2, EntryEffect
  <2>4. ASSUME NEW p \in Places
        PROVE  LogLeaves(long, p) \/ LogSets(long, p)
    <3>1. CASE \A d \in Data : Look(Replay1(d, e), p) = Look(d, p)
      BY <2>1, <2>2, <3>1 DEF LogLeaves, LogSets
    <3>2. CASE \A d, f \in Data : Look(Replay1(d, e), p) = Look(Replay1(f, e), p)
      BY <2>1, <2>2, <3>2 DEF LogSets
    <3> QED
      BY <3>1, <3>2, EntryEffect
  <2>5. ASSUME NEW t \in Tables
        PROVE  LogLeavesTable(long, t) \/ LogMakesTable(long, t)
    <3>1. CASE \A d \in Data : HasTable(Replay1(d, e), t) <=> HasTable(d, t)
      BY <2>1, <2>2, <3>1 DEF LogLeavesTable, LogMakesTable
    <3>2. CASE \A d \in Data : HasTable(Replay1(d, e), t)
      BY <2>1, <2>2, <3>2 DEF LogMakesTable
    <3> QED
      BY <3>1, <3>2, EntryEffect
  <2> QED
    BY <2>2, <2>3, <2>4, <2>5 DEF long
<1> HIDE DEF G
<1>3. Seq(Entry) \subseteq G
  BY <1>1, <1>2, SeqInduction
<1> QED
  BY <1>3 DEF G

\* What a replay makes of a place depends on nothing but that place.
LEMMA ReplayLocal ==
  ASSUME NEW d \in Data, NEW f \in Data, NEW log \in Seq(Entry)
  PROVE  /\ \A p \in Places : Look(d, p) = Look(f, p) =>
              Look(Replay(d, log), p) = Look(Replay(f, log), p)
         /\ \A t \in Tables : (HasTable(d, t) <=> HasTable(f, t)) =>
              (HasTable(Replay(d, log), t) <=> HasTable(Replay(f, log), t))
  BY LogEffect DEF LogLeaves, LogSets, LogLeavesTable, LogMakesTable

\* A log that has been replayed can be replayed again.
LEMMA ReplayTwice ==
  ASSUME NEW d \in Data, NEW log \in Seq(Entry)
  PROVE  /\ \A p \in Places : Look(Replay(Replay(d, log), log), p) = Look(Replay(d, log), p)
         /\ \A t \in Tables :
              HasTable(Replay(Replay(d, log), log), t) <=> HasTable(Replay(d, log), t)
<1>1. Replay(d, log) \in Data
  BY LogEffect
<1> QED
  BY <1>1, LogEffect DEF LogLeaves, LogSets, LogLeavesTable, LogMakesTable

\* A log in two parts is replayed one part after the other.
LEMMA ReplayConcat ==
  ASSUME NEW d, NEW log \in Seq(Entry)
  PROVE  \A more \in Seq(Entry) : Replay(d, log \o more) = Replay(Replay(d, log), more)
<1> DEFINE G == {more \in Seq(Entry) : Replay(d, log \o more) = Replay(Replay(d, log), more)}
<1>1. <<>> \in G
  BY ReplayEmpty, ConcatEmptySeq
<1>2. ASSUME NEW more \in Seq(Entry), NEW e \in Entry, more \in G
      PROVE  Append(more, e) \in G
  <2>1. Append(more, e) \in Seq(Entry) /\ log \o more \in Seq(Entry)
    BY AppendProperties, ConcatProperties
  <2>2. log \o Append(more, e) = Append(log \o more, e)
    <3>1. <<e>> \in Seq(Entry)
      OBVIOUS
    <3>2. Append(more, e) = more \o <<e>> /\ Append(log \o more, e) = (log \o more) \o <<e>>
      BY <2>1, AppendIsConcat
    <3> QED
      BY <3>1, <3>2, ConcatAssociative
  <2>3. Replay(d, log \o Append(more, e)) = Replay1(Replay(d, log \o more), e)
    BY <2>1, <2>2, ReplayAppend
  <2>4. Replay(Replay(d, log), Append(more, e)) = Replay1(Replay(Replay(d, log), more), e)
    BY ReplayAppend
  <2> QED
    BY <1>2, <2>1, <2>3, <2>4
<1> HIDE DEF G
<1>3. Seq(Entry) \subseteq G
  BY <1>1, <1>2, SeqInduction
<1> QED
  BY <1>3 DEF G

\* One entry as a log.
LEMMA ReplaySingle ==
  ASSUME NEW d, NEW e \in Entry
  PROVE  <<e>> \in Seq(Entry) /\ Replay(d, <<e>>) = Replay1(d, e)
<1>1. <<>> \in Seq(Entry) /\ <<e>> = Append(<<>>, e) /\ <<e>> \in Seq(Entry)
  OBVIOUS
<1>2. Replay(d, Append(<<>>, e)) = Replay1(Replay(d, <<>>), e)
  BY <1>1, ReplayAppend
<1> QED
  BY <1>1, <1>2, ReplayEmpty

\* What each type of operation announces.
LEMMA AnnouncedIs ==
  ASSUME NEW d, NEW op
  PROVE  /\ op.type = "create" => Announced(d, op) = Ensure(d, op.table)
         /\ op.type = "write" =>
              Announced(d, op) = Put(Ensure(d, op.table), op.table, op.key, op.val)
         /\ op.type = "delete" =>
              Announced(d, op) = Put(Ensure(d, op.table), op.table, op.key, Absent)
         /\ op.type = "batch" =>
              Announced(d, op) = PutAll(Ensure(d, op.table), op.table, op.records)
<1>1. /\ "create" # "write" /\ "create" # "delete" /\ "create" # "batch"
      /\ "write" # "delete" /\ "write" # "batch" /\ "delete" # "batch"
  OBVIOUS
<1> QED
  BY <1>1, Zenon DEF Announced

\* What an operation announces shows where it writes.
LEMMA AnnouncedShows ==
  ASSUME NEW op \in Operation, NEW d \in Data
  PROVE  /\ Announced(d, op) \in Data
         /\ op.type = "create" => \A p \in Places : Look(Announced(d, op), p) = Look(d, p)
         /\ op.type = "write" => \A p \in Places : Look(Announced(d, op), p) =
              IF p = <<op.table, op.key>> THEN op.val ELSE Look(d, p)
         /\ op.type = "delete" => \A p \in Places : Look(Announced(d, op), p) =
              IF p = <<op.table, op.key>> THEN Absent ELSE Look(d, p)
         /\ op.type = "batch" => \A p \in Places : Look(Announced(d, op), p) =
              IF p[1] = op.table /\ p[2] \in DOMAIN op.records
                THEN op.records[p[2]] ELSE Look(d, p)
         /\ \A s \in Tables : HasTable(Announced(d, op), s) <=> s = op.table \/ HasTable(d, s)
<1> DEFINE t == op.table
           d1 == Ensure(d, t)
<1>1. t \in Tables /\ op.type \in {"create", "write", "delete", "batch"}
  BY DEF Operation
<1>2. /\ d1 \in Data /\ HasTable(d1, t)
      /\ \A p \in Places : Look(d1, p) = Look(d, p)
      /\ \A s \in Tables : HasTable(d1, s) <=> s = t \/ HasTable(d, s)
  BY <1>1, EnsureShows
<1>3. CASE op.type = "create"
  BY <1>2, <1>3, AnnouncedIs
<1>4. CASE op.type \in {"write", "delete"}
  <2> DEFINE k == op.key
             u == IF op.type = "write" THEN op.val ELSE Absent
  <2>1. Announced(d, op) = Put(d1, t, k, u)
    BY <1>4, AnnouncedIs
  <2>2. k \in AllKeys /\ u \in Vals \cup {Absent, Nil}
    BY <1>4 DEF AllKeys, Operation
  <2> HIDE DEF t, d1, k, u
  <2>3. /\ Put(d1, t, k, u) \in Data
        /\ \A p \in Places : Look(Put(d1, t, k, u), p) = IF p = <<t, k>> THEN u ELSE Look(d1, p)
        /\ \A s \in Tables : HasTable(Put(d1, t, k, u), s) <=> HasTable(d1, s)
    BY <1>1, <1>2, <2>2, PutShows
  <2> QED
    BY <1>2, <1>4, <2>1, <2>3 DEF t, k, u
<1>5. CASE op.type = "batch"
  <2> DEFINE recs == op.records
  <2>1. Announced(d, op) = PutAll(d1, t, recs)
    BY <1>5, AnnouncedIs
  <2>2. PICK K \in SUBSET Keys : recs \in [K -> Vals]
    BY <1>5 DEF Operation
  <2> HIDE DEF t, d1, recs
  <2>3. /\ PutAll(d1, t, recs) \in Data
        /\ \A p \in Places : Look(PutAll(d1, t, recs), p) =
             IF p[1] = t /\ p[2] \in K THEN recs[p[2]] ELSE Look(d1, p)
        /\ \A s \in Tables : HasTable(PutAll(d1, t, recs), s) <=> HasTable(d1, s)
    BY <1>1, <1>2, <2>2, PutAllShows
  <2>4. DOMAIN recs = K
    BY <2>2
  <2> QED
    BY <1>2, <1>5, <2>1, <2>3, <2>4 DEF t, recs
<1> QED
  BY <1>1, <1>3, <1>4, <1>5

\* What a commit shows outside its changes.
LEMMA CommittedShows ==
  ASSUME NEW d \in Data, NEW changes \in Changes
  PROVE  /\ \A p \in Places \ DOMAIN changes : Look(Committed(d, changes), p) = Look(d, p)
         /\ \A t \in Tables : (\A p \in DOMAIN changes : p[1] # t) =>
              (HasTable(Committed(d, changes), t) <=> HasTable(d, t))
<1> DEFINE tab(t) == [k \in AllKeys |->
                        IF <<t, k>> \notin DOMAIN changes THEN Ensure(d, t)[t][k]
                        ELSE IF changes[<<t, k>>] = Nil THEN Absent ELSE changes[<<t, k>>]]
           written(t) == \E p \in DOMAIN changes : p[1] = t
<1>1. \A t \in Tables : Committed(d, changes)[t] = IF written(t) THEN tab(t) ELSE d[t]
  BY DEF Committed
<1>2. \A t \in Tables, k \in AllKeys : <<t, k>> \notin DOMAIN changes =>
        tab(t)[k] = Ensure(d, t)[t][k]
  OBVIOUS
<1>3. \A t \in Tables : written(t) => HasTable(Committed(d, changes), t)
  <2> SUFFICES ASSUME NEW t \in Tables, written(t)
               PROVE  tab(t) # NoTable
    BY <1>1 DEF HasTable
  <2>1. Committed(d, changes)[t] \in Table \cup {NoTable}
    BY CommittedTyped DEF Data
  <2>2. DOMAIN tab(t) = AllKeys
    OBVIOUS
  <2>3. tab(t) \in Table
    <3>1. Ensure(d, t)[t] \in Table
      BY EnsureTyped
    <3>2. PICK P \in SUBSET (Tables \X Keys) : changes \in [P -> Vals \cup {Nil}]
      BY DEF Changes
    <3>3. ASSUME NEW k \in AllKeys PROVE tab(t)[k] \in Vals \cup {Absent, Nil}
      BY <3>1, <3>2 DEF Table
    <3> HIDE DEF written
    <3> QED
      BY <3>3 DEF Table
  <2> QED
    BY <2>3, DatabaseAssumption DEF DatabaseAssumption
<1> HIDE DEF tab
<1>4. ASSUME NEW p \in Places, p \notin DOMAIN changes
      PROVE  Look(Committed(d, changes), p) = Look(d, p)
  <2>1. p[1] \in Tables /\ p[2] \in AllKeys /\ p = <<p[1], p[2]>>
    BY PlaceIs
  <2>2. CASE written(p[1])
    <3>1. HasTable(Committed(d, changes), p[1])
      BY <1>3, <2>1, <2>2
    <3>2. tab(p[1])[p[2]] = Ensure(d, p[1])[p[1]][p[2]]
      BY <1>2, <1>4, <2>1
    <3>3. Look(Committed(d, changes), p) = Ensure(d, p[1])[p[1]][p[2]]
      BY <1>1, <2>1, <2>2, <3>1, <3>2 DEF Look
    <3>4. Look(Ensure(d, p[1]), p) = Look(d, p) /\ HasTable(Ensure(d, p[1]), p[1])
      BY <2>1, EnsureShows
    <3> QED
      BY <3>3, <3>4 DEF Look
  <2>3. CASE ~written(p[1])
    BY <1>1, <2>1, <2>3 DEF Look, HasTable
  <2> QED
    BY <2>2, <2>3
<1> QED
  BY <1>1, <1>4 DEF HasTable

-----------------------------------------------------------------------------
(***************************************************************************)
(* Every step keeps the values in their sets.                              *)
(***************************************************************************)

\* A restart replays a log of entries, if any.
LEMMA NextTyped ==
  ASSUME WALEnabled => walFile \in Seq(Entry), Typed, [Next]_vars
  PROVE  Typed'
<1>0. data # NoFile
  BY DataIsAFile
<1>1. ASSUME NEW op \in Ops, Submit(op)
      PROVE  Typed'
  BY <1>1, AppendProperties DEF Submit, Typed, dataVars, batchVars, diskVars
<1>2. CASE Worker
  <2>1. CASE TakeBatch
    <3>1. PICK n \in 1 .. Len(writeBuffer) :
             /\ batch' = SubSeq(writeBuffer, 1, n)
             /\ writeBuffer' = SubSeq(writeBuffer, n + 1, Len(writeBuffer))
      BY <2>1 DEF TakeBatch
    <3>2. writeBuffer \in Seq(Ops)
      BY DEF Typed
    <3>3. batch' \in Seq(Ops) /\ writeBuffer' \in Seq(Ops)
      BY <3>1, <3>2
    <3> QED
      BY <2>1, <3>3 DEF TakeBatch, Typed, diskVars
  <2>2. CASE EndBatch \/ WriterExit
    BY <2>2 DEF EndBatch, WriterExit, Typed, dataVars, queueVars, batchVars, diskVars
  <2> QED
    BY <1>2, <2>1, <2>2, ApplyTyped DEF Worker
<1>3. CASE LogPersist \/ LogStop \/ LogRotate
  BY <1>3 DEF LogPersist, LogStop, LogRotate, logFrame, Typed,
              dataVars, queueVars, batchVars, diskVars
<1>4. CASE FlushToDisk
  BY <1>0, <1>4 DEF FlushToDisk, PeriodicDue, PeriodicLast, Save, SaveError, ClearDirty,
              saveFrame, Typed, queueVars, batchVars, diskVars
<1>5. CASE Watcher
  <2>1. CASE WatchReload
    BY <2>1 DEF WatchReload, watchFrame, Typed, queueVars, batchVars
  <2> QED
    BY <1>5, <2>1 DEF Watcher, WatchSee, WatchSkip, WatcherExit, watchFrame, Typed,
                      queueVars, batchVars, diskVars
<1>6. CASE Flush
  BY <1>0, <1>6 DEF Flush, FlushPoll, FlushRefused, FlushNothing, FlushUnverified, FlushSave,
              FlushEnd, flushNoLog, flushFrame, Typed, queueVars, batchVars, diskVars
<1>7. ASSUME NEW d \in Imports, Import(d) \/ ForeignSave(d)
      PROVE  Typed'
  <2>1. d \in Data /\ d # NoFile
    BY DatabaseAssumption DEF DatabaseAssumption
  <2> QED
    BY <1>7, <2>1 DEF Import, ForeignSave, Typed, dataVars, batchVars, diskVars
<1>8. ASSUME NEW t \in Txs, Transaction(t)
      PROVE  Typed'
  <2>1. UNCHANGED <<snapshot, writeBuffer, batch, watcher>>
    BY <1>8 DEF Transaction, BeginTransaction, Rollback, CommitFinalize, CommitConflict,
                CommitApply, txFrame, queueVars, batchVars, diskVars
  <2>2. data' \in Data
    BY <1>8, CommittedTyped, DatabaseAssumption
       DEF DatabaseAssumption, Transaction, BeginTransaction, Rollback, CommitFinalize,
           CommitConflict, CommitApply, Typed
  <2> QED
    BY <2>1, <2>2 DEF Typed
<1>9. CASE Close \/ Crash
  BY <1>9 DEF Close, CloseMark, CloseCancel, CloseSave, CloseSaved, CloseWAL, Crash,
              closeFrame, Typed, dataVars, queueVars, batchVars, diskVars
<1>10. CASE Reopen
  <2>1. OnDisk \in Data
    BY EmptyDataTyped DEF OnDisk, Typed
  <2>2. data' \in Data
    BY <1>10, <2>1, LogEffect DEF Reopen
  <2> QED
    BY <1>10, <2>2 DEF Reopen, Typed
<1>11. CASE UNCHANGED vars
  BY <1>11 DEF vars, Typed, dataVars, queueVars, batchVars, diskVars
<1> QED
  BY <1>1, <1>2, <1>3, <1>4, <1>5, <1>6, <1>7, <1>8, <1>9, <1>10, <1>11 DEF Next

\* The beginning.
LEMMA InitTyped == Init => Typed
<1> SUFFICES ASSUME Init PROVE Typed
  OBVIOUS
<1>1. <<>> \in Seq(Ops)
  OBVIOUS
<1> QED
  BY <1>1, EmptyDataTyped DEF Init, Typed

-----------------------------------------------------------------------------
(***************************************************************************)
(* The log and the data.  LogRepairs is not inductive: a save makes the    *)
(* data the state file, so replaying the log over the data must give the   *)
(* data too; and a restart takes what the answers announced from the data, *)
(* so that these agree where the log is whole.                             *)
(***************************************************************************)

\* AgreeBut, as steps preserve it.
Alike(d, f, U) ==
  /\ \A p \in Places \ U : Look(d, p) = Look(f, p)
  /\ \A t \in Tables : ({t} \X AllKeys) \cap U = {} => (HasTable(d, t) <=> HasTable(f, t))

\* log, disk, d and ann: the log, the state file, the data and what the answers
\* announced, U: the places that the log does not know of.
Repaired(log, disk, d, ann, U) ==
  /\ Alike(Replay(disk, log), d, U)
  /\ Alike(Replay(d, log), d, U)
  /\ Alike(ann, d, U)

\* more tells of every change from d to f that is not in U.
Tells(more, d, f, U) ==
  /\ \A p \in Places \ U : \/ Look(f, p) = Look(d, p) /\ LogLeaves(more, p)
                           \/ \A s \in Data : Look(Replay(s, more), p) = Look(f, p)
  /\ \A t \in Tables : ({t} \X AllKeys) \cap U = {} =>
       \/ (HasTable(f, t) <=> HasTable(d, t)) /\ LogLeavesTable(more, t)
       \/ HasTable(f, t) /\ LogMakesTable(more, t)

\* A step that logs what it does keeps the log repairing.
LEMMA LoggedStep ==
  ASSUME NEW log \in Seq(Entry), NEW more \in Seq(Entry), NEW disk \in Data,
         NEW d \in Data, NEW f \in Data, NEW ann, NEW ann2, NEW U, NEW V, U \subseteq V,
         Repaired(log, disk, d, ann, U), Tells(more, d, f, V), Alike(ann2, f, V)
  PROVE  Repaired(log \o more, disk, f, ann2, V)
<1>1. /\ Replay(disk, log) \in Data /\ Replay(d, log) \in Data /\ Replay(f, log) \in Data
      /\ Replay(disk, log \o more) = Replay(Replay(disk, log), more)
      /\ Replay(f, log \o more) = Replay(Replay(f, log), more)
  BY LogEffect, ReplayConcat
<1>2. ASSUME NEW p \in Places, p \notin V
      PROVE  /\ Look(Replay(Replay(disk, log), more), p) = Look(f, p)
             /\ Look(Replay(Replay(f, log), more), p) = Look(f, p)
  <2>1. Look(Replay(disk, log), p) = Look(d, p) /\ Look(Replay(d, log), p) = Look(d, p)
    BY <1>2 DEF Repaired, Alike
  <2>2. CASE Look(f, p) = Look(d, p) /\ LogLeaves(more, p)
    <3>1. Look(Replay(f, log), p) = Look(Replay(d, log), p)
      BY <2>2, ReplayLocal
    <3> QED
      BY <1>1, <2>1, <2>2, <3>1 DEF LogLeaves
  <2>3. CASE \A s \in Data : Look(Replay(s, more), p) = Look(f, p)
    BY <1>1, <2>3
  <2> QED
    BY <1>2, <2>2, <2>3 DEF Tells
<1>3. ASSUME NEW t \in Tables, ({t} \X AllKeys) \cap V = {}
      PROVE  /\ HasTable(Replay(Replay(disk, log), more), t) <=> HasTable(f, t)
             /\ HasTable(Replay(Replay(f, log), more), t) <=> HasTable(f, t)
  <2>1. /\ HasTable(Replay(disk, log), t) <=> HasTable(d, t)
        /\ HasTable(Replay(d, log), t) <=> HasTable(d, t)
    BY <1>3 DEF Repaired, Alike
  <2>2. CASE (HasTable(f, t) <=> HasTable(d, t)) /\ LogLeavesTable(more, t)
    <3>1. HasTable(Replay(f, log), t) <=> HasTable(Replay(d, log), t)
      BY <2>2, ReplayLocal
    <3> QED
      BY <1>1, <2>1, <2>2, <3>1 DEF LogLeavesTable
  <2>3. CASE HasTable(f, t) /\ LogMakesTable(more, t)
    BY <1>1, <2>3 DEF LogMakesTable
  <2> QED
    BY <1>3, <2>2, <2>3 DEF Tells
<1>4. Alike(Replay(disk, log \o more), f, V) /\ Alike(Replay(f, log \o more), f, V)
  BY <1>1, <1>2, <1>3 DEF Alike
<1> QED
  BY <1>4 DEF Repaired

\* A restart finds the data of a log that it has replayed.
LEMMA Restarted ==
  ASSUME NEW log \in Seq(Entry), NEW disk \in Data, NEW d, d = Replay(disk, log)
  PROVE  Repaired(log, disk, d, d, {})
  BY ReplayTwice DEF Repaired, Alike

\* What agrees in every record of a table agrees in the table.
LEMMA AlikeAgrees ==
  ASSUME NEW d \in Data, NEW f \in Data, NEW U, Alike(d, f, U)
  PROVE  AgreeBut(d, f, U)
<1>1. ASSUME NEW t \in Tables, ({t} \X AllKeys) \cap U = {}
      PROVE  d[t] = f[t]
  <2>1. HasTable(d, t) <=> HasTable(f, t)
    BY <1>1 DEF Alike
  <2>2. CASE ~HasTable(d, t)
    BY <2>1, <2>2 DEF HasTable
  <2>3. CASE HasTable(d, t)
    <3>1. d[t] \in Table /\ f[t] \in Table
      BY <2>1, <2>3 DEF Data, HasTable
    <3>2. ASSUME NEW k \in AllKeys PROVE d[t][k] = f[t][k]
      <4>1. <<t, k>> \in Places \ U
        BY <1>1 DEF Places
      <4>2. Look(d, <<t, k>>) = Look(f, <<t, k>>)
        BY <4>1 DEF Alike
      <4> QED
        BY <2>1, <2>3, <4>2 DEF Look
    <3> QED
      BY <3>1, <3>2 DEF Table
  <2> QED
    BY <2>2, <2>3
<1> QED
  BY <1>1 DEF AgreeBut, Alike

\* The log and the announced state hold entries and records.
LogTyped == promised \in Data /\ walFile \in Seq(Entry) /\ walBuf \in Seq(Entry)

\* The log, where it is and where it is going to be.
Joined == walFile \o walBuf

LogIInv ==
  /\ Typed /\ LogTyped
  /\ Repaired(Joined, OnDisk, data, promised, unlogged)

\* A step of the worker, or any other that changes data and log.
LEMMA Applied ==
  ASSUME LogIInv, data' \in Data, promised' \in Data,
         UNCHANGED <<snapshot, walFile>>, unlogged \subseteq unlogged',
         NEW more \in Seq(Entry), walBuf' = walBuf \o more,
         Tells(more, data, data', unlogged'), Alike(promised', data', unlogged')
  PROVE  LogTyped' /\ Repaired(Joined, OnDisk, data, promised, unlogged)'
<1>1. OnDisk \in Data /\ OnDisk' = OnDisk
  BY EmptyDataTyped DEF LogIInv, Typed, OnDisk
<1>2. walFile \in Seq(Entry) /\ walBuf \in Seq(Entry) /\ data \in Data
  BY DEF LogIInv, LogTyped, Typed
<1>3. walBuf' \in Seq(Entry) /\ Joined \in Seq(Entry)
  BY <1>2, ConcatProperties DEF Joined
<1>4. Joined' = Joined \o more
  BY <1>2, ConcatAssociative DEF Joined
<1>5. Repaired(Joined, OnDisk, data, promised, unlogged)
  BY DEF LogIInv
<1>6. Repaired(Joined \o more, OnDisk, data', promised', unlogged')
  BY <1>1, <1>2, <1>3, <1>5, LoggedStep
<1> QED
  BY <1>1, <1>2, <1>3, <1>4, <1>6 DEF LogTyped

\* The same when nothing is logged.
LEMMA AppliedUnlogged ==
  ASSUME LogIInv, data' \in Data, promised' \in Data,
         UNCHANGED <<snapshot, walFile, walBuf>>, unlogged \subseteq unlogged',
         Alike(data, data', unlogged'), Alike(promised', data', unlogged')
  PROVE  LogTyped' /\ Repaired(Joined, OnDisk, data, promised, unlogged)'
<1>1. <<>> \in Seq(Entry) /\ walBuf' = walBuf \o <<>>
  BY ConcatEmptySeq DEF LogIInv, LogTyped
<1>2. Tells(<<>>, data, data', unlogged')
  BY ReplayEmpty DEF Tells, Alike, LogLeaves, LogLeavesTable
<1> QED
  BY <1>1, <1>2, Applied

\* The operation that the worker applies.
LEMMA HeadIs ==
  ASSUME Typed, batch # <<>>
  PROVE  Head(batch) \in Operation /\ Head(batch).table \in Tables
  BY OpTyped, DatabaseAssumption DEF Typed

\* The frame of the worker's steps on the log.
LEMMA AnswerFrame == ASSUME NEW ok, Answer(ok) PROVE UNCHANGED <<snapshot, walFile>>
  BY DEF Answer, diskVars

\* A create is logged, or its table is among what the log does not know of.
LEMMA CreateRepaired ==
  ASSUME LogIInv, WALEnabled, ApplyCreate
  PROVE  LogTyped' /\ Repaired(Joined, OnDisk, data, promised, unlogged)'
<1> DEFINE op == Head(batch)
           t == op.table
<1>1. op \in Operation /\ t \in Tables /\ op.type = "create"
  BY HeadIs DEF ApplyCreate, Next1, LogIInv
<1>2. data \in Data /\ promised \in Data /\ Alike(promised, data, unlogged)
  BY DEF LogIInv, LogTyped, Typed, Repaired
<1>3. data' \in Data
  BY ApplyTyped DEF LogIInv, Typed
<1>4. PICK fails \in BOOLEAN :
        /\ data' = IF fails THEN [data EXCEPT ![t] = NoTable] ELSE Ensure(data, t)
        /\ IF fails THEN Logged(<<>>, {t} \X AllKeys)
                    ELSE Logged(<<[type |-> "create", table |-> t]>>, {})
        /\ Answer(~HasTable(data, t))
  BY DEF ApplyCreate, AppendOutcomes
<1>5. /\ promised' = IF ~HasTable(data, t) THEN Announced(promised, op) ELSE promised
      /\ UNCHANGED <<snapshot, walFile>>
  BY <1>4, AnswerFrame DEF Answer
<1> HIDE DEF op, t
<1>6. /\ Announced(promised, op) \in Data
      /\ \A p \in Places : Look(Announced(promised, op), p) = Look(promised, p)
      /\ \A s \in Tables : HasTable(Announced(promised, op), s) <=> s = t \/ HasTable(promised, s)
  BY <1>1, <1>2, AnnouncedShows DEF t
<1>7. CASE fails
  <2>1. /\ walBuf' = walBuf \o <<>> /\ unlogged' = unlogged \cup ({t} \X AllKeys)
        /\ data' = [data EXCEPT ![t] = NoTable]
    BY <1>4, <1>7 DEF Logged
  <2>2. walBuf' = walBuf
    BY <2>1, ConcatEmptySeq DEF LogIInv, LogTyped
  <2>3. \A s \in Tables : s # t => data'[s] = data[s]
    BY <2>1, <1>2 DEF Data
  <2>4. ASSUME NEW p \in Places, p \notin unlogged'
        PROVE  p \notin unlogged /\ Look(data, p) = Look(data', p)
    <3>1. p[1] \in Tables /\ p[2] \in AllKeys /\ p = <<p[1], p[2]>>
      BY PlaceIs
    <3>2. p[1] # t
      BY <2>1, <2>4, <3>1
    <3> QED
      BY <2>1, <2>3, <2>4, <3>1, <3>2 DEF Look, HasTable
  <2>5. ASSUME NEW s \in Tables, ({s} \X AllKeys) \cap unlogged' = {}
        PROVE  /\ ({s} \X AllKeys) \cap unlogged = {} /\ s # t
               /\ HasTable(data, s) <=> HasTable(data', s)
    <3>1. NoKey \in AllKeys
      BY DEF AllKeys
    <3>2. s = t => <<s, NoKey>> \in ({s} \X AllKeys) \cap unlogged'
      BY <2>1, <3>1
    <3>3. s # t
      BY <2>5, <3>2
    <3> QED
      BY <2>1, <2>3, <2>5, <3>3 DEF HasTable
  <2>6. Alike(data, data', unlogged')
    BY <2>4, <2>5 DEF Alike
  <2>7. Alike(promised', data', unlogged')
    BY <1>2, <1>5, <1>6, <2>4, <2>5 DEF Alike
  <2> QED
    BY <1>2, <1>3, <1>5, <1>6, <2>1, <2>2, <2>6, <2>7, AppliedUnlogged
<1>8. CASE ~fails
  <2> DEFINE e == [type |-> "create", table |-> t]
  <2>1. /\ walBuf' = walBuf \o <<e>> /\ unlogged' = unlogged
        /\ data' = Ensure(data, t)
    BY <1>4, <1>8 DEF Logged
  <2>2. e \in Entry /\ e.type = "create" /\ e.table = t
    BY <1>1 DEF Entry
  <2> HIDE DEF e
  <2>3. <<e>> \in Seq(Entry) /\ \A d \in Data : Replay(d, <<e>>) = Replay1(d, e)
    BY <2>2, ReplaySingle
  <2>4. /\ \A p \in Places : LogLeaves(<<e>>, p)
        /\ \A s \in Tables : IF s = t THEN LogMakesTable(<<e>>, s) ELSE LogLeavesTable(<<e>>, s)
    BY <2>2, <2>3, CreateShows DEF LogLeaves, LogMakesTable, LogLeavesTable
  <2>5. /\ \A p \in Places : Look(data', p) = Look(data, p)
        /\ \A s \in Tables : HasTable(data', s) <=> s = t \/ HasTable(data, s)
    BY <1>1, <1>2, <2>1, EnsureShows
  <2>6. Tells(<<e>>, data, data', unlogged')
    BY <2>4, <2>5 DEF Tells
  <2>7. Alike(promised', data', unlogged')
    <3>1. CASE HasTable(data, t)
      BY <1>2, <1>5, <2>1, <2>5, <3>1 DEF Alike
    <3>2. CASE ~HasTable(data, t)
      BY <1>2, <1>5, <1>6, <2>1, <2>5, <3>2 DEF Alike
    <3> QED
      BY <3>1, <3>2
  <2> QED
    BY <1>2, <1>3, <1>5, <1>6, <2>1, <2>3, <2>6, <2>7, Applied
<1> QED
  BY <1>7, <1>8

\* A write or a delete is logged, or its place is what the log does not know of.
LEMMA RecordRepaired ==
  ASSUME LogIInv, WALEnabled, ApplyWrite \/ ApplyDelete
  PROVE  LogTyped' /\ Repaired(Joined, OnDisk, data, promised, unlogged)'
<1> DEFINE op == Head(batch)
           t == op.table
           k == op.key
           u == IF op.type = "write" THEN op.val ELSE Absent
<1>1. op \in Operation /\ t \in Tables /\ op.type \in {"write", "delete"} /\ HasTable(data, t)
  BY HeadIs DEF ApplyWrite, ApplyDelete, Next1, LogIInv
<1>2. data \in Data /\ promised \in Data /\ Alike(promised, data, unlogged)
  BY DEF LogIInv, LogTyped, Typed, Repaired
<1>3. data' \in Data
  BY ApplyTyped DEF LogIInv, Typed
<1>4. PICK fails \in BOOLEAN :
        /\ data' = Put(data, t, k, IF fails THEN OldVal(t, k) ELSE u)
        /\ IF fails THEN Logged(<<>>, {<<t, k>>}) ELSE Logged(<<op>>, {})
        /\ Answer(TRUE)
  <2>1. CASE ApplyWrite
    BY <2>1 DEF ApplyWrite, AppendOutcomes, Next1
  <2>2. CASE ApplyDelete
    BY <2>2 DEF ApplyDelete, AppendOutcomes, Next1
  <2> QED
    BY <2>1, <2>2
<1>5. promised' = Announced(promised, op) /\ UNCHANGED <<snapshot, walFile>>
  BY <1>4, AnswerFrame DEF Answer
<1> HIDE DEF op
<1>6. op \in Entry /\ k \in AllKeys /\ u \in Vals \cup {Absent, Nil}
  BY <1>1 DEF Operation, Entry, AllKeys
<1>7. /\ Announced(promised, op) \in Data
      /\ \A p \in Places : Look(Announced(promised, op), p) =
           IF p = <<t, k>> THEN u ELSE Look(promised, p)
      /\ \A s \in Tables : HasTable(Announced(promised, op), s) <=> s = t \/ HasTable(promised, s)
  BY <1>1, <1>2, AnnouncedShows
<1> DEFINE x == IF fails THEN OldVal(t, k) ELSE u
<1>8. x \in Vals \cup {Absent, Nil}
  BY <1>1, <1>2, <1>6, OldValTyped
<1> HIDE DEF t, k, u, x
<1>9. /\ \A p \in Places : Look(data', p) = IF p = <<t, k>> THEN x ELSE Look(data, p)
      /\ \A s \in Tables : HasTable(data', s) <=> HasTable(data, s)
  <2>1. data' = Put(data, t, k, x)
    BY <1>4 DEF x
  <2> QED
    BY <1>1, <1>2, <1>6, <1>8, <2>1, PutShows
<1>10. CASE fails
  <2>1. walBuf' = walBuf \o <<>> /\ unlogged' = unlogged \cup {<<t, k>>}
    BY <1>4, <1>10 DEF Logged
  <2>2. walBuf' = walBuf
    BY <2>1, ConcatEmptySeq DEF LogIInv, LogTyped
  <2>3. ASSUME NEW s \in Tables, ({s} \X AllKeys) \cap unlogged' = {}
        PROVE  ({s} \X AllKeys) \cap unlogged = {} /\ s # t
    <3>1. s = t => <<s, k>> \in ({s} \X AllKeys) \cap unlogged'
      BY <1>6, <2>1
    <3> QED
      BY <2>1, <2>3, <3>1
  <2>4. Alike(data, data', unlogged')
    BY <1>9, <2>1 DEF Alike
  <2>5. Alike(promised', data', unlogged')
    BY <1>2, <1>5, <1>7, <1>9, <2>1, <2>3 DEF Alike
  <2> QED
    BY <1>3, <1>5, <1>7, <2>1, <2>2, <2>4, <2>5, AppliedUnlogged
<1>11. CASE ~fails
  <2>1. walBuf' = walBuf \o <<op>> /\ unlogged' = unlogged /\ x = u
    BY <1>4, <1>11 DEF Logged, x
  <2>2. <<op>> \in Seq(Entry) /\ \A d \in Data : Replay(d, <<op>>) = Replay1(d, op)
    BY <1>6, ReplaySingle
  <2>3. \A d \in Data, p \in Places :
          Look(Replay1(d, op), p) = IF p = <<t, k>> THEN u ELSE Look(d, p)
    BY <1>1, <1>6, WriteShows, DeleteShows DEF t, k, u
  <2>4. \A d \in Data, s \in Tables :
          s # t => (HasTable(Replay1(d, op), s) <=> HasTable(d, s))
    BY <1>1, <1>6, WriteShows, DeleteShows DEF t
  <2>5. \/ \A d \in Data : HasTable(Replay1(d, op), t)
        \/ \A d \in Data : HasTable(Replay1(d, op), t) <=> HasTable(d, t)
    BY <1>1, <1>6, WriteShows, DeleteShows DEF t
  <2>6. Tells(<<op>>, data, data', unlogged')
    <3>1. ASSUME NEW p \in Places
          PROVE  \/ Look(data', p) = Look(data, p) /\ LogLeaves(<<op>>, p)
                 \/ \A s \in Data : Look(Replay(s, <<op>>), p) = Look(data', p)
      BY <1>9, <2>1, <2>2, <2>3 DEF LogLeaves
    <3>2. ASSUME NEW s \in Tables
          PROVE  \/ (HasTable(data', s) <=> HasTable(data, s)) /\ LogLeavesTable(<<op>>, s)
                 \/ HasTable(data', s) /\ LogMakesTable(<<op>>, s)
      BY <1>1, <1>9, <2>2, <2>4, <2>5 DEF LogLeavesTable, LogMakesTable
    <3> QED
      BY <3>1, <3>2 DEF Tells
  <2>7. Alike(promised', data', unlogged')
    BY <1>1, <1>2, <1>5, <1>7, <1>9, <2>1 DEF Alike
  <2> QED
    BY <1>3, <1>5, <1>7, <2>1, <2>2, <2>6, <2>7, Applied
<1> QED
  BY <1>10, <1>11

\* A sequence of all elements of a finite set.
LEMMA OrderHasAll ==
  ASSUME NEW S, IsFiniteSet(S), NEW order \in SetToSeqs(S)
  PROVE  order \in Seq(S) /\ {order[i] : i \in 1 .. Len(order)} = S
<1> DEFINE n == Cardinality(S)
<1>1. n \in Nat
  BY FS_CardinalityType
<1>2. order \in [1 .. n -> S] /\ \A i, j \in 1 .. n : i # j => order[i] # order[j]
  BY DEF SetToSeqs
<1>3. order \in Injection(1 .. n, S)
  BY <1>2 DEF Injection, IsInjective
<1>4. Cardinality(1 .. n) = n
  BY <1>1, FS_Interval
<1>5. order \in Surjection(1 .. n, S)
  BY <1>3, <1>4, FS_Injection
<1> HIDE DEF n
<1>6. order \in Seq(S) /\ Len(order) = n
  BY <1>1, <1>2
<1> QED
  BY <1>2, <1>5, <1>6 DEF Surjection

\* Append, element by element.
LEMMA AppendIs ==
  ASSUME NEW S, NEW s \in Seq(S), NEW e \in S
  PROVE  Append(s, e) = [i \in 1 .. Len(s) + 1 |-> IF i = Len(s) + 1 THEN e ELSE s[i]]
<1> DEFINE f == [i \in 1 .. Len(s) + 1 |-> IF i = Len(s) + 1 THEN e ELSE s[i]]
<1>1. Len(s) \in Nat /\ \A i \in 1 .. Len(s) : s[i] \in S
  BY LenProperties, ElementOfSeq
<1>2. /\ Append(s, e) \in Seq(S) /\ Len(Append(s, e)) = Len(s) + 1
      /\ \A i \in 1 .. Len(s) : Append(s, e)[i] = s[i]
      /\ Append(s, e)[Len(s) + 1] = e
  BY AppendProperties
<1>3. ASSUME NEW i \in 1 .. Len(s) + 1
      PROVE  f[i] = Append(s, e)[i] /\ f[i] \in S
  <2>1. CASE i = Len(s) + 1
    BY <1>2, <2>1
  <2>2. CASE i \in 1 .. Len(s)
    BY <1>1, <1>2, <2>2
  <2> QED
    BY <1>1, <2>1, <2>2
<1>4. f \in [1 .. Len(s) + 1 -> S]
  BY <1>3
<1> HIDE DEF f
<1>5. f \in Seq(S) /\ Len(f) = Len(s) + 1
  BY <1>1, <1>4
<1>6. f = Append(s, e)
  BY <1>2, <1>3, <1>5, SeqEqual
<1> QED
  BY <1>6 DEF f

\* What the log keeps of a batch: the writes of its records, in some order.
WriteOf(t, recs, k) == [type |-> "write", table |-> t, key |-> k, val |-> recs[k]]
Writes(t, recs, order) == [i \in 1 .. Len(order) |-> WriteOf(t, recs, order[i])]

\* They set the keys of those records, and nothing else.
LEMMA WritesShow ==
  ASSUME NEW t \in Tables, NEW K \in SUBSET Keys, NEW recs \in [K -> Vals]
  PROVE  \A order \in Seq(K) :
           /\ Writes(t, recs, order) \in Seq(Entry)
           /\ \A d \in Data, p \in Places : Look(Replay(d, Writes(t, recs, order)), p) =
                IF p[1] = t /\ p[2] \in {order[i] : i \in 1 .. Len(order)}
                  THEN recs[p[2]] ELSE Look(d, p)
           /\ \A s \in Tables : \/ LogLeavesTable(Writes(t, recs, order), s)
                                \/ s = t /\ LogMakesTable(Writes(t, recs, order), s)
<1> DEFINE W(order) == Writes(t, recs, order)
           in(order) == {order[i] : i \in 1 .. Len(order)}
           G == {order \in Seq(K) :
                   /\ W(order) \in Seq(Entry)
                   /\ \A d \in Data, p \in Places : Look(Replay(d, W(order)), p) =
                        IF p[1] = t /\ p[2] \in in(order) THEN recs[p[2]] ELSE Look(d, p)
                   /\ \A s \in Tables : \/ LogLeavesTable(W(order), s)
                                        \/ s = t /\ LogMakesTable(W(order), s)}
<1>1. <<>> \in G
  <2>1. W(<<>>) = <<>> /\ in(<<>>) = {}
    BY DEF Writes
  <2>2. <<>> \in Seq(Entry) /\ <<>> \in Seq(K)
    OBVIOUS
  <2> HIDE DEF W, in
  <2> QED
    BY <2>1, <2>2, ReplayEmpty DEF LogLeavesTable
<1>2. ASSUME NEW order \in Seq(K), NEW k \in K, order \in G
      PROVE  Append(order, k) \in G
  <2> DEFINE long == Append(order, k)
             e == WriteOf(t, recs, k)
  <2>1. /\ long \in Seq(K) /\ Len(long) = Len(order) + 1 /\ Len(order) \in Nat
        /\ long[Len(order) + 1] = k
        /\ \A i \in 1 .. Len(order) : long[i] = order[i]
    BY AppendProperties, LenProperties
  <2>2. /\ e \in Entry /\ e.type = "write" /\ e.table = t /\ e.key = k /\ e.val = recs[k]
    BY DEF WriteOf, Entry
  <2> HIDE DEF e
  <2>3. W(long) = Append(W(order), e)
    <3>1. W(order) \in Seq(Entry) /\ Len(W(order)) = Len(order)
      BY <1>2, <2>1 DEF Writes
    <3>2. \A i \in 1 .. Len(order) : W(order)[i] = WriteOf(t, recs, order[i])
      BY DEF Writes
    <3>3. W(long) = [i \in 1 .. Len(order) + 1 |-> WriteOf(t, recs, long[i])]
      BY <2>1 DEF Writes
    <3> HIDE DEF W, long
    <3>4. Append(W(order), e) =
            [i \in 1 .. Len(order) + 1 |-> IF i = Len(order) + 1 THEN e ELSE W(order)[i]]
      BY <2>1, <2>2, <3>1, AppendIs
    <3>5. ASSUME NEW i \in 1 .. Len(order) + 1
          PROVE  WriteOf(t, recs, long[i]) = IF i = Len(order) + 1 THEN e ELSE W(order)[i]
      <4>1. CASE i = Len(order) + 1
        BY <2>1, <4>1 DEF e
      <4>2. CASE i # Len(order) + 1
        <5>1. i \in 1 .. Len(order)
          BY <2>1, <4>2
        <5> QED
          BY <2>1, <3>2, <4>2, <5>1
      <4> QED
        BY <4>1, <4>2
    <3> QED
      BY <3>3, <3>4, <3>5
  <2>4. \A x : x \in in(long) <=> x = k \/ x \in in(order)
    <3> TAKE x
    <3>1. ASSUME x \in in(long) PROVE x = k \/ x \in in(order)
      <4>1. PICK i \in 1 .. Len(long) : x = long[i]
        BY <3>1
      <4>2. i \in 1 .. Len(order) \/ i = Len(order) + 1
        BY <2>1
      <4> QED
        BY <2>1, <4>1, <4>2
    <3>2. ASSUME x \in in(order) PROVE x \in in(long)
      <4>1. PICK i \in 1 .. Len(order) : x = order[i]
        BY <3>2
      <4>2. i \in 1 .. Len(long) /\ long[i] = x
        BY <2>1, <4>1
      <4> QED
        BY <4>2
    <3>3. k \in in(long)
      <4>1. Len(order) + 1 \in 1 .. Len(long)
        BY <2>1
      <4> QED
        BY <2>1, <4>1
    <3> QED
      BY <3>1, <3>2, <3>3
  <2>5. /\ W(order) \in Seq(Entry)
        /\ \A d \in Data, p \in Places : Look(Replay(d, W(order)), p) =
             IF p[1] = t /\ p[2] \in in(order) THEN recs[p[2]] ELSE Look(d, p)
    BY <1>2
  <2> HIDE DEF W, in, long
  <2>6. W(long) \in Seq(Entry) /\ \A d \in Data : /\ Replay(d, W(order)) \in Data
                                                  /\ Replay(d, W(long)) = Replay1(Replay(d, W(order)), e)
    BY <2>2, <2>3, <2>5, ReplayAppend, AppendProperties, LogEffect
  <2>7. ASSUME NEW d \in Data, NEW p \in Places
        PROVE  Look(Replay(d, W(long)), p) =
                 IF p[1] = t /\ p[2] \in in(long) THEN recs[p[2]] ELSE Look(d, p)
    <3>1. Look(Replay(d, W(long)), p) =
            IF p = <<t, k>> THEN recs[k] ELSE Look(Replay(d, W(order)), p)
      BY <2>2, <2>6, WriteShows
    <3>2. p = <<p[1], p[2]>>
      BY PlaceIs
    <3>3. p = <<t, k>> <=> p[1] = t /\ p[2] = k
      BY <3>2
    <3> QED
      BY <2>4, <2>5, <3>1, <3>3
  <2>8. ASSUME NEW s \in Tables
        PROVE  LogLeavesTable(W(long), s) \/ (s = t /\ LogMakesTable(W(long), s))
    <3>1. \A d \in Data : HasTable(Replay(d, W(long)), s) <=>
            s = t \/ HasTable(Replay(d, W(order)), s)
      BY <2>2, <2>6, WriteShows
    <3>2. CASE s = t
      BY <3>1, <3>2 DEF LogMakesTable
    <3>3. CASE s # t
      <4>1. LogLeavesTable(W(order), s)
        BY <1>2, <3>3 DEF in
      <4> QED
        BY <3>1, <3>3, <4>1 DEF LogLeavesTable
    <3> QED
      BY <3>2, <3>3
  <2> QED
    BY <2>1, <2>6, <2>7, <2>8 DEF long
<1> HIDE DEF G
<1>3. Seq(K) \subseteq G
  BY <1>1, <1>2, SeqInduction
<1> QED
  BY <1>3 DEF G

\* A batch is logged but for the records whose Append fails; those, and what
\* their rollback writes, are what the log does not know of.
LEMMA RecordsRepaired ==
  ASSUME LogIInv, WALEnabled, ApplyRecords
  PROVE  LogTyped' /\ Repaired(Joined, OnDisk, data, promised, unlogged)'
<1> DEFINE op == Head(batch)
           t == op.table
           recs == op.records
           all == PutAll(data, t, recs)
<1>1. op \in Operation /\ t \in Tables /\ op.type = "batch" /\ HasTable(data, t)
  BY HeadIs DEF ApplyRecords, Next1, LogIInv
<1>2. data \in Data /\ promised \in Data /\ Alike(promised, data, unlogged)
  BY DEF LogIInv, LogTyped, Typed, Repaired
<1>3. data' \in Data
  BY ApplyTyped DEF LogIInv, Typed
<1>4. PICK K \in SUBSET Keys : recs \in [K -> Vals]
  <2> HIDE DEF op
  <2> QED
    BY <1>1 DEF Operation
<1>5. DOMAIN recs = K /\ IsFiniteSet(K)
  <2>1. Head(batch) \in Ops
    BY HeadTailProperties DEF LogIInv, Typed, ApplyRecords, Next1
  <2> QED
    BY <1>1, <1>4, <2>1, DatabaseAssumption DEF DatabaseAssumption
<1> DEFINE keyed(failed) == {t} \X (IF failed = {} THEN {} ELSE failed \cup {NoKey})
<1>6. PICK failed \in SUBSET K : \E order \in SetToSeqs(K \ failed) :
        /\ IF failed = {} THEN data' = all
           ELSE \E last \in failed : data' = Put(all, t, NoKey, OldVal(t, last))
        /\ Logged(Writes(t, recs, order), keyed(failed))
        /\ Answer(TRUE)
  BY <1>5 DEF ApplyRecords, Writes, WriteOf
<1>7. PICK order \in SetToSeqs(K \ failed) :
        /\ IF failed = {} THEN data' = all
           ELSE \E last \in failed : data' = Put(all, t, NoKey, OldVal(t, last))
        /\ Logged(Writes(t, recs, order), keyed(failed))
        /\ Answer(TRUE)
  BY <1>6
<1>8. promised' = Announced(promised, op) /\ UNCHANGED <<snapshot, walFile>>
  BY <1>7, AnswerFrame DEF Answer
<1> DEFINE more == Writes(t, recs, order)
<1>9. walBuf' = walBuf \o more /\ unlogged' = unlogged \cup keyed(failed)
  BY <1>7 DEF Logged
<1>10. order \in Seq(K \ failed) /\ {order[i] : i \in 1 .. Len(order)} = K \ failed
  <2>1. IsFiniteSet(K \ failed)
    BY <1>5, FS_Subset
  <2> QED
    BY <2>1, OrderHasAll
<1> HIDE DEF op
<1>11. /\ Announced(promised, op) \in Data
       /\ \A p \in Places : Look(Announced(promised, op), p) =
            IF p[1] = t /\ p[2] \in K THEN recs[p[2]] ELSE Look(promised, p)
       /\ \A s \in Tables : HasTable(Announced(promised, op), s) <=> s = t \/ HasTable(promised, s)
  BY <1>1, <1>2, <1>5, AnnouncedShows
<1> HIDE DEF t, recs
<1>12. /\ all \in Data
       /\ \A p \in Places : Look(all, p) =
            IF p[1] = t /\ p[2] \in K THEN recs[p[2]] ELSE Look(data, p)
       /\ \A s \in Tables : HasTable(all, s) <=> HasTable(data, s)
  BY <1>1, <1>2, <1>4, PutAllShows
<1>13. /\ more \in Seq(Entry)
       /\ \A d \in Data, p \in Places : Look(Replay(d, more), p) =
            IF p[1] = t /\ p[2] \in K \ failed THEN recs[p[2]] ELSE Look(d, p)
       /\ \A s \in Tables : LogLeavesTable(more, s) \/ (s = t /\ LogMakesTable(more, s))
  <2>1. order \in Seq(K)
    BY <1>10
  <2>2. \A o \in Seq(K) :
          /\ Writes(t, recs, o) \in Seq(Entry)
          /\ \A d \in Data, p \in Places : Look(Replay(d, Writes(t, recs, o)), p) =
               IF p[1] = t /\ p[2] \in {o[i] : i \in 1 .. Len(o)} THEN recs[p[2]] ELSE Look(d, p)
          /\ \A s \in Tables : \/ LogLeavesTable(Writes(t, recs, o), s)
                               \/ s = t /\ LogMakesTable(Writes(t, recs, o), s)
    BY <1>1, <1>4, WritesShow
  <2> QED
    BY <1>10, <2>1, <2>2
<1> HIDE DEF all, more
<1>14. /\ \A s \in Tables : HasTable(data', s) <=> HasTable(data, s)
       /\ \A p \in Places : p \notin unlogged' => Look(data', p) = Look(all, p)
  <2>1. CASE failed = {}
    BY <1>7, <1>12, <2>1
  <2>2. CASE failed # {}
    <3>1. PICK last \in failed : data' = Put(all, t, NoKey, OldVal(t, last))
      BY <1>7, <2>2
    <3>2. NoKey \in AllKeys /\ last \in AllKeys
      BY DEF AllKeys
    <3>3. OldVal(t, last) \in Vals \cup {Absent, Nil}
      BY <1>1, <1>2, <3>2, OldValTyped
    <3>4. HasTable(all, t)
      BY <1>1, <1>12
    <3>5. /\ \A p \in Places : Look(data', p) =
               IF p = <<t, NoKey>> THEN OldVal(t, last) ELSE Look(all, p)
          /\ \A s \in Tables : HasTable(data', s) <=> HasTable(all, s)
      BY <1>1, <1>12, <3>1, <3>2, <3>3, <3>4, PutShows
    <3>6. <<t, NoKey>> \in unlogged'
      BY <1>9, <2>2
    <3> QED
      BY <1>12, <3>5, <3>6
  <2> QED
    BY <2>1, <2>2
<1>15. ASSUME NEW p \in Places, p \notin unlogged'
       PROVE  /\ p[1] = t /\ p[2] \in K <=> p[1] = t /\ p[2] \in K \ failed
              /\ p \notin unlogged
  <2>1. p = <<p[1], p[2]>>
    BY PlaceIs
  <2>2. p[1] = t /\ p[2] \in failed => p \in unlogged'
    BY <1>9, <2>1
  <2> QED
    BY <1>9, <1>15, <2>2
<1>16. ASSUME NEW s \in Tables, ({s} \X AllKeys) \cap unlogged' = {}
       PROVE  ({s} \X AllKeys) \cap unlogged = {}
  BY <1>9, <1>16
<1>17. Tells(more, data, data', unlogged')
  <2>1. ASSUME NEW p \in Places, p \notin unlogged'
        PROVE  \/ Look(data', p) = Look(data, p) /\ LogLeaves(more, p)
               \/ \A s \in Data : Look(Replay(s, more), p) = Look(data', p)
    BY <1>12, <1>13, <1>14, <1>15, <2>1 DEF LogLeaves
  <2>2. ASSUME NEW s \in Tables
        PROVE  \/ (HasTable(data', s) <=> HasTable(data, s)) /\ LogLeavesTable(more, s)
               \/ HasTable(data', s) /\ LogMakesTable(more, s)
    BY <1>1, <1>13, <1>14
  <2> QED
    BY <2>1, <2>2 DEF Tells
<1>18. Alike(promised', data', unlogged')
  <2>1. ASSUME NEW p \in Places, p \notin unlogged'
        PROVE  Look(promised', p) = Look(data', p)
    <3>1. Look(promised, p) = Look(data, p)
      BY <1>2, <1>15, <2>1 DEF Alike
    <3> QED
      BY <1>8, <1>11, <1>12, <1>14, <2>1, <3>1
  <2>2. ASSUME NEW s \in Tables, ({s} \X AllKeys) \cap unlogged' = {}
        PROVE  HasTable(promised', s) <=> HasTable(data', s)
    <3>1. HasTable(promised, s) <=> HasTable(data, s)
      BY <1>2, <1>16, <2>2 DEF Alike
    <3> QED
      BY <1>1, <1>8, <1>11, <1>14, <3>1
  <2> QED
    BY <2>1, <2>2 DEF Alike
<1> QED
  BY <1>3, <1>8, <1>9, <1>11, <1>13, <1>17, <1>18, Applied

\* A commit changes what UnloggedBy names, in what is announced as in the data.
LEMMA CommitRepaired ==
  ASSUME LogIInv, NEW t \in Txs, CommitApply(t)
  PROVE  LogTyped' /\ Repaired(Joined, OnDisk, data, promised, unlogged)'
<1>1. PICK changes \in TxChanges :
        /\ data' = Committed(data, changes) /\ promised' = Committed(promised, changes)
        /\ unlogged' = unlogged \cup UnloggedBy(changes)
  BY DEF CommitApply
<1>2. UNCHANGED <<snapshot, walFile, walBuf>>
  BY DEF CommitApply, txFrame, diskVars
<1>3. changes \in Changes
  BY DatabaseAssumption DEF DatabaseAssumption
<1>4. data \in Data /\ promised \in Data /\ Alike(promised, data, unlogged)
  BY DEF LogIInv, LogTyped, Typed, Repaired
<1>5. data' \in Data /\ promised' \in Data
  BY <1>1, <1>3, <1>4, CommittedTyped
<1>6. PICK P \in SUBSET (Tables \X Keys) : changes \in [P -> Vals \cup {Nil}]
  BY <1>3 DEF Changes
<1>7. ASSUME NEW p \in DOMAIN changes
      PROVE  p \in unlogged' /\ p[1] \in Tables /\ ({p[1]} \X AllKeys) \cap unlogged' # {}
  <2>1. p[1] \in Tables /\ p[2] \in AllKeys /\ p = <<p[1], p[2]>>
    BY <1>6 DEF AllKeys
  <2>2. p \in {p[1]} \X (IF HasTable(data, p[1]) THEN {p[2]} ELSE AllKeys)
    BY <2>1
  <2>3. p \in UnloggedBy(changes)
    BY <2>2 DEF UnloggedBy
  <2>4. p \in ({p[1]} \X AllKeys) \cap unlogged'
    BY <1>1, <2>1, <2>3
  <2> QED
    BY <2>1, <2>4
<1>8. /\ \A p \in Places \ DOMAIN changes : /\ Look(data', p) = Look(data, p)
                                            /\ Look(promised', p) = Look(promised, p)
      /\ \A s \in Tables : (\A p \in DOMAIN changes : p[1] # s) =>
           /\ HasTable(data', s) <=> HasTable(data, s)
           /\ HasTable(promised', s) <=> HasTable(promised, s)
  BY <1>1, <1>3, <1>4, CommittedShows
<1>9. ASSUME NEW p \in Places, p \notin unlogged'
      PROVE  /\ Look(data, p) = Look(data', p)
             /\ Look(promised', p) = Look(data', p)
  <2>1. p \notin DOMAIN changes /\ p \notin unlogged
    BY <1>1, <1>7, <1>9
  <2> QED
    BY <1>4, <1>8, <2>1 DEF Alike
<1>10. ASSUME NEW s \in Tables, ({s} \X AllKeys) \cap unlogged' = {}
       PROVE  /\ HasTable(data, s) <=> HasTable(data', s)
              /\ HasTable(promised', s) <=> HasTable(data', s)
  <2>1. \A p \in DOMAIN changes : p[1] # s
    BY <1>7, <1>10
  <2>2. ({s} \X AllKeys) \cap unlogged = {}
    BY <1>1, <1>10
  <2> QED
    BY <1>4, <1>8, <2>1, <2>2 DEF Alike
<1>11. Alike(data, data', unlogged') /\ Alike(promised', data', unlogged')
  BY <1>9, <1>10 DEF Alike
<1> QED
  BY <1>1, <1>2, <1>5, <1>11, AppliedUnlogged

\* What the invariant reads besides Typed.
logRead == <<data, promised, snapshot, walFile, walBuf, unlogged>>

\* A step that touches none of that keeps the invariant.
LEMMA LogFramed == LogIInv /\ Typed' /\ UNCHANGED logRead => LogIInv'
  BY DEF LogIInv, LogTyped, Joined, OnDisk, logRead

\* A log in two parts.
LEMMA Split ==
  ASSUME NEW log \in Seq(Entry), NEW n \in 0 .. Len(log)
  PROVE  /\ SubSeq(log, 1, n) \in Seq(Entry) /\ SubSeq(log, n + 1, Len(log)) \in Seq(Entry)
         /\ log = SubSeq(log, 1, n) \o SubSeq(log, n + 1, Len(log))
<1>1. 1 \in 1 .. Len(log) + 1 /\ n \in 1 - 1 .. Len(log) /\ Len(log) \in n .. Len(log)
  BY LenProperties
<1>2. SubSeq(log, 1, n) \o SubSeq(log, n + 1, Len(log)) = SubSeq(log, 1, Len(log))
  BY <1>1, ConcatAdjacentSubSeq
<1>3. SubSeq(log, 1, n) \in Seq(Entry) /\ SubSeq(log, n + 1, Len(log)) \in Seq(Entry)
  BY <1>1
<1>4. SubSeq(log, 1, Len(log)) = log
  BY SubSeqFull
<1> QED
  BY <1>2, <1>3, <1>4

\* Entries on their way to the file stay in the log.
LEMMA LogMoved ==
  ASSUME LogIInv, Typed',
         UNCHANGED <<data, promised, snapshot, unlogged>>,
         NEW n \in 0 .. Len(walBuf), Persisted(n)
  PROVE  LogIInv'
<1>1. walFile \in Seq(Entry) /\ walBuf \in Seq(Entry)
  BY DEF LogIInv, LogTyped
<1> DEFINE a == SubSeq(walBuf, 1, n)
           b == SubSeq(walBuf, n + 1, Len(walBuf))
<1>2. a \in Seq(Entry) /\ b \in Seq(Entry) /\ walBuf = a \o b
  BY <1>1, Split
<1>3. walFile' = walFile \o a /\ walBuf' = b
  BY DEF Persisted
<1> HIDE DEF a, b
<1>4. Joined' = Joined /\ walFile' \in Seq(Entry) /\ walBuf' \in Seq(Entry)
  BY <1>1, <1>2, <1>3, ConcatAssociative, ConcatProperties DEF Joined
<1>5. OnDisk' = OnDisk
  BY DEF OnDisk
<1> QED
  BY <1>4, <1>5 DEF LogIInv, LogTyped

\* A save makes the data the state file.
LEMMA LogSaved ==
  ASSUME LogIInv, Typed', snapshot' = data,
         UNCHANGED <<data, promised, walFile, walBuf, unlogged>>
  PROVE  LogIInv'
<1>1. OnDisk' = data
  BY DataIsAFile DEF OnDisk, LogIInv
<1>2. Repaired(Joined, data, data, promised, unlogged)
  BY DEF LogIInv, Repaired
<1>3. Joined' = Joined
  BY DEF Joined
<1> QED
  BY <1>1, <1>2, <1>3 DEF LogIInv, LogTyped

\* What is true of a step of the data and the log is true of the invariant.
LEMMA LogApplied ==
  ASSUME LogIInv, Typed',
         LogTyped' /\ Repaired(Joined, OnDisk, data, promised, unlogged)'
  PROVE  LogIInv'
  BY DEF LogIInv

\* The worker.
LEMMA WorkerLog == WALEnabled /\ LogIInv /\ Typed' /\ Worker => LogIInv'
<1> SUFFICES ASSUME WALEnabled, LogIInv, Typed', Worker PROVE LogIInv'
  OBVIOUS
<1>1. CASE TakeBatch \/ NoTableError \/ EndBatch \/ WriterExit
  <2>1. CASE NoTableError
    BY <2>1, LogFramed DEF NoTableError, Answer, logRead, diskVars, lifeVars
  <2>2. CASE TakeBatch \/ EndBatch \/ WriterExit
    BY <2>2, LogFramed DEF TakeBatch, EndBatch, WriterExit, logRead, dataVars, walVars, diskVars,
                           lifeVars
  <2> QED
    BY <1>1, <2>1, <2>2
<1>2. CASE ApplyCreate \/ ApplyWrite \/ ApplyDelete \/ ApplyRecords
  BY <1>2, CreateRepaired, RecordRepaired, RecordsRepaired, LogApplied
<1> QED
  BY <1>1, <1>2 DEF Worker

\* Replacing the data or the state file, where the differences are known.
LEMMA Replaced ==
  ASSUME NEW log \in Seq(Entry), NEW disk \in Data, NEW d \in Data, NEW ann, NEW U,
         NEW disk2 \in Data, NEW d2 \in Data, NEW ann2, NEW V, Repaired(log, disk, d, ann, U),
         U \cup Differing(disk, disk2) \cup Differing(d, d2) \subseteq V,
         ann2 \in {ann, d2}
  PROVE  Repaired(log, disk2, d2, ann2, V)
<1>1. ASSUME NEW p \in Places \ V
      PROVE  /\ Look(disk, p) = Look(disk2, p) /\ Look(d, p) = Look(d2, p)
             /\ Look(Replay(disk, log), p) = Look(d, p)
             /\ Look(Replay(d, log), p) = Look(d, p) /\ Look(ann, p) = Look(d, p)
  BY <1>1 DEF Repaired, Alike, Differing
<1>2. ASSUME NEW t \in Tables, ({t} \X AllKeys) \cap V = {}
      PROVE  /\ HasTable(disk, t) <=> HasTable(disk2, t)
             /\ HasTable(d, t) <=> HasTable(d2, t)
             /\ HasTable(Replay(disk, log), t) <=> HasTable(d, t)
             /\ HasTable(Replay(d, log), t) <=> HasTable(d, t)
             /\ HasTable(ann, t) <=> HasTable(d, t)
  <2>1. <<t, NoKey>> \in {t} \X AllKeys
    BY DEF AllKeys
  <2>2. <<t, NoKey>> \notin Differing(disk, disk2) /\ <<t, NoKey>> \notin Differing(d, d2)
    BY <1>2, <2>1
  <2> QED
    BY <1>2, <2>2 DEF Repaired, Alike, Differing
<1>3. Alike(Replay(disk2, log), d2, V)
  BY <1>1, <1>2, ReplayLocal DEF Alike
<1>4. Alike(Replay(d2, log), d2, V)
  BY <1>1, <1>2, ReplayLocal DEF Alike
<1>5. Alike(ann2, d2, V)
  BY <1>1, <1>2 DEF Alike
<1> QED
  BY <1>3, <1>4, <1>5 DEF Repaired

\* An import and a reload replace the data, another process the state file.
LEMMA ReplacedLog ==
  ASSUME LogIInv, Typed', UNCHANGED <<walFile, walBuf>>, promised' \in {promised, data'},
         unlogged \cup Differing(OnDisk, OnDisk') \cup Differing(data, data') \subseteq unlogged'
  PROVE  LogIInv'
<1>1. /\ OnDisk \in Data /\ OnDisk' \in Data /\ data \in Data /\ data' \in Data
      /\ Joined \in Seq(Entry) /\ Joined' = Joined
  BY EmptyDataTyped, ConcatProperties DEF LogIInv, LogTyped, Typed, OnDisk, Joined
<1>2. Repaired(Joined, OnDisk, data, promised, unlogged)
  BY DEF LogIInv
<1>3. Repaired(Joined, OnDisk', data', promised', unlogged')
  BY <1>1, <1>2, Replaced
<1>4. LogTyped'
  BY <1>1 DEF LogIInv, LogTyped
<1> QED
  BY <1>1, <1>3, <1>4 DEF LogIInv

\* What does not change does not differ.
LEMMA NothingDiffers == ASSUME NEW d PROVE Differing(d, d) = {}
  BY DEF Differing

\* An entry is about one place.
LEMMA EntryLeaves ==
  ASSUME NEW e \in Entry
  PROVE  /\ PlaceOf(e) \in Places /\ PlaceOf(e)[1] = e.table
         /\ \A d \in Data, p \in Places :
              p # PlaceOf(e) => Look(Replay1(d, e), p) = Look(d, p)
         /\ \A d \in Data, t \in Tables :
              t # e.table => (HasTable(Replay1(d, e), t) <=> HasTable(d, t))
<1>1. e.type \in {"create", "write", "delete"} /\ e.table \in Tables
  BY DEF Entry
<1>2. e.type # "create" => e.key \in AllKeys
  BY DEF Entry, AllKeys
<1>3. PlaceOf(e) \in Places /\ PlaceOf(e)[1] = e.table
  BY <1>1, <1>2 DEF PlaceOf, Places, AllKeys
<1>4. CASE e.type = "create"
  BY <1>3, <1>4, CreateShows
<1>5. CASE e.type = "write"
  <2>1. PlaceOf(e) = <<e.table, e.key>>
    BY <1>5 DEF PlaceOf
  <2> QED
    BY <1>3, <1>5, <2>1, WriteShows
<1>6. CASE e.type = "delete"
  <2>1. PlaceOf(e) = <<e.table, e.key>>
    BY <1>6 DEF PlaceOf
  <2> QED
    BY <1>3, <1>6, <2>1, DeleteShows
<1> QED
  BY <1>1, <1>4, <1>5, <1>6

\* A log is about the places of its entries.
LEMMA TouchedLeaves ==
  \A log \in Seq(Entry) :
    /\ Touched(log) \subseteq Places
    /\ \A p \in Places \ Touched(log) : LogLeaves(log, p)
    /\ \A t \in Tables : ({t} \X AllKeys) \cap Touched(log) = {} => LogLeavesTable(log, t)
<1> DEFINE G == {log \in Seq(Entry) :
                   /\ Touched(log) \subseteq Places
                   /\ \A p \in Places \ Touched(log) : LogLeaves(log, p)
                   /\ \A t \in Tables : ({t} \X AllKeys) \cap Touched(log) = {}
                                           => LogLeavesTable(log, t)}
<1>1. <<>> \in G
  BY ReplayEmpty DEF Touched, LogLeaves, LogLeavesTable
<1>2. ASSUME NEW log \in Seq(Entry), NEW e \in Entry, log \in G
      PROVE  Append(log, e) \in G
  <2> DEFINE long == Append(log, e)
  <2>1. /\ long \in Seq(Entry) /\ \A d \in Data : Replay(d, long) = Replay1(Replay(d, log), e)
        /\ \A d \in Data : Replay(d, log) \in Data
    BY ReplayAppend, LogEffect
  <2>2. Touched(long) = Touched(log) \cup {PlaceOf(e)}
    <3>1. /\ Len(log) \in Nat /\ DOMAIN log = 1 .. Len(log)
          /\ DOMAIN long = 1 .. Len(log) + 1 /\ long[Len(log) + 1] = e
          /\ \A i \in 1 .. Len(log) : long[i] = log[i]
      BY AppendProperties, LenProperties
    <3> HIDE DEF long
    <3>2. 1 .. Len(log) + 1 = (1 .. Len(log)) \cup {Len(log) + 1}
      BY <3>1
    <3> QED
      BY <3>1, <3>2 DEF Touched
  <2>3. /\ Touched(log) \subseteq Places
        /\ \A p \in Places \ Touched(log) : LogLeaves(log, p)
        /\ \A t \in Tables : ({t} \X AllKeys) \cap Touched(log) = {} => LogLeavesTable(log, t)
    BY <1>2
  <2> HIDE DEF long
  <2>4. PlaceOf(e) \in Places /\ PlaceOf(e)[1] = e.table
    BY EntryLeaves
  <2>5. ASSUME NEW p \in Places \ Touched(long) PROVE LogLeaves(long, p)
    <3>1. p # PlaceOf(e) /\ LogLeaves(log, p)
      BY <2>2, <2>3, <2>5
    <3> QED
      BY <2>1, <3>1, EntryLeaves DEF LogLeaves
  <2>6. ASSUME NEW t \in Tables, ({t} \X AllKeys) \cap Touched(long) = {}
        PROVE  LogLeavesTable(long, t)
    <3>1. PlaceOf(e) \in {PlaceOf(e)[1]} \X AllKeys
      BY <2>4, PlaceIs
    <3>2. t # e.table /\ LogLeavesTable(log, t)
      BY <2>2, <2>3, <2>4, <2>6, <3>1
    <3> QED
      BY <2>1, <3>2, EntryLeaves DEF LogLeavesTable
  <2> QED
    BY <2>1, <2>2, <2>3, <2>4, <2>5, <2>6 DEF long
<1> HIDE DEF G
<1>3. Seq(Entry) \subseteq G
  BY <1>1, <1>2, SeqInduction
<1> QED
  BY <1>3 DEF G

\* Without the first part of a log, the rest repairs all but its places.
LEMMA Retired ==
  ASSUME NEW old \in Seq(Entry), NEW log \in Seq(Entry), NEW disk \in Data, NEW d \in Data,
         NEW ann, NEW U, Repaired(old \o log, disk, d, ann, U)
  PROVE  Repaired(log, disk, d, ann, U \cup Touched(old))
<1> DEFINE V == U \cup Touched(old)
<1>1. ASSUME NEW f \in Data
      PROVE  /\ \A p \in Places \ V : Look(Replay(f, old \o log), p) = Look(Replay(f, log), p)
             /\ \A t \in Tables : ({t} \X AllKeys) \cap V = {} =>
                  (HasTable(Replay(f, old \o log), t) <=> HasTable(Replay(f, log), t))
  <2>1. Replay(f, old \o log) = Replay(Replay(f, old), log) /\ Replay(f, old) \in Data
    BY ReplayConcat, LogEffect
  <2>2. \A p \in Places \ V : Look(Replay(f, old), p) = Look(f, p)
    BY TouchedLeaves DEF LogLeaves
  <2>3. ASSUME NEW t \in Tables, ({t} \X AllKeys) \cap V = {}
        PROVE  HasTable(Replay(f, old), t) <=> HasTable(f, t)
    <3>1. ({t} \X AllKeys) \cap Touched(old) = {}
      BY <2>3
    <3> QED
      BY <3>1, TouchedLeaves DEF LogLeavesTable
  <2> QED
    BY <2>1, <2>2, <2>3, ReplayLocal
<1>2. ASSUME NEW t \in Tables, ({t} \X AllKeys) \cap V = {}
      PROVE  ({t} \X AllKeys) \cap U = {}
  BY <1>2
<1>3. Alike(Replay(disk, log), d, V) /\ Alike(Replay(d, log), d, V) /\ Alike(ann, d, V)
  BY <1>1, <1>2 DEF Repaired, Alike
<1> QED
  BY <1>3 DEF Repaired

\* A rotation makes the log forget what it takes away.
LEMMA RotateLog == LogIInv /\ Typed' /\ LogRotate => LogIInv'
<1> SUFFICES ASSUME LogIInv, Typed', LogRotate PROVE LogIInv'
  OBVIOUS
<1>1. /\ walFile \in Seq(Entry) /\ walBuf \in Seq(Entry) /\ Len(walBuf) \in Nat
      /\ data \in Data /\ OnDisk \in Data
  BY LenProperties, EmptyDataTyped DEF LogIInv, LogTyped, Typed, OnDisk
<1>2. PICK n \in 0 .. Len(walBuf) :
        /\ unlogged' = unlogged \cup Touched(walFile \o SubSeq(walBuf, 1, n))
        /\ walBuf' = SubSeq(walBuf, n + 1, Len(walBuf))
  BY <1>1 DEF LogRotate
<1>3. walFile' = <<>> /\ UNCHANGED <<data, promised, snapshot>>
  BY DEF LogRotate, logFrame, dataVars, diskVars
<1> DEFINE a == SubSeq(walBuf, 1, n)
           b == SubSeq(walBuf, n + 1, Len(walBuf))
<1>4. a \in Seq(Entry) /\ b \in Seq(Entry) /\ walBuf = a \o b
  BY <1>1, Split
<1>5. walBuf' = b /\ unlogged' = unlogged \cup Touched(walFile \o a)
  BY <1>2
<1> HIDE DEF a, b
<1>6. walFile \o a \in Seq(Entry) /\ Joined = (walFile \o a) \o b
  <2>1. Joined = walFile \o (a \o b)
    BY <1>4 DEF Joined
  <2>2. walFile \o (a \o b) = (walFile \o a) \o b
    BY <1>1, <1>4, ConcatAssociative
  <2>3. walFile \o a \in Seq(Entry)
    BY <1>1, <1>4, ConcatProperties
  <2> QED
    BY <2>1, <2>2, <2>3
<1>7. Joined' = b /\ OnDisk' = OnDisk
  BY <1>3, <1>4, <1>5, ConcatEmptySeq DEF Joined, OnDisk
<1>8. Repaired(b, OnDisk, data, promised, unlogged \cup Touched(walFile \o a))
  BY <1>1, <1>4, <1>6, Retired DEF LogIInv
<1>9. LogTyped'
  BY <1>3, <1>4, <1>5 DEF LogIInv, LogTyped
<1> QED
  BY <1>3, <1>5, <1>7, <1>8, <1>9 DEF LogIInv

\* A Close that drains the log moves it to the file, any other leaves it.
LEMMA CloseLog == LogIInv /\ Typed' /\ Close => LogIInv'
<1> SUFFICES ASSUME LogIInv, Typed', Close PROVE LogIInv'
  OBVIOUS
<1>1. UNCHANGED <<data, promised, snapshot, unlogged>>
  BY DEF Close, CloseMark, CloseCancel, CloseSave, CloseSaved, CloseWAL, closeFrame,
         dataVars, diskVars, walVars
<1>2. CASE UNCHANGED <<walFile, walBuf>>
  BY <1>1, <1>2, LogFramed DEF logRead
<1>3. CASE walFile' = Joined /\ walBuf' = <<>>
  <2>1. Joined \in Seq(Entry) /\ <<>> \in Seq(Entry)
    BY ConcatProperties DEF LogIInv, LogTyped, Joined
  <2>2. Joined' = Joined /\ OnDisk' = OnDisk
    BY <1>1, <1>3, <2>1, ConcatEmptySeq DEF Joined, OnDisk
  <2> QED
    BY <1>1, <1>3, <2>1, <2>2 DEF LogIInv, LogTyped
<1> QED
  BY <1>2, <1>3 DEF Close, CloseMark, CloseCancel, CloseSave, CloseSaved, CloseWAL, walVars, Joined

\* A restart replays the log.
LEMMA ReopenLog == WALEnabled /\ LogIInv /\ Typed' /\ Reopen => LogIInv'
<1> SUFFICES ASSUME WALEnabled, LogIInv, Typed', Reopen PROVE LogIInv'
  OBVIOUS
<1>1. OnDisk \in Data /\ walFile \in Seq(Entry)
  BY EmptyDataTyped DEF LogIInv, LogTyped, Typed, OnDisk
<1>2. /\ data' = Replay(OnDisk, walFile) /\ promised' = data' /\ unlogged' = {}
      /\ walBuf' = <<>> /\ UNCHANGED <<walFile, snapshot>>
  BY DEF Reopen
<1>3. OnDisk' = OnDisk /\ Joined' = walFile
  BY <1>1, <1>2, ConcatEmptySeq DEF OnDisk, Joined
<1>4. LogTyped'
  BY <1>1, <1>2 DEF LogIInv, LogTyped, Typed
<1>5. Repaired(walFile, OnDisk, data', data', {})
  BY <1>1, <1>2, Restarted
<1>6. Repaired(Joined, OnDisk, data, promised, unlogged)'
  BY <1>2, <1>3, <1>5
<1> QED
  BY <1>2, <1>4, <1>6, LogApplied

\* Every step keeps the invariant.
LEMMA NextLog == ASSUME WALEnabled, LogIInv, [Next]_vars PROVE LogIInv'
<1>0. Typed'
  BY NextTyped DEF LogIInv, LogTyped
<1>1. ASSUME NEW op \in Ops, Submit(op)
      PROVE  LogIInv'
  BY <1>0, <1>1, LogFramed DEF Submit, logRead, dataVars, walVars, diskVars
<1>2. CASE Worker
  BY <1>0, <1>2, WorkerLog
<1>3. CASE LogPersist \/ LogStop
  <2>1. UNCHANGED <<data, promised, snapshot, unlogged>>
    BY <1>3 DEF LogPersist, LogStop, logFrame, dataVars, diskVars
  <2>2. \E n \in 0 .. Len(walBuf) : Persisted(n)
    BY <1>3 DEF LogPersist, LogStop
  <2> QED
    BY <1>0, <1>3, <2>1, <2>2, LogMoved
<1>4. CASE LogRotate
  BY <1>0, <1>4, RotateLog
<1>5. CASE FlushToDisk
  <2>1. ASSUME NEW s \in Savers, Save(s)
        PROVE  LogIInv'
    BY <1>0, <1>5, <2>1, LogSaved DEF Save, saveFrame, walVars
  <2>2. CASE PeriodicDue \/ PeriodicLast \/ \E s \in Savers : SaveError(s) \/ ClearDirty(s)
    BY <1>0, <2>2, LogFramed DEF PeriodicDue, PeriodicLast, SaveError, ClearDirty, saveFrame,
                                 logRead, walVars, diskVars
  <2> QED
    BY <1>5, <2>1, <2>2 DEF FlushToDisk
<1>6. CASE Watcher
  <2>1. CASE WatchReload
    <3>1. OnDisk' = OnDisk
      BY <2>1 DEF WatchReload, OnDisk
    <3> QED
      BY <1>0, <2>1, <3>1, ReplacedLog, NothingDiffers DEF WatchReload, watchFrame
  <2>2. CASE WatchSee \/ WatchSkip \/ WatcherExit
    BY <1>0, <2>2, LogFramed DEF WatchSee, WatchSkip, WatcherExit, watchFrame, logRead, diskVars
  <2> QED
    BY <1>6, <2>1, <2>2 DEF Watcher
<1>7. CASE Flush
  <2>1. CASE FlushPoll \/ FlushRefused \/ FlushNothing
    BY <1>0, <2>1, LogFramed DEF FlushPoll, FlushRefused, FlushNothing, flushNoLog, flushFrame,
                                 logRead, diskVars
  <2>2. CASE FlushUnverified \/ FlushSave
    BY <1>0, <1>7, <2>2, LogSaved DEF FlushUnverified, FlushSave, flushNoLog, flushFrame
  <2>3. CASE FlushEnd
    <3>1. UNCHANGED <<data, promised, snapshot, unlogged>>
      BY <2>3 DEF FlushEnd, flushFrame, diskVars
    <3>2. 0 \in 0 .. Len(walBuf)
      BY LenProperties DEF LogIInv, LogTyped
    <3>3. \E n \in 0 .. Len(walBuf) : Persisted(n)
      BY <2>3, <3>2 DEF FlushEnd
    <3> QED
      BY <1>0, <1>7, <3>1, <3>3, LogMoved
  <2> QED
    BY <1>7, <2>1, <2>2, <2>3 DEF Flush
<1>8. ASSUME NEW d \in Imports, Import(d)
      PROVE  LogIInv'
  <2>1. /\ data' = d /\ promised' = d /\ unlogged' = unlogged \cup Differing(data, d)
        /\ UNCHANGED <<snapshot, walFile, walBuf>>
    BY <1>8 DEF Import, diskVars
  <2>2. OnDisk' = OnDisk
    BY <2>1 DEF OnDisk
  <2> QED
    BY <1>0, <2>1, <2>2, ReplacedLog, NothingDiffers
<1>9. ASSUME NEW d \in Imports, ForeignSave(d)
      PROVE  LogIInv'
  <2>1. /\ snapshot' = d /\ unlogged' = unlogged \cup Differing(OnDisk, d)
        /\ UNCHANGED <<data, promised, walFile, walBuf>>
    BY <1>9 DEF ForeignSave, dataVars
  <2>2. OnDisk' = d
    BY <2>1, DatabaseAssumption DEF OnDisk, DatabaseAssumption
  <2> QED
    BY <1>0, <2>1, <2>2, ReplacedLog, NothingDiffers
<1>10. ASSUME NEW t \in Txs, Transaction(t)
       PROVE  LogIInv'
  <2>1. CASE CommitApply(t)
    BY <1>0, <1>10, <2>1, CommitRepaired, LogApplied
  <2>2. CASE BeginTransaction(t) \/ Rollback(t) \/ CommitFinalize(t) \/ CommitConflict(t)
    BY <1>0, <2>2, LogFramed DEF BeginTransaction, Rollback, CommitFinalize, CommitConflict,
                                 txFrame, logRead, diskVars
  <2> QED
    BY <1>10, <2>1, <2>2 DEF Transaction
<1>11. CASE Close
  BY <1>0, <1>11, CloseLog
<1>12. CASE Crash
  BY <1>0, <1>12, LogFramed DEF Crash, closeFrame, logRead, dataVars, walVars, diskVars
<1>13. CASE Reopen
  BY <1>0, <1>13, ReopenLog
<1>14. CASE UNCHANGED vars
  BY <1>0, <1>14, LogFramed DEF vars, logRead, dataVars, walVars, diskVars
<1> QED
  BY <1>1, <1>2, <1>3, <1>4, <1>5, <1>6, <1>7, <1>8, <1>9, <1>10, <1>11, <1>12, <1>13, <1>14
     DEF Next

\* An empty log over no file.
LEMMA InitLog == Init => LogIInv
<1> SUFFICES ASSUME Init PROVE LogIInv
  OBVIOUS
<1>1. Typed
  BY InitTyped
<1>2. /\ data = EmptyData /\ promised = EmptyData /\ snapshot = NoFile
      /\ walFile = <<>> /\ walBuf = <<>> /\ unlogged = {}
  BY DEF Init
<1>3. <<>> \in Seq(Entry) /\ Joined = <<>> /\ OnDisk = EmptyData
  BY <1>2, ConcatEmptySeq DEF Joined, OnDisk
<1>4. LogTyped
  BY <1>2, <1>3, EmptyDataTyped DEF LogTyped
<1>5. Replay(EmptyData, <<>>) = EmptyData
  BY ReplayEmpty
<1>6. Repaired(Joined, OnDisk, data, promised, unlogged)
  BY <1>2, <1>3, <1>5 DEF Repaired, Alike
<1> QED
  BY <1>1, <1>2, <1>4, <1>6 DEF LogIInv

\* The invariant holds where the log is on.
LEMMA LogInvariant == ASSUME WALEnabled PROVE Spec => []LogIInv
<1>1. LogIInv /\ [Next]_vars => LogIInv'
  BY NextLog
<1> QED
  BY InitLog, <1>1, PTL DEF Spec

\* recoverFromWAL: whatever periodicSave, Flush, Import, another process, a
\* failing save and the crashes before have left in the state file, replaying the
\* log over it gives the data in memory, but at the places that were changed
\* without an entry or whose entries a rotation took away.
THEOREM LogRepairsState == ASSUME WALEnabled PROVE Spec => []LogRepairs
<1>1. LogIInv => LogRepairs
  <2> SUFFICES ASSUME LogIInv
               PROVE  AgreeBut(Replay(OnDisk, Joined), data, unlogged)
    BY DEF LogRepairs, Joined
  <2>1. OnDisk \in Data /\ data \in Data /\ Joined \in Seq(Entry)
    BY EmptyDataTyped, ConcatProperties DEF LogIInv, LogTyped, Typed, OnDisk, Joined
  <2>2. Replay(OnDisk, Joined) \in Data
    BY <2>1, LogEffect
  <2>3. Alike(Replay(OnDisk, Joined), data, unlogged)
    BY DEF LogIInv, Repaired
  <2> QED
    BY <2>1, <2>2, <2>3, AlikeAgrees
<1> QED
  BY LogInvariant, <1>1, PTL

\* Without the last part of a log, the rest agrees with all of it but there.
LEMMA Unread ==
  ASSUME NEW log \in Seq(Entry), NEW more \in Seq(Entry), NEW d \in Data, NEW f, NEW U,
         Alike(Replay(d, log \o more), f, U)
  PROVE  Alike(Replay(d, log), f, U \cup Touched(more))
<1>1. Replay(d, log \o more) = Replay(Replay(d, log), more) /\ Replay(d, log) \in Data
  BY ReplayConcat, LogEffect
<1>2. ASSUME NEW t \in Tables, ({t} \X AllKeys) \cap (U \cup Touched(more)) = {}
      PROVE  HasTable(Replay(d, log), t) <=> HasTable(f, t)
  <2>1. ({t} \X AllKeys) \cap U = {} /\ ({t} \X AllKeys) \cap Touched(more) = {}
    BY <1>2
  <2>2. LogLeavesTable(more, t)
    BY <2>1, TouchedLeaves
  <2> QED
    BY <1>1, <2>1, <2>2 DEF LogLeavesTable, Alike
<1>3. ASSUME NEW p \in Places \ (U \cup Touched(more))
      PROVE  Look(Replay(d, log), p) = Look(f, p)
  <2>1. LogLeaves(more, p)
    BY TouchedLeaves
  <2> QED
    BY <1>1, <2>1 DEF LogLeaves, Alike
<1> QED
  BY <1>2, <1>3 DEF Alike

\* InitWithConfig after a Close or a crash at any step: every answered write that
\* was logged is there again, in the state file or from the log, but for those
\* whose entries had not reached the log file.
THEOREM RestartKeepsWrites == ASSUME WALEnabled PROVE Spec => RestartKeepsAnswers
<1>1. LogIInv /\ [Next]_vars =>
        [phase # "up" /\ phase' = "up"
           => AgreeBut(data', promised, unlogged \cup Touched(walBuf))]_vars
  <2> SUFFICES ASSUME LogIInv, [Next]_vars, phase # "up", phase' = "up"
               PROVE  AgreeBut(data', promised, unlogged \cup Touched(walBuf))
    OBVIOUS
  <2>1. Reopen
    BY DEF Next, vars, lifeVars
  <2>2. /\ OnDisk \in Data /\ promised \in Data
        /\ walFile \in Seq(Entry) /\ walBuf \in Seq(Entry)
    BY EmptyDataTyped DEF LogIInv, LogTyped, Typed, OnDisk
  <2>3. data' = Replay(OnDisk, walFile)
    BY <2>1 DEF Reopen
  <2>4. data' \in Data
    BY <2>2, <2>3, LogEffect
  <2>5. Alike(Replay(OnDisk, walFile \o walBuf), promised, unlogged)
    BY DEF LogIInv, Repaired, Joined, Alike
  <2>6. Alike(data', promised, unlogged \cup Touched(walBuf))
    BY <2>2, <2>3, <2>5, Unread
  <2> QED
    BY <2>2, <2>4, <2>6, AlikeAgrees
<1> QED
  BY LogInvariant, <1>1, PTL DEF Spec, RestartKeepsAnswers

-----------------------------------------------------------------------------
(***************************************************************************)
(* Types.  What is left to Typed: the log and what it does not know of, the*)
(* counters, and the places of the goroutines.                             *)
(***************************************************************************)

CountersTyped ==
  /\ version \in Nat /\ submitted \in 0 .. MaxOps /\ reopens \in 0 .. MaxReopens
  /\ successCount \in Nat /\ oks \in 0 .. successCount
  /\ {dirtyFlag, walStopped, fresh, closed, ctxDone, foreign} \subseteq BOOLEAN

PlacesTyped ==
  /\ dataMutex \in {"free", "worker", "flush"}
  /\ saver \in [Savers -> {"idle", "due", "saved"}]
  /\ watcher \in {"idle", "seen"} /\ fpc \in {"idle", "polled", "saved"}
  /\ tpc \in [Txs -> {"none", "active", "committing", "finished"}]
  /\ exited \subseteq Workers
  /\ cpc \in {"open", "marked", "waiting", "saving", "closingWAL"}
  /\ phase \in {"up", "closed", "crashed"}

KnownTyped == LogTyped /\ unlogged \subseteq Places

SnapshotsTyped == tver \in [Txs -> Nat] /\ tsnap \in [Txs -> Data]

TypeIInv == Typed /\ KnownTyped /\ CountersTyped /\ PlacesTyped /\ SnapshotsTyped

\* The parts are the type invariant.
LEMMA TypeParts == TypeIInv => TypeOK
  BY DEF TypeIInv, Typed, KnownTyped, LogTyped, CountersTyped, PlacesTyped, SnapshotsTyped,
         TypeOK

\* The beginning.
LEMMA InitTypes == Init => TypeIInv
<1> SUFFICES ASSUME Init PROVE TypeIInv
  OBVIOUS
<1>1. Typed /\ LogTyped
  BY InitTyped, InitLog DEF LogIInv
<1>2. CountersTyped
  <2>1. /\ version \in Nat /\ successCount \in Nat /\ oks \in 0 .. successCount
        /\ submitted \in 0 .. MaxOps /\ reopens \in 0 .. MaxReopens
    BY DatabaseAssumption DEF Init, DatabaseAssumption
  <2>2. {dirtyFlag, walStopped, fresh, closed, ctxDone, foreign} \subseteq BOOLEAN
    BY Zenon DEF Init
  <2> QED
    BY <2>1, <2>2 DEF CountersTyped
<1>3. PlacesTyped
  BY DEF Init, PlacesTyped
<1>4. KnownTyped /\ SnapshotsTyped
  BY <1>1, EmptyDataTyped DEF Init, KnownTyped, SnapshotsTyped
<1> QED
  BY <1>1, <1>2, <1>3, <1>4 DEF TypeIInv

\* What the worker announces, logs and leaves out of the log.
LEMMA ApplyKnown ==
  ASSUME Typed, KnownTyped,
         ApplyCreate \/ NoTableError \/ ApplyWrite \/ ApplyDelete \/ ApplyRecords
  PROVE  KnownTyped'
<1> DEFINE op == Head(batch)
<1>1. batch # <<>> /\ \E ok \in BOOLEAN : Answer(ok)
  BY DEF ApplyCreate, NoTableError, ApplyWrite, ApplyDelete, ApplyRecords, Next1
<1>2. op \in Operation /\ op.table \in Tables
  BY <1>1, HeadIs
<1>3. walFile' = walFile /\ (promised' = promised \/ promised' = Announced(promised, op))
  BY <1>1 DEF Answer
<1>4. promised' \in Data /\ walFile' \in Seq(Entry)
  <2> HIDE DEF op
  <2> QED
    BY <1>2, <1>3, AnnouncedShows DEF KnownTyped, LogTyped
<1>5. ASSUME NEW more \in Seq(Entry), NEW failed \in SUBSET Places, Logged(more, failed)
      PROVE  KnownTyped'
  <2>1. walBuf \o more \in Seq(Entry)
    BY ConcatProperties DEF KnownTyped, LogTyped
  <2> QED
    BY <1>4, <1>5, <2>1 DEF Logged, KnownTyped, LogTyped
<1>6. <<>> \in Seq(Entry) /\ {} \in SUBSET Places
  BY ConcatEmptySeq DEF KnownTyped, LogTyped
<1>7. CASE ApplyCreate
  <2> DEFINE e == [type |-> "create", table |-> op.table]
  <2>1. e \in Entry
    BY <1>2 DEF Entry
  <2>2. {op.table} \X AllKeys \in SUBSET Places
    BY <1>2 DEF Places
  <2>3. Logged(<<>>, {op.table} \X AllKeys) \/ Logged(<<e>>, {})
    BY <1>7 DEF ApplyCreate
  <2> HIDE DEF e, op
  <2>4. <<e>> \in Seq(Entry)
    BY <2>1
  <2> QED
    BY <1>5, <1>6, <2>2, <2>3, <2>4
<1>8. CASE NoTableError
  BY <1>4, <1>8 DEF NoTableError, KnownTyped, LogTyped
<1>9. CASE ApplyWrite \/ ApplyDelete
  <2>1. op.type \in {"write", "delete"}
    BY <1>9 DEF ApplyWrite, ApplyDelete, Next1
  <2>2. Logged(<<>>, {<<op.table, op.key>>}) \/ Logged(<<op>>, {})
    BY <1>9 DEF ApplyWrite, ApplyDelete
  <2> HIDE DEF op
  <2>3. op \in Entry /\ {<<op.table, op.key>>} \in SUBSET Places
    BY <1>2, <2>1 DEF Operation, Entry, Places, AllKeys
  <2>4. <<op>> \in Seq(Entry)
    BY <2>3
  <2> QED
    BY <1>5, <1>6, <2>2, <2>3, <2>4
<1>10. CASE ApplyRecords
  <2> DEFINE t == op.table
             recs == op.records
             keyed(failed) == {t} \X (IF failed = {} THEN {} ELSE failed \cup {NoKey})
  <2>1. op.type = "batch" /\ op \in Ops
    BY <1>1, <1>10, HeadTailProperties DEF ApplyRecords, Next1, Typed
  <2>2. PICK K \in SUBSET Keys : recs \in [K -> Vals]
    <3> HIDE DEF op
    <3> QED
      BY <1>2, <2>1 DEF Operation
  <2>3. DOMAIN recs = K /\ IsFiniteSet(K)
    BY <2>1, <2>2, DatabaseAssumption DEF DatabaseAssumption
  <2>4. PICK failed \in SUBSET K : \E order \in SetToSeqs(K \ failed) :
          Logged(Writes(t, recs, order), keyed(failed))
    BY <1>10, <2>3 DEF ApplyRecords, Writes, WriteOf
  <2>5. PICK order \in SetToSeqs(K \ failed) : Logged(Writes(t, recs, order), keyed(failed))
    BY <2>4
  <2> HIDE DEF t, recs, op
  <2>6. IsFiniteSet(K \ failed)
    BY <2>3, FS_Difference
  <2>7. order \in Seq(K)
    <3>1. order \in Seq(K \ failed)
      BY <2>6, OrderHasAll
    <3> QED
      BY <3>1
  <2>8. Writes(t, recs, order) \in Seq(Entry)
    BY <1>2, <2>2, <2>7, WritesShow DEF t
  <2>9. keyed(failed) \in SUBSET Places
    BY <1>2 DEF Places, AllKeys, t
  <2> QED
    BY <1>5, <2>5, <2>8, <2>9
<1> QED
  BY <1>7, <1>8, <1>9, <1>10

\* Entries on their way to the file.
LEMMA PersistedTyped ==
  ASSUME LogTyped, NEW n \in 0 .. Len(walBuf), Persisted(n)
  PROVE  walFile' \in Seq(Entry) /\ walBuf' \in Seq(Entry)
<1>1. walFile \in Seq(Entry) /\ walBuf \in Seq(Entry)
  BY DEF LogTyped
<1>2. SubSeq(walBuf, 1, n) \in Seq(Entry) /\ SubSeq(walBuf, n + 1, Len(walBuf)) \in Seq(Entry)
  BY <1>1
<1> QED
  BY <1>1, <1>2, ConcatProperties DEF Persisted

\* States differ in places.
LEMMA DifferingPlaces == \A d, e : Differing(d, e) \subseteq Places
  BY DEF Differing, Places, AllKeys

\* Every step keeps the log and the announced state typed.
LEMMA KnownKeeps == ASSUME TypeIInv, Typed', [Next]_vars PROVE KnownTyped'
<1>1. Typed /\ KnownTyped /\ LogTyped
  BY DEF TypeIInv, KnownTyped
<1>2. walFile \in Seq(Entry) /\ walBuf \in Seq(Entry) /\ promised \in Data /\ unlogged \subseteq Places
  BY <1>1 DEF KnownTyped, LogTyped
<1>3. Len(walBuf) \in Nat /\ <<>> \in Seq(Entry)
  BY <1>2, LenProperties, ConcatEmptySeq
<1>4. CASE UNCHANGED <<walVars, promised>>
  BY <1>1, <1>4 DEF walVars, KnownTyped, LogTyped
<1>5. ASSUME NEW n \in 0 .. Len(walBuf), Persisted(n), UNCHANGED <<promised, unlogged>>
      PROVE  KnownTyped'
  BY <1>1, <1>5, PersistedTyped DEF KnownTyped, LogTyped
<1>6. CASE Worker
  <2>1. CASE TakeBatch \/ EndBatch \/ WriterExit
    BY <1>4, <2>1 DEF TakeBatch, EndBatch, WriterExit
  <2> QED
    BY <1>1, <1>6, <2>1, ApplyKnown DEF Worker
<1>7. CASE LogPersist \/ LogStop
  <2>1. PICK n \in 0 .. Len(walBuf) : Persisted(n)
    BY <1>3, <1>7 DEF LogPersist, LogStop
  <2> QED
    BY <1>5, <1>7, <2>1 DEF LogPersist, LogStop, logFrame
<1>8. CASE LogRotate
  <2>1. PICK n \in 0 .. Len(walBuf) :
          /\ unlogged' = unlogged \cup Touched(walFile \o SubSeq(walBuf, 1, n))
          /\ walBuf' = SubSeq(walBuf, n + 1, Len(walBuf))
    BY <1>3, <1>8 DEF LogRotate
  <2>2. walFile \o SubSeq(walBuf, 1, n) \in Seq(Entry) /\ walBuf' \in Seq(Entry)
    BY <1>2, <2>1, Split, ConcatProperties
  <2>3. unlogged' \subseteq Places
    BY <1>2, <2>1, <2>2, TouchedLeaves
  <2> QED
    BY <1>2, <1>3, <1>8, <2>2, <2>3 DEF LogRotate, logFrame, KnownTyped, LogTyped
<1>9. CASE FlushToDisk \/ Watcher
  <2>1. CASE WatchReload
    BY <1>2, <2>1, DifferingPlaces DEF WatchReload, watchFrame, KnownTyped, LogTyped
  <2> QED
    BY <1>4, <1>9, <2>1 DEF FlushToDisk, PeriodicDue, PeriodicLast, Save, SaveError, ClearDirty,
         saveFrame, Watcher, WatchSee, WatchSkip, WatcherExit, watchFrame, walVars
<1>10. CASE Flush
  <2>1. CASE FlushEnd
    <3>1. PICK n \in 0 .. Len(walBuf) : Persisted(n)
      BY <1>3, <2>1 DEF FlushEnd
    <3> QED
      BY <1>5, <2>1, <3>1 DEF FlushEnd, flushFrame
  <2>2. CASE FlushPoll \/ FlushRefused \/ FlushNothing \/ FlushUnverified \/ FlushSave
    BY <1>4, <2>2 DEF FlushPoll, FlushRefused, FlushNothing, FlushUnverified, FlushSave,
         flushNoLog, flushFrame, walVars
  <2> QED
    BY <1>10, <2>1, <2>2 DEF Flush
<1>11. ASSUME NEW d \in Imports, Import(d) \/ ForeignSave(d) PROVE KnownTyped'
  BY <1>2, <1>11, DatabaseAssumption, DifferingPlaces
     DEF DatabaseAssumption, Import, ForeignSave, KnownTyped, LogTyped
<1>12. ASSUME NEW t \in Txs, Transaction(t) PROVE KnownTyped'
  <2>1. CASE CommitApply(t)
    <3>1. PICK changes \in TxChanges :
             /\ promised' = Committed(promised, changes)
             /\ unlogged' = unlogged \cup UnloggedBy(changes)
      BY <2>1 DEF CommitApply
    <3>2. changes \in Changes
      BY DatabaseAssumption DEF DatabaseAssumption
    <3>3. promised' \in Data
      BY <1>2, <3>1, <3>2, CommittedTyped
    <3>4. DOMAIN changes \subseteq Tables \X Keys
      BY <3>2 DEF Changes
    <3>5. UnloggedBy(changes) \subseteq Places
      BY <3>4 DEF UnloggedBy, Places, AllKeys
    <3> QED
      BY <1>2, <2>1, <3>1, <3>3, <3>5 DEF CommitApply, txFrame, KnownTyped, LogTyped
  <2>2. CASE BeginTransaction(t) \/ Rollback(t) \/ CommitFinalize(t) \/ CommitConflict(t)
    BY <1>4, <2>2 DEF BeginTransaction, Rollback, CommitFinalize, CommitConflict, txFrame,
         walVars
  <2> QED
    BY <1>12, <2>1, <2>2 DEF Transaction
<1>13. CASE Close
  <2>1. CASE CloseWAL
    <3>1. walFile \o walBuf \in Seq(Entry)
      BY <1>2, ConcatProperties
    <3> QED
      BY <1>2, <1>3, <2>1, <3>1 DEF CloseWAL, closeFrame, KnownTyped, LogTyped
  <2>2. CASE CloseMark \/ CloseCancel \/ CloseSave \/ CloseSaved
    BY <1>4, <2>2 DEF CloseMark, CloseCancel, CloseSave, CloseSaved, closeFrame
  <2> QED
    BY <1>13, <2>1, <2>2 DEF Close
<1>14. CASE Crash
  BY <1>4, <1>14 DEF Crash, closeFrame
<1>15. CASE Reopen
  <2>1. promised' \in Data
    BY <1>15 DEF Reopen, Typed
  <2> QED
    BY <1>2, <1>3, <1>15, <2>1 DEF Reopen, KnownTyped, LogTyped
<1>16. CASE UNCHANGED vars
  BY <1>4, <1>16 DEF vars
<1>17. ASSUME NEW op \in Ops, Submit(op) PROVE KnownTyped'
  BY <1>4, <1>17 DEF Submit
<1> QED
  BY <1>6, <1>7, <1>8, <1>9, <1>10, <1>11, <1>12, <1>13, <1>14, <1>15, <1>16, <1>17 DEF Next

\* Every step keeps the counters and the flags.
LEMMA CountersKeep == ASSUME CountersTyped, [Next]_vars PROVE CountersTyped'
<1>1. /\ version \in Nat /\ submitted \in Nat /\ submitted <= MaxOps
      /\ reopens \in Nat /\ reopens <= MaxReopens /\ MaxOps \in Nat /\ MaxReopens \in Nat
      /\ successCount \in Nat /\ oks \in Nat /\ oks <= successCount
  BY DatabaseAssumption DEF CountersTyped, DatabaseAssumption
<1>2. /\ dirtyFlag \in BOOLEAN /\ walStopped \in BOOLEAN /\ fresh \in BOOLEAN
      /\ closed \in BOOLEAN /\ ctxDone \in BOOLEAN /\ foreign \in BOOLEAN
  BY DEF CountersTyped
<1> DEFINE Flags == /\ dirtyFlag \in BOOLEAN /\ walStopped \in BOOLEAN /\ fresh \in BOOLEAN
                    /\ closed \in BOOLEAN /\ ctxDone \in BOOLEAN /\ foreign \in BOOLEAN
           Numbers == /\ version \in Nat /\ submitted \in 0 .. MaxOps
                      /\ reopens \in 0 .. MaxReopens
                      /\ successCount \in Nat /\ oks \in 0 .. successCount
           flagVars == <<dirtyFlag, walStopped, fresh, closed, ctxDone, foreign>>
           numberVars == <<version, submitted, reopens, successCount, oks>>
<1>3. Flags' /\ Numbers' => CountersTyped'
  BY DEF CountersTyped
<1>4. UNCHANGED flagVars => Flags'
  BY <1>2
<1>5. UNCHANGED numberVars => Numbers'
  BY <1>1
<1> HIDE DEF Flags, Numbers
<1> USE DEF dataVars, queueVars, batchVars, walVars, diskVars, closeVars, lifeVars
<1>6. ASSUME NEW op \in Ops, Submit(op) PROVE CountersTyped'
  <2>1. Flags'
    BY <1>4, <1>6 DEF Submit
  <2>2. Numbers'
    BY <1>1, <1>6 DEF Submit, Numbers
  <2> QED
    BY <1>3, <2>1, <2>2
<1>7. CASE Worker
  <2>1. CASE TakeBatch
    <3>1. Flags'
      BY <1>4, <2>1 DEF TakeBatch
    <3>2. Numbers'
      BY <1>1, <2>1 DEF TakeBatch, Numbers
    <3> QED
      BY <1>3, <3>1, <3>2
  <2>2. CASE ApplyCreate \/ NoTableError \/ ApplyWrite \/ ApplyDelete \/ ApplyRecords
    <3>1. PICK ok \in BOOLEAN : /\ Answer(ok)
                                /\ \/ successCount' = successCount + 1
                                   \/ successCount' = successCount /\ ok = FALSE
      BY <2>2 DEF ApplyCreate, NoTableError, ApplyWrite, ApplyDelete, ApplyRecords
    <3>2. UNCHANGED flagVars /\ UNCHANGED <<version, submitted, reopens>>
      BY <3>1 DEF Answer
    <3>3. oks' = IF ok THEN oks + 1 ELSE oks
      BY <3>1 DEF Answer
    <3>4. Numbers'
      BY <1>1, <3>1, <3>2, <3>3 DEF Numbers
    <3> QED
      BY <1>3, <1>4, <3>2, <3>4
  <2>3. CASE EndBatch
    <3>1. dirtyFlag' \in BOOLEAN /\ UNCHANGED <<walStopped, fresh, closed, ctxDone, foreign>>
      BY <2>3 DEF EndBatch
    <3>2. Numbers'
      BY <1>1, <2>3 DEF EndBatch, Numbers
    <3> QED
      BY <1>2, <1>3, <3>1, <3>2 DEF Flags
  <2>4. CASE WriterExit
    BY <1>3, <1>4, <1>5, <2>4 DEF WriterExit
  <2> QED
    BY <1>7, <2>1, <2>2, <2>3, <2>4 DEF Worker
<1>8. CASE LogPersist \/ LogStop \/ LogRotate
  <2>1. UNCHANGED numberVars /\ UNCHANGED <<dirtyFlag, fresh, closed, ctxDone, foreign>>
    BY <1>8 DEF LogPersist, LogStop, LogRotate, logFrame
  <2>2. walStopped' \in BOOLEAN
    BY <1>2, <1>8 DEF LogPersist, LogStop, LogRotate
  <2> QED
    BY <1>2, <1>3, <1>5, <2>1, <2>2 DEF Flags
<1>9. CASE FlushToDisk
  <2>1. UNCHANGED numberVars /\ UNCHANGED <<walStopped, closed, ctxDone>>
    BY <1>9 DEF FlushToDisk, PeriodicDue, PeriodicLast, Save, SaveError, ClearDirty, saveFrame
  <2>2. dirtyFlag' \in BOOLEAN /\ fresh' \in BOOLEAN /\ foreign' \in BOOLEAN
    BY <1>2, <1>9 DEF FlushToDisk, PeriodicDue, PeriodicLast, Save, SaveError, ClearDirty
  <2> QED
    BY <1>2, <1>3, <1>5, <2>1, <2>2 DEF Flags
<1>10. CASE Watcher
  <2>1. UNCHANGED numberVars /\ UNCHANGED <<dirtyFlag, walStopped, closed, ctxDone>>
    BY <1>10 DEF Watcher, WatchSee, WatchSkip, WatchReload, WatcherExit, watchFrame
  <2>2. fresh' \in BOOLEAN /\ foreign' \in BOOLEAN
    BY <1>2, <1>10 DEF Watcher, WatchSee, WatchSkip, WatchReload, WatcherExit
  <2> QED
    BY <1>2, <1>3, <1>5, <2>1, <2>2 DEF Flags
<1>11. CASE Flush
  <2>1. UNCHANGED numberVars /\ UNCHANGED <<walStopped, closed, ctxDone>>
    BY <1>11 DEF Flush, FlushPoll, FlushRefused, FlushNothing, FlushUnverified, FlushSave,
                 FlushEnd, flushNoLog, flushFrame
  <2>2. dirtyFlag' \in BOOLEAN /\ fresh' \in BOOLEAN
    BY <1>2, <1>11 DEF Flush, FlushPoll, FlushRefused, FlushNothing, FlushUnverified,
                       FlushSave, FlushEnd
  <2>3. foreign' \in BOOLEAN
    BY <1>2, <1>11 DEF Flush, FlushPoll, FlushRefused, FlushNothing, FlushUnverified,
                       FlushSave, FlushEnd
  <2> QED
    BY <1>2, <1>3, <1>5, <2>1, <2>2, <2>3 DEF Flags
<1>12. ASSUME NEW d \in Imports, Import(d) \/ ForeignSave(d) PROVE CountersTyped'
  <2>1. /\ dirtyFlag' \in BOOLEAN /\ fresh' \in BOOLEAN /\ foreign' \in BOOLEAN
        /\ UNCHANGED <<walStopped, closed, ctxDone>>
    BY <1>2, <1>12 DEF Import, ForeignSave
  <2>2. Numbers'
    BY <1>1, <1>12 DEF Import, ForeignSave, Numbers
  <2> QED
    BY <1>2, <1>3, <2>1, <2>2 DEF Flags
<1>13. ASSUME NEW t \in Txs, Transaction(t) PROVE CountersTyped'
  <2>1. dirtyFlag' \in BOOLEAN /\ UNCHANGED <<walStopped, fresh, closed, ctxDone, foreign>>
    BY <1>2, <1>13 DEF Transaction, BeginTransaction, Rollback, CommitFinalize, CommitConflict,
                       CommitApply, txFrame
  <2>2. /\ UNCHANGED <<submitted, reopens, successCount, oks>>
        /\ version' = version \/ version' = version + 1
    BY <1>13 DEF Transaction, BeginTransaction, Rollback, CommitFinalize, CommitConflict,
                 CommitApply, txFrame
  <2>3. Numbers'
    BY <1>1, <2>2 DEF Numbers
  <2> QED
    BY <1>2, <1>3, <2>1, <2>3 DEF Flags
<1>14. CASE Close \/ Crash
  <2>1. UNCHANGED numberVars /\ UNCHANGED <<dirtyFlag, walStopped, fresh, foreign>>
    BY <1>14 DEF Close, CloseMark, CloseCancel, CloseSave, CloseSaved, CloseWAL, Crash, closeFrame
  <2>2. closed' \in BOOLEAN /\ ctxDone' \in BOOLEAN
    BY <1>2, <1>14 DEF Close, CloseMark, CloseCancel, CloseSave, CloseSaved, CloseWAL, Crash
  <2> QED
    BY <1>2, <1>3, <1>5, <2>1, <2>2 DEF Flags
<1>15. CASE Reopen
  <2>1. Flags'
    BY <1>15 DEF Reopen, Flags
  <2>2. Numbers'
    BY <1>1, <1>15 DEF Reopen, Numbers
  <2> QED
    BY <1>3, <2>1, <2>2
<1>16. CASE UNCHANGED vars
  BY <1>3, <1>4, <1>5, <1>16 DEF vars
<1> QED
  BY <1>6, <1>7, <1>8, <1>9, <1>10, <1>11, <1>12, <1>13, <1>14, <1>15, <1>16 DEF Next

placeVars == <<dataMutex, saver, watcher, fpc, tpc, exited, cpc, phase>>

\* Every step moves goroutines to places they can be in.
LEMMA PlacesKeep == ASSUME PlacesTyped, [Next]_vars PROVE PlacesTyped'
<1> USE DEF PlacesTyped
<1>1. UNCHANGED placeVars => PlacesTyped'
  BY DEF placeVars
<1> USE DEF dataVars, txVars, closeVars, lifeVars
<1>2. ASSUME NEW op \in Ops, Submit(op) PROVE PlacesTyped'
  BY <1>2 DEF Submit
<1>3. CASE Worker
  <2>1. CASE ApplyCreate \/ NoTableError \/ ApplyWrite \/ ApplyDelete \/ ApplyRecords
    <3>1. \E ok \in BOOLEAN : Answer(ok)
      BY <2>1 DEF ApplyCreate, NoTableError, ApplyWrite, ApplyDelete, ApplyRecords
    <3> QED
      BY <3>1 DEF Answer
  <2>2. CASE TakeBatch \/ EndBatch \/ WriterExit
    BY <2>2 DEF TakeBatch, EndBatch, WriterExit, Workers
  <2> QED
    BY <1>3, <2>1, <2>2 DEF Worker
<1>4. CASE LogPersist \/ LogStop \/ LogRotate
  BY <1>4 DEF LogPersist, LogStop, LogRotate, logFrame
<1>5. CASE FlushToDisk
  <2>1. UNCHANGED <<dataMutex, watcher, fpc, tpc, cpc, phase>>
    BY <1>5 DEF FlushToDisk, PeriodicDue, PeriodicLast, Save, SaveError, ClearDirty, saveFrame
  <2>2. exited' \subseteq Workers
    BY <1>5 DEF FlushToDisk, PeriodicDue, PeriodicLast, Save, SaveError, ClearDirty, Workers
  <2>3. saver' \in [Savers -> {"idle", "due", "saved"}]
    <3>1. PICK s \in Savers, w \in {"idle", "due", "saved"} :
            saver' = saver \/ saver' = [saver EXCEPT ![s] = w]
      BY <1>5 DEF FlushToDisk, PeriodicDue, PeriodicLast, Save, SaveError, ClearDirty, Savers
    <3> QED
      BY <3>1
  <2> QED
    BY <2>1, <2>2, <2>3
<1>6. CASE Watcher
  BY <1>6 DEF Watcher, WatchSee, WatchSkip, WatchReload, WatcherExit, watchFrame, Workers
<1>7. CASE Flush
  BY <1>7 DEF Flush, FlushPoll, FlushRefused, FlushNothing, FlushUnverified, FlushSave,
              FlushEnd, flushNoLog, flushFrame
<1>8. ASSUME NEW d \in Imports, Import(d) \/ ForeignSave(d) PROVE PlacesTyped'
  BY <1>8 DEF Import, ForeignSave, Savers
<1>9. ASSUME NEW t \in Txs, Transaction(t) PROVE PlacesTyped'
  BY <1>9 DEF Transaction, BeginTransaction, Rollback, CommitFinalize, CommitConflict,
              CommitApply, txFrame
<1>10. CASE Close \/ Crash
  BY <1>10 DEF Close, CloseMark, CloseCancel, CloseSave, CloseSaved, CloseWAL, Crash,
               closeFrame, Savers
<1>11. CASE Reopen
  BY <1>11 DEF Reopen
<1>12. CASE UNCHANGED vars
  BY <1>12 DEF vars
<1> QED
  BY <1>2, <1>3, <1>4, <1>5, <1>6, <1>7, <1>8, <1>9, <1>10, <1>11, <1>12 DEF Next

\* The snapshots of transactions are states of the database.
LEMMA SnapshotsKeep ==
  ASSUME Typed, version \in Nat, SnapshotsTyped, [Next]_vars PROVE SnapshotsTyped'
<1>1. UNCHANGED <<tver, tsnap>> => SnapshotsTyped'
  BY DEF SnapshotsTyped
<1>2. ASSUME NEW t \in Txs, Transaction(t) PROVE SnapshotsTyped'
  BY <1>1, <1>2 DEF Transaction, BeginTransaction, Rollback, CommitFinalize, CommitConflict,
                    CommitApply, SnapshotsTyped, Typed
<1>3. CASE Reopen
  BY <1>3, EmptyDataTyped DEF Reopen, SnapshotsTyped
<1>4. CASE Worker
  <2>1. CASE ApplyCreate \/ NoTableError \/ ApplyWrite \/ ApplyDelete \/ ApplyRecords
    <3>1. \E ok \in BOOLEAN : Answer(ok)
      BY <2>1 DEF ApplyCreate, NoTableError, ApplyWrite, ApplyDelete, ApplyRecords
    <3> QED
      BY <1>1, <3>1 DEF Answer, txVars
  <2> QED
    BY <1>1, <1>4, <2>1 DEF Worker, TakeBatch, EndBatch, WriterExit, txVars
<1>5. CASE \/ LogPersist \/ LogStop \/ LogRotate \/ FlushToDisk \/ Watcher \/ Flush
           \/ Close \/ Crash \/ UNCHANGED vars
           \/ \E op \in Ops : Submit(op)
           \/ \E d \in Imports : Import(d) \/ ForeignSave(d)
  BY <1>1, <1>5 DEF LogPersist, LogStop, LogRotate, logFrame, FlushToDisk, PeriodicDue,
       PeriodicLast, Save, SaveError, ClearDirty, saveFrame, Watcher, WatchSee, WatchSkip,
       WatchReload, WatcherExit, watchFrame, Flush, FlushPoll, FlushRefused, FlushNothing,
       FlushUnverified, FlushSave, FlushEnd, flushNoLog, flushFrame, Close, CloseMark,
       CloseCancel, CloseSave, CloseSaved, CloseWAL, Crash, closeFrame, vars, txVars, Submit,
       Import, ForeignSave
<1> QED
  BY <1>2, <1>3, <1>4, <1>5 DEF Next

\* Every step keeps the types.
LEMMA TypeInvariant == Spec => []TypeIInv
<1>1. TypeIInv /\ [Next]_vars => TypeIInv'
  <2> SUFFICES ASSUME TypeIInv, [Next]_vars PROVE TypeIInv'
    OBVIOUS
  <2>1. /\ Typed /\ KnownTyped /\ CountersTyped /\ PlacesTyped /\ SnapshotsTyped
        /\ walFile \in Seq(Entry) /\ version \in Nat
    BY DEF TypeIInv, KnownTyped, LogTyped, CountersTyped
  <2>2. Typed'
    BY <2>1, NextTyped
  <2> QED
    BY <2>1, <2>2, KnownKeeps, CountersKeep, PlacesKeep, SnapshotsKeep DEF TypeIInv
<1> QED
  BY <1>1, InitTypes, PTL DEF Spec

\* Type correctness, for every value of the constants: whatever is applied,
\* rolled back, reloaded, imported and replayed, db.data maps tables to records
\* or to nothing, the log holds entries, and counters stay within their bounds.
THEOREM TypeCorrect == Spec => []TypeOK
  BY TypeInvariant, TypeParts, PTL

-----------------------------------------------------------------------------
(***************************************************************************)
(* Which steps break the dirty mark, outdate a transaction, and lose an    *)
(* answered write.  Each property is about single steps; what it needs of  *)
(* the states before them is StepIInv.                                     *)
(***************************************************************************)

\* A Flush that has saved holds the mutex, and what it saved is still the data; a
\* transaction has no version from the future.
FlushHolds == fpc = "saved" => dataMutex = "flush" /\ (foreign \/ OnDisk = data)
Open(t) == tpc[t] \in {"active", "committing"}
VersionsPast == \A t \in Txs : Open(t) => tver[t] <= version
StepIInv == FlushHolds /\ VersionsPast

\* The steps that these properties can tell from stuttering, and the others.
Applies == ApplyCreate \/ ApplyWrite \/ ApplyDelete \/ ApplyRecords
Saves == FlushUnverified \/ FlushSave \/ \E s \in Savers : Save(s)
Quiet ==
  /\ UNCHANGED <<data, promised, snapshot, foreign, dirtyFlag, dataMutex, successCount,
                 version, txVars>>
  /\ fpc' \in {fpc, "idle", "polled"} /\ phase' \in {phase, "closed", "crashed"}
Telling ==
  \/ TakeBatch \/ Applies \/ EndBatch
  \/ Saves \/ WatchReload \/ FlushEnd \/ \E s \in Savers : ClearDirty(s)
  \/ \E d \in Imports : Import(d) \/ ForeignSave(d)
  \/ \E t \in Txs : Transaction(t)

\* All other steps are quiet.
LEMMA StepIs == [Next]_vars => Quiet \/ (phase = "up" /\ Telling) \/ Reopen
<1> SUFFICES ASSUME [Next]_vars, ~Reopen, ~Telling \/ phase # "up" PROVE Quiet
  OBVIOUS
<1> USE DEF Quiet, dataVars, batchVars, diskVars, txVars, lifeVars
<1>1. CASE UNCHANGED vars
  BY <1>1 DEF vars
<1>2. CASE ~UNCHANGED vars
  <2>1. Next /\ phase = "up" /\ ~Telling
    BY <1>2 DEF Next
  <2>2. CASE \E op \in Ops : Submit(op)
    BY <2>2 DEF Submit
  <2>3. CASE Worker
    <3>1. NoTableError \/ WriterExit
      BY <2>1, <2>3 DEF Worker, Telling, Applies
    <3> QED
      BY <3>1 DEF NoTableError, Answer, WriterExit
  <2>4. CASE LogPersist \/ LogStop \/ LogRotate
    BY <2>4 DEF LogPersist, LogStop, LogRotate, logFrame
  <2>5. CASE FlushToDisk
    <3>1. PeriodicDue \/ PeriodicLast \/ \E s \in Savers : SaveError(s)
      BY <2>1, <2>5 DEF FlushToDisk, Telling, Saves
    <3> QED
      BY <3>1 DEF PeriodicDue, PeriodicLast, SaveError, saveFrame
  <2>6. CASE Watcher
    <3>1. WatchSee \/ WatchSkip \/ WatcherExit
      BY <2>1, <2>6 DEF Watcher, Telling
    <3> QED
      BY <3>1 DEF WatchSee, WatchSkip, WatcherExit, watchFrame
  <2>7. CASE Flush
    <3>1. FlushPoll \/ FlushRefused \/ FlushNothing
      BY <2>1, <2>7 DEF Flush, Telling, Saves
    <3> QED
      BY <3>1 DEF FlushPoll, FlushRefused, FlushNothing, flushNoLog, flushFrame
  <2>8. CASE Close \/ Crash
    BY <2>8 DEF Close, CloseMark, CloseCancel, CloseSave, CloseSaved, CloseWAL, Crash, closeFrame
  <2> QED
    BY <2>1, <2>2, <2>3, <2>4, <2>5, <2>6, <2>7, <2>8 DEF Next, Telling
<1> QED
  BY <1>1, <1>2

\* The worker applies under its mutex and counts.
LEMMA AppliesIs ==
  ASSUME Applies
  PROVE  /\ dataMutex = "worker" /\ dataMutex' = "worker" /\ successCount' = successCount + 1
         /\ UNCHANGED <<version, dirtyFlag, snapshot, foreign, fpc, txVars, phase>>
  BY DEF Applies, ApplyCreate, ApplyWrite, ApplyDelete, ApplyRecords, Next1, Answer, diskVars,
         lifeVars

\* A save makes the state file what memory holds.
LEMMA SavesIs ==
  ASSUME Typed, Saves
  PROVE  /\ dataMutex = "free" /\ OnDisk' = data /\ ~foreign'
         /\ UNCHANGED <<data, promised, version, dirtyFlag, successCount, txVars, phase>>
         /\ fpc' = "saved" => dataMutex' = "flush" \/ fpc' = fpc
         /\ dataMutex' \in {"free", "flush"}
<1>1. snapshot' = data /\ data' = data
  BY DEF Saves, FlushUnverified, FlushSave, Save, saveFrame, flushNoLog, flushFrame
<1>2. OnDisk' = data
  BY <1>1, DataIsAFile DEF OnDisk
<1> QED
  BY <1>1, <1>2 DEF Saves, FlushUnverified, FlushSave, Save, saveFrame, flushNoLog, flushFrame,
                    batchVars, lifeVars

\* What a transaction leaves as it is, and the step that changes the data.
LEMMA TransactionIs ==
  ASSUME NEW t \in Txs, Transaction(t)
  PROVE  /\ UNCHANGED <<dataMutex, successCount, snapshot, foreign, fpc, phase>>
         /\ \/ UNCHANGED <<data, promised, version, dirtyFlag>>
            \/ CommitApply(t)
         /\ \/ BeginTransaction(t)
            \/ \E w \in {"committing", "finished"} :
                 /\ tpc' = [tpc EXCEPT ![t] = w] /\ UNCHANGED <<tver, tsnap>>
                 /\ Open(t)
  BY DEF Transaction, BeginTransaction, Rollback, CommitFinalize, CommitConflict, CommitApply,
         txFrame, batchVars, diskVars, lifeVars, Open

\* A reload that is not stale changes nothing in memory.
LEMMA ReloadIs ==
  ASSUME Typed, phase = "up", WatchReload
  PROVE  /\ StaleReload \/ data' = data
         /\ OnDisk' = data' /\ dataMutex = "free"
         /\ UNCHANGED <<promised, version, dirtyFlag, dataMutex, successCount, snapshot, fpc, txVars>>
<1>1. snapshot # NoFile
  BY DEF WatchReload, Typed
<1>2. ~Forgotten /\ ~foreign => OnDisk = data
  BY DEF WatchReload, Forgotten, InBatch
<1> QED
  BY <1>1, <1>2 DEF StaleReload, WatchReload, watchFrame, OnDisk, batchVars

\* What a transaction does to the versions and snapshots of all.
LEMMA TransactionVersions ==
  ASSUME SnapshotsTyped, PlacesTyped, version \in Nat, NEW t \in Txs, Transaction(t), NEW u \in Txs
  PROVE  \/ u = t /\ BeginTransaction(t) /\ tver'[u] = version' /\ tsnap'[u] = data'
         \/ u = t /\ ~Open(u)'
         \/ u = t /\ Open(u) /\ tver'[u] = tver[u] /\ tsnap'[u] = tsnap[u]
         \/ u # t /\ tpc'[u] = tpc[u] /\ tver'[u] = tver[u] /\ tsnap'[u] = tsnap[u]
<1>1. CASE BeginTransaction(t)
  BY <1>1 DEF BeginTransaction, SnapshotsTyped, PlacesTyped
<1>2. CASE ~BeginTransaction(t)
  <2>1. PICK w \in {"committing", "finished"} :
           tpc' = [tpc EXCEPT ![t] = w] /\ UNCHANGED <<tver, tsnap>> /\ Open(t)
    BY <1>2, TransactionIs
  <2> QED
    BY <2>1 DEF PlacesTyped
<1> QED
  BY <1>1, <1>2

\* The end of a batch.
LEMMA EndBatchIs ==
  ASSUME EndBatch
  PROVE  /\ dataMutex = "worker" /\ dataMutex' = "free"
         /\ version' = (IF successCount > 0 THEN version + 1 ELSE version)
         /\ dirtyFlag' = (dirtyFlag \/ successCount > 0)
         /\ UNCHANGED <<data, promised, snapshot, foreign, successCount, fpc, txVars, phase>>
  BY DEF EndBatch, batchVars, diskVars, lifeVars

\* The end of a Flush.
LEMMA FlushEndIs ==
  ASSUME FlushEnd
  PROVE  /\ fpc = "saved" /\ fpc' = "idle"
         /\ UNCHANGED <<data, promised, snapshot, foreign, version, successCount, txVars, phase>>
  BY DEF FlushEnd, flushFrame, diskVars, batchVars, lifeVars

\* The CompareAndSwap of flushToDisk.
LEMMA ClearIs ==
  ASSUME NEW s \in Savers, ClearDirty(s)
  PROVE  UNCHANGED <<data, promised, snapshot, foreign, version, dataMutex, successCount, fpc,
                     txVars, phase>>
  BY DEF ClearDirty, saveFrame, diskVars, batchVars, lifeVars

\* A batch begins.
LEMMA TakeBatchIs ==
  ASSUME TakeBatch
  PROVE  /\ dataMutex = "free" /\ dataMutex' = "worker" /\ successCount' = 0
         /\ UNCHANGED <<data, promised, snapshot, foreign, version, dirtyFlag, fpc, txVars, phase>>
  BY DEF TakeBatch, diskVars, lifeVars

\* A file is imported, or comes from another process.
LEMMA ForeignIs ==
  ASSUME NEW d \in Imports, Import(d) \/ ForeignSave(d)
  PROVE  /\ Import(d) => dirtyFlag' = TRUE /\ dataMutex = "free" /\ data' = promised'
                         /\ UNCHANGED <<snapshot, foreign>>
         /\ ForeignSave(d) => foreign' = TRUE /\ UNCHANGED <<data, promised, dirtyFlag>>
         /\ UNCHANGED <<version, dataMutex, successCount, fpc, txVars, phase>>
  BY DEF Import, ForeignSave, dataVars, batchVars, diskVars, lifeVars

\* Every step keeps what the properties need.
LEMMA StepInvariant == TypeIInv /\ StepIInv /\ [Next]_vars => StepIInv'
<1> SUFFICES ASSUME TypeIInv, StepIInv, [Next]_vars PROVE FlushHolds' /\ VersionsPast'
  BY DEF StepIInv
<1>1. Typed /\ SnapshotsTyped /\ PlacesTyped /\ version \in Nat /\ successCount \in Nat
  BY DEF TypeIInv, CountersTyped
<1>2. FlushHolds /\ VersionsPast
  BY DEF StepIInv
<1>3. UNCHANGED <<version, txVars>> => VersionsPast'
  BY <1>2 DEF VersionsPast, Open, txVars
<1>4. dataMutex # "flush" /\ fpc' \in {fpc, "idle", "polled"} => FlushHolds'
  BY <1>2 DEF FlushHolds
<1>5. CASE Quiet
  <2>1. OnDisk' = OnDisk
    BY <1>5 DEF Quiet, OnDisk
  <2> QED
    BY <1>2, <1>3, <1>5, <2>1 DEF Quiet, FlushHolds
<1>6. CASE TakeBatch \/ Applies \/ EndBatch
  <2>1. FlushHolds'
    BY <1>4, <1>6, TakeBatchIs, AppliesIs, EndBatchIs
  <2>2. UNCHANGED txVars /\ version' \in {version, version + 1}
    BY <1>6, TakeBatchIs, AppliesIs, EndBatchIs
  <2>3. ASSUME NEW t \in Txs, Open(t)' PROVE tver'[t] <= version'
    <3>1. Open(t) /\ tver'[t] = tver[t] /\ tver[t] \in Nat
      BY <1>1, <2>2, <2>3 DEF Open, txVars, SnapshotsTyped
    <3> QED
      BY <1>1, <1>2, <2>2, <3>1 DEF VersionsPast
  <2> QED
    BY <2>1, <2>3 DEF VersionsPast
<1>7. CASE Saves
  <2>1. OnDisk' = data' /\ UNCHANGED <<version, txVars>> /\ dataMutex = "free"
    BY <1>1, <1>7, SavesIs
  <2>2. fpc' = "saved" => dataMutex' = "flush"
    BY <1>1, <1>2, <1>7, <2>1, SavesIs DEF FlushHolds
  <2> QED
    BY <1>3, <2>1, <2>2 DEF FlushHolds
<1>8. CASE WatchReload
  <2>1. UNCHANGED <<version, txVars>>
    BY <1>8 DEF WatchReload, watchFrame
  <2>2. dataMutex = "free" /\ fpc' = fpc
    BY <1>8 DEF WatchReload, watchFrame
  <2> QED
    BY <1>3, <1>4, <2>1, <2>2
<1>9. CASE FlushEnd
  BY <1>3, <1>9, FlushEndIs DEF FlushHolds
<1>10. CASE \E s \in Savers : ClearDirty(s)
  <2>1. OnDisk' = OnDisk
    BY <1>10, ClearIs DEF OnDisk
  <2> QED
    BY <1>2, <1>3, <1>10, <2>1, ClearIs DEF FlushHolds
<1>11. ASSUME NEW d \in Imports, Import(d) \/ ForeignSave(d) PROVE FlushHolds' /\ VersionsPast'
  <2>1. VersionsPast'
    BY <1>3, <1>11, ForeignIs
  <2>2. CASE Import(d)
    BY <1>4, <2>1, <2>2, ForeignIs
  <2>3. CASE ForeignSave(d)
    BY <1>2, <2>1, <2>3, ForeignIs DEF FlushHolds
  <2> QED
    BY <1>11, <2>2, <2>3
<1>12. ASSUME NEW t \in Txs, Transaction(t) PROVE FlushHolds' /\ VersionsPast'
  <2>1. UNCHANGED <<dataMutex, snapshot, foreign, fpc>> /\ (data' = data \/ CommitApply(t))
    BY <1>12, TransactionIs
  <2>2. CommitApply(t) => dataMutex = "free"
    BY DEF CommitApply
  <2>3. OnDisk' = OnDisk
    BY <2>1 DEF OnDisk
  <2>4. FlushHolds'
    BY <1>2, <1>4, <2>1, <2>2, <2>3 DEF FlushHolds
  <2>5. version' \in {version, version + 1}
    BY <1>12, TransactionIs DEF CommitApply
  <2>6. ASSUME NEW u \in Txs, Open(u)' PROVE tver'[u] <= version'
    <3>1. tver[u] \in Nat
      BY <1>1 DEF SnapshotsTyped
    <3>2. CASE tver'[u] = version'
      BY <1>1, <2>5, <3>2
    <3>3. CASE Open(u) /\ tver'[u] = tver[u]
      BY <1>1, <1>2, <2>5, <3>1, <3>3 DEF VersionsPast
    <3> QED
      BY <1>1, <1>12, <2>6, <3>2, <3>3, TransactionVersions DEF Open
  <2> QED
    BY <2>4, <2>6 DEF VersionsPast
<1>13. CASE Reopen
  BY <1>13 DEF Reopen, FlushHolds, VersionsPast, Open
<1> QED
  BY <1>5, <1>6, <1>7, <1>8, <1>9, <1>10, <1>11, <1>12, <1>13, StepIs DEF Telling

\* The properties are about steps that start in these states.
LEMMA StepsTyped == Spec => [](TypeIInv /\ StepIInv)
<1>1. Init => StepIInv
  BY DEF Init, StepIInv, FlushHolds, VersionsPast, Open
<1> QED
  BY TypeInvariant, StepInvariant, <1>1, PTL DEF Spec

\* dirtyFlag: whatever else happens at the same time, only the CompareAndSwap of
\* flushToDisk, which runs outside the mutex, and the replay of a log leave a change
\* in memory that is neither in the state file nor marked.
THEOREM OnlyClearsAndReplays == Spec => OnlyClearsAndReplaysForget
<1> DEFINE A == Forgotten' /\ ~Forgotten =>
                  \/ \E s \in Savers : ClearDirty(s)
                  \/ Reopen /\ WALEnabled /\ walFile # <<>>
<1>1. TypeIInv /\ StepIInv /\ [Next]_vars => A
  <2> SUFFICES ASSUME TypeIInv, StepIInv, [Next]_vars, Forgotten', ~Forgotten,
                      ~\E s \in Savers : ClearDirty(s)
               PROVE  Reopen /\ WALEnabled /\ walFile # <<>>
    OBVIOUS
  <2>1. Typed /\ successCount \in Nat /\ FlushHolds
    BY DEF TypeIInv, CountersTyped, StepIInv
  <2> USE DEF Forgotten, InBatch
  <2>2. phase' = "up" /\ ~dirtyFlag' /\ ~foreign' /\ OnDisk' # data'
    OBVIOUS
  <2>3. ~Quiet
    BY <2>2 DEF Quiet, OnDisk
  <2>4. ~TakeBatch
    BY <2>2, TakeBatchIs DEF OnDisk
  <2>5. ~Applies
    BY <2>1, AppliesIs
  <2>6. ~EndBatch
    BY <2>1, <2>2, EndBatchIs DEF OnDisk
  <2>7. ~Saves
    BY <2>1, <2>2, SavesIs
  <2>8. phase = "up" => ~WatchReload
    BY <2>1, <2>2, ReloadIs
  <2>9. ~FlushEnd
    BY <2>1, <2>2, FlushEndIs DEF FlushHolds, OnDisk
  <2>10. \A d \in Imports : ~Import(d) /\ ~ForeignSave(d)
    BY <2>2, ForeignIs
  <2>11. ASSUME NEW t \in Txs, Transaction(t) PROVE FALSE
    <3>1. CASE UNCHANGED <<data, dirtyFlag>>
      BY <2>2, <2>11, <3>1, TransactionIs DEF OnDisk
    <3>2. CASE CommitApply(t)
      BY <2>2, <3>2 DEF CommitApply
    <3> QED
      BY <2>11, <3>1, <3>2, TransactionIs
  <2>12. Reopen
    BY <2>3, <2>4, <2>5, <2>6, <2>7, <2>8, <2>9, <2>10, <2>11, StepIs DEF Telling
  <2>13. data' # OnDisk
    BY <2>2, <2>12 DEF Reopen, OnDisk
  <2> QED
    BY <2>12, <2>13, ReplayEmpty DEF Reopen
<1>2. TypeIInv /\ StepIInv /\ [Next]_vars => [A]_vars
  BY <1>1
<1> QED
  BY StepsTyped, <1>2, PTL DEF Spec, OnlyClearsAndReplaysForget

\* CommitTransaction's version check: a batch, another commit, a Flush or a restart
\* next to an open transaction never leave it with a version that is current and a
\* snapshot that is not; only Import and a reload of a stale file do.
THEOREM OnlyImportsAndReloads == Spec => OnlyImportsAndReloadsOutdate
<1> DEFINE A == \A t \in Txs : Outdated(t)' /\ ~Outdated(t) =>
                  \/ \E d \in Imports : Import(d)
                  \/ StaleReload
<1>1. TypeIInv /\ StepIInv /\ [Next]_vars => A
  <2> SUFFICES ASSUME TypeIInv, StepIInv, [Next]_vars, NEW t \in Txs, Outdated(t)', ~Outdated(t),
                      \A d \in Imports : ~Import(d), ~StaleReload
               PROVE  FALSE
    OBVIOUS
  <2>1. /\ Typed /\ SnapshotsTyped /\ PlacesTyped /\ version \in Nat /\ successCount \in Nat
        /\ VersionsPast
    BY DEF TypeIInv, CountersTyped, StepIInv
  <2>2. Open(t)' /\ tver'[t] = version' /\ tsnap'[t] # data'
    BY DEF Outdated, Open
  <2> USE DEF Outdated, InBatch
  <2>3. ~Quiet
    BY DEF Quiet, txVars
  <2>4. ~TakeBatch
    BY TakeBatchIs DEF txVars
  <2>5. ~Applies
    BY <2>1, AppliesIs
  <2>6. ASSUME EndBatch PROVE FALSE
    <3>1. UNCHANGED <<data, txVars>>
      BY <2>6, EndBatchIs
    <3>2. tver[t] <= version /\ tver[t] \in Nat
      BY <2>1, <2>2, <3>1 DEF VersionsPast, Open, txVars, SnapshotsTyped
    <3>3. version' = version /\ ~(successCount > 0)
      BY <2>1, <2>2, <2>6, <3>1, <3>2, EndBatchIs DEF txVars
    <3> QED
      BY <3>1, <3>3 DEF txVars
  <2>7. ~Saves
    BY <2>1, SavesIs DEF txVars
  <2>8. phase = "up" => ~WatchReload
    BY <2>1, ReloadIs DEF txVars
  <2>9. ASSUME FlushEnd PROVE FALSE
    <3>1. dataMutex = "flush"
      BY <2>9 DEF FlushEnd, StepIInv, FlushHolds
    <3> QED
      BY <2>9, <3>1, FlushEndIs DEF txVars
  <2>10. \A s \in Savers : ~ClearDirty(s)
    BY ClearIs DEF txVars
  <2>11. \A d \in Imports : ~ForeignSave(d)
    BY ForeignIs DEF txVars
  <2>12. ASSUME NEW u \in Txs, Transaction(u) PROVE FALSE
    <3>1. /\ UNCHANGED <<dataMutex, successCount>>
          /\ UNCHANGED <<data, version>> \/ CommitApply(u)
      BY <2>12, TransactionIs
    <3>2. CASE CommitApply(u)
      <4>1. version' = version + 1 /\ UNCHANGED <<tver, tsnap>> /\ tpc' = [tpc EXCEPT ![u] = "finished"]
        BY <3>2 DEF CommitApply
      <4>2. Open(t) /\ tver[t] = version + 1
        BY <2>1, <2>2, <4>1 DEF Open, PlacesTyped
      <4> QED
        BY <2>1, <4>2 DEF VersionsPast
    <3>3. CASE UNCHANGED <<data, version>>
      BY <2>1, <2>2, <2>12, <3>1, <3>3, TransactionVersions DEF Open
    <3> QED
      BY <3>1, <3>2, <3>3
  <2>13. ~Reopen
    BY <2>2 DEF Reopen, Open
  <2> QED
    BY <2>3, <2>4, <2>5, <2>6, <2>7, <2>8, <2>9, <2>10, <2>11, <2>12, <2>13, StepIs DEF Telling
<1>2. TypeIInv /\ StepIInv /\ [Next]_vars => [A]_vars
  BY <1>1
<1> QED
  BY StepsTyped, <1>2, PTL DEF Spec, OnlyImportsAndReloadsOutdate

\* What a commit shows at its changes.
LEMMA CommittedSets ==
  ASSUME NEW d \in Data, NEW changes \in Changes, NEW p \in DOMAIN changes
  PROVE  Look(Committed(d, changes), p) = IF changes[p] = Nil THEN Absent ELSE changes[p]
<1>1. p[1] \in Tables /\ p[2] \in AllKeys /\ p = <<p[1], p[2]>>
  BY DEF Changes, AllKeys
<1> DEFINE tab == [k \in AllKeys |->
                     IF <<p[1], k>> \notin DOMAIN changes THEN Ensure(d, p[1])[p[1]][k]
                     ELSE IF changes[<<p[1], k>>] = Nil THEN Absent ELSE changes[<<p[1], k>>]]
<1>2. Committed(d, changes)[p[1]] = tab
  BY <1>1 DEF Committed
<1>3. tab[p[2]] = IF changes[p] = Nil THEN Absent ELSE changes[p]
  BY <1>1
<1>4. HasTable(Committed(d, changes), p[1])
  <2>1. Committed(d, changes)[p[1]] \in Table \cup {NoTable}
    BY <1>1, CommittedTyped DEF Data
  <2>2. Ensure(d, p[1])[p[1]] \in Table
    BY <1>1, EnsureTyped
  <2>3. \A q \in DOMAIN changes : changes[q] \in Vals \cup {Nil}
    BY DEF Changes
  <2>4. tab \in Table
    BY <2>2, <2>3 DEF Table
  <2> HIDE DEF tab
  <2> QED
    BY <1>2, <2>4, DatabaseAssumption DEF HasTable, DatabaseAssumption
<1> HIDE DEF tab
<1> QED
  BY <1>2, <1>3, <1>4 DEF Look

\* Without a log no Append fails: what is applied is what is announced.
LEMMA AppliesAnnounced ==
  ASSUME ~WALEnabled, Typed, promised \in Data, Applies, NEW p \in Places,
         Look(data, p) = Look(promised, p)
  PROVE  Look(data', p) = Look(promised', p)
<1> DEFINE op == Head(batch)
           t == op.table
<1>1. /\ data \in Data /\ batch # <<>> /\ batch \in Seq(Ops)
      /\ AppendOutcomes = {FALSE} /\ TRUE \notin AppendOutcomes
  BY DEF Typed, AppendOutcomes, Applies, ApplyCreate, ApplyWrite, ApplyDelete, ApplyRecords, Next1
<1>2. op \in Operation /\ t \in Tables
  BY <1>1, HeadIs
<1>3. CASE ApplyCreate
  <2>1. /\ data' = Ensure(data, t) /\ op.type = "create"
        /\ promised' \in {promised, Announced(promised, op)}
    BY <1>1, <1>3 DEF ApplyCreate, Next1, Answer
  <2> HIDE DEF op
  <2> QED
    BY <1>1, <1>2, <2>1, EnsureShows, AnnouncedShows
<1>4. CASE ApplyWrite \/ ApplyDelete
  <2> DEFINE k == op.key
             u == IF op.type = "write" THEN op.val ELSE Absent
  <2>1. op.type \in {"write", "delete"} /\ HasTable(data, t) /\ promised' = Announced(promised, op)
    BY <1>4 DEF ApplyWrite, ApplyDelete, Next1, Answer
  <2>2. data' = Put(data, t, k, u)
    <3>1. CASE ApplyWrite
      BY <1>1, <3>1 DEF ApplyWrite, Next1
    <3>2. CASE ApplyDelete
      BY <1>1, <3>2 DEF ApplyDelete, Next1
    <3> QED
      BY <1>4, <3>1, <3>2
  <2> HIDE DEF op
  <2>3. k \in AllKeys /\ u \in Vals \cup {Absent, Nil}
    BY <1>2, <2>1 DEF Operation, AllKeys
  <2>4. Look(promised', p) = IF p = <<t, k>> THEN u ELSE Look(promised, p)
    BY <1>2, <2>1, AnnouncedShows
  <2> HIDE DEF t, k, u
  <2> QED
    BY <1>1, <1>2, <2>1, <2>2, <2>3, <2>4, PutShows
<1>5. CASE ApplyRecords
  <2> DEFINE recs == op.records
  <2>1. /\ op.type = "batch" /\ HasTable(data, t) /\ promised' = Announced(promised, op)
        /\ data' = PutAll(data, t, recs)
    BY <1>1, <1>5 DEF ApplyRecords, Next1, Answer
  <2> HIDE DEF op
  <2>2. PICK K \in SUBSET Keys : recs \in [K -> Vals]
    BY <1>2, <2>1 DEF Operation
  <2>3. Look(promised', p) =
          IF p[1] = t /\ p[2] \in DOMAIN recs THEN recs[p[2]] ELSE Look(promised, p)
    BY <1>2, <2>1, AnnouncedShows
  <2> HIDE DEF t, recs
  <2> QED
    BY <1>1, <1>2, <2>1, <2>2, <2>3, PutAllShows
<1> QED
  BY <1>3, <1>4, <1>5 DEF Applies

\* A commit announces what it stores.
LEMMA CommitAnnounced ==
  ASSUME data \in Data, promised \in Data, NEW t \in Txs, CommitApply(t), NEW p \in Places,
         Look(data, p) = Look(promised, p)
  PROVE  Look(data', p) = Look(promised', p)
<1>1. PICK changes \in TxChanges :
        data' = Committed(data, changes) /\ promised' = Committed(promised, changes)
  BY DEF CommitApply
<1>2. changes \in Changes
  BY DatabaseAssumption DEF DatabaseAssumption
<1>3. CASE p \in DOMAIN changes
  BY <1>1, <1>2, <1>3, CommittedSets
<1>4. CASE p \notin DOMAIN changes
  BY <1>1, <1>2, <1>4, CommittedShows
<1> QED
  BY <1>3, <1>4

\* Where the log is on, what an Append that fails has rolled back is in unlogged.
LEMMA AppliesLogged ==
  ASSUME WALEnabled, LogIInv, [Next]_vars, NEW p \in Places, Look(data', p) # Look(promised', p)
  PROVE  p \in unlogged'
<1>1. LogIInv'
  BY NextLog
<1>2. Alike(promised', data', unlogged')
  BY <1>1 DEF LogIInv, Repaired
<1> QED
  BY <1>2 DEF Alike

\* The other steps keep at each place what was announced, but for a stale reload.
LEMMA OthersAnnounced ==
  ASSUME TypeIInv, [Next]_vars, ~Applies, ~StaleReload, NEW p \in Places,
         Look(data, p) = Look(promised, p)
  PROVE  Look(data', p) = Look(promised', p)
<1>1. Typed /\ data \in Data /\ promised \in Data
  BY DEF TypeIInv, Typed, KnownTyped, LogTyped
<1>2. CASE UNCHANGED <<data, promised>>
  BY <1>2
<1>3. CASE data' = promised'
  BY <1>3
<1>4. ASSUME NEW t \in Txs, Transaction(t) PROVE Look(data', p) = Look(promised', p)
  BY <1>1, <1>2, <1>4, TransactionIs, CommitAnnounced
<1>5. CASE Quiet \/ TakeBatch \/ EndBatch \/ Saves \/ FlushEnd \/ \E s \in Savers : ClearDirty(s)
  BY <1>1, <1>2, <1>5, TakeBatchIs, EndBatchIs, SavesIs, FlushEndIs, ClearIs DEF Quiet
<1>6. CASE phase = "up" /\ WatchReload
  BY <1>1, <1>2, <1>6, ReloadIs
<1>7. CASE \E d \in Imports : Import(d) \/ ForeignSave(d)
  BY <1>2, <1>3, <1>7, ForeignIs
<1>8. CASE Reopen
  BY <1>3, <1>8 DEF Reopen
<1> QED
  BY <1>4, <1>5, <1>6, <1>7, <1>8, StepIs DEF Telling

\* ResultCh: an answered write stays in memory until another replaces it, but where
\* the Append of an operation on the same record or table fails under the worker's
\* mutex, and where fileOnChange takes a file that is not what memory held.
THEOREM OnlyRollbacksAndReloads == Spec => OnlyRollbacksAndReloadsLoseAnswers
<1> DEFINE A == \A p \in Places :
                  Look(data, p) = Look(promised, p) /\ Look(data', p) # Look(promised', p) =>
                    \/ WALEnabled /\ dataMutex = "worker" /\ p \in unlogged'
                    \/ StaleReload
<1>1. CASE WALEnabled
  <2>1. TypeIInv /\ LogIInv /\ [Next]_vars => A
    BY <1>1, AppliesLogged, OthersAnnounced, AppliesIs
  <2>2. TypeIInv /\ LogIInv /\ [Next]_vars => [A]_vars
    BY <2>1
  <2> QED
    BY <1>1, <2>2, TypeInvariant, LogInvariant, PTL DEF Spec, OnlyRollbacksAndReloadsLoseAnswers
<1>2. CASE ~WALEnabled
  <2>1. TypeIInv /\ [Next]_vars => A
    BY <1>2, AppliesAnnounced, OthersAnnounced DEF TypeIInv, KnownTyped, LogTyped
  <2>2. TypeIInv /\ [Next]_vars => [A]_vars
    BY <2>1
  <2> QED
    BY <1>2, <2>2, TypeInvariant, PTL DEF Spec, OnlyRollbacksAndReloadsLoseAnswers
<1> QED
  BY <1>1, <1>2

=============================================================================
