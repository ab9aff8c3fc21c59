------------------------- MODULE IndexManagerProofs -------------------------
(***************************************************************************)
(* The secondary index lists what it should, for every value of the        *)
(* constants: exactly the matching keys if nothing raced, all of them also *)
(* after a race, and no query returns a record that never matched.         *)
(*                                                                         *)
(* None of it is inductive.  Between the store of a record and the update  *)
(* of the index the index still knows the old record (Indexed), what       *)
(* CreateIndex has built covers the keys that it has visited (todo), and   *)
(* what a query may yet return is the list, its array as edited under the  *)
(* query, and the part copied (Seen).                                      *)
(***************************************************************************)
EXTENDS IndexManager, SequenceTheorems, WellFoundedInduction, TLAPS

-----------------------------------------------------------------------------
(***************************************************************************)
(* The inductive invariant.                                                *)
(***************************************************************************)

\* An operation whose record is stored and not yet in the index.
Pending(k) == wpc = "stored" /\ op.key = k

\* The record that the index has to know of.
Indexed(k) == IF Pending(k) THEN op.old ELSE records[k]

\* What changes the table and passes the index by.
Bypass ==
  \/ \E recs \in [Keys -> Record] : Replace(recs)
  \/ \E k \in Keys, rec \in Record : Commit(k, rec)

Quiet == ~raced /\ ~bypassed

\* A table that does not exist is empty, and nobody stores in it.
TableFirst == ~exists => records = NoRecords /\ wpc \in {"idle", "locked"}

\* What CreateIndex iterates is the table, by reference or both empty.
Sourced ==
  ~bypassed /\ cpc # "idle" => source = Live \/ (source = NoRecords /\ ~exists)

Current == wpc = "stored" => records[op.key] = op.new

\* An index is built once, and between two batches if nothing raced.
Built ==
  /\ cpc # "idle" => index = NoIndex
  /\ Quiet /\ cpc # "idle" => wpc = "idle"

Covers(idx, ks) ==
  \A s \in Strings : \A k \in ks :
    ~Pending(k) /\ Matches(records[k], s) => k \in ToSet(idx[s])

Covered ==
  ~bypassed => /\ cpc = "building" => Covers(partial, Keys \ todo)
               /\ index # NoIndex => Covers(index, Keys)

Exact(idx, ks) ==
  \A s \in Strings : /\ ToSet(idx[s]) = {k \in ks : Matches(Indexed(k), s)}
                     /\ IsInjective(idx[s])

Exactly ==
  Quiet => /\ cpc = "building" => Exact(partial, Keys \ todo)
           /\ index # NoIndex => Exact(index, Keys)

\* What a query can still return has matched since it began.
Seen ==
  /\ qpc = "copying" =>
       /\ index # NoIndex
       /\ \A k \in Keys : Matches(records[k], asked) => k \in seen
       /\ ToSet(index[asked]) \cup ToSet(view) \cup ToSet(result) \subseteq seen
  /\ qpc = "done" => found \subseteq seen

IInv ==
  TypeOK /\ TableFirst /\ Sourced /\ Current /\ Built /\ Covered /\ Exactly /\ (Quiet => Seen)
-----------------------------------------------------------------------------
(***************************************************************************)
(* Lists of keys.                                                          *)
(***************************************************************************)

\* A set of positions has a first one.
LEMMA FirstPosition ==
  ASSUME NEW n \in Nat, NEW T \in SUBSET (1 .. n), T # {}
  PROVE  Min(T) \in T
<1> DEFINE R == {p \in Nat \X Nat : p[1] < p[2]}
<1>1. IsWellFoundedOn(R, Nat)
  <2>1. R = OpToRel(<, Nat)
    BY DEF OpToRel
  <2> QED
    BY <2>1, NatLessThanWellFounded
<1>2. T \subseteq Nat
  OBVIOUS
<1>3. PICK m \in T : \A y \in T : <<y, m>> \notin R
  <2> HIDE DEF R
  <2> QED
    BY <1>1, <1>2, WFMin
<1>4. ASSUME NEW y \in T PROVE m <= y
  <2>1. y \in Nat /\ m \in Nat
    BY <1>2
  <2>2. <<y, m>> \notin R
    BY <1>3
  <2>3. ~(y < m)
    BY <2>1, <2>2
  <2> QED
    BY <2>1, <2>3
<1> QED
  BY <1>3, <1>4 DEF Min

\* RemoveFirst on a list that has the key: some position of it is gone.
LEMMA RemoveFirstIs ==
  ASSUME NEW S, NEW s \in Seq(S), NEW k, k \in ToSet(s)
  PROVE  \E i \in 1 .. Len(s) : s[i] = k /\ RemoveFirst(s, k) = RemoveAt(s, i)
<1> DEFINE I == {i \in 1 .. Len(s) : s[i] = k}
<1>1. I # {} /\ Len(s) \in Nat /\ I \in SUBSET (1 .. Len(s))
  BY DEF ToSet
<1>2. Min(I) \in I
  <2> HIDE DEF I
  <2> QED
    BY <1>1, FirstPosition
<1>3. RemoveFirst(s, k) = RemoveAt(s, Min(I))
  BY <1>1 DEF RemoveFirst, SelectInSeq
<1> QED
  BY <1>2, <1>3

\* A list without one position.
LEMMA RemoveAtIs ==
  ASSUME NEW S, NEW s \in Seq(S), NEW i \in 1 .. Len(s)
  PROVE  /\ RemoveAt(s, i) \in Seq(S)
         /\ Len(RemoveAt(s, i)) = Len(s) - 1
         /\ \A j \in 1 .. Len(s) - 1 :
              RemoveAt(s, i)[j] = IF j < i THEN s[j] ELSE s[j + 1]
<1> DEFINE a == SubSeq(s, 1, i - 1)
           b == SubSeq(s, i + 1, Len(s))
<1>1. /\ a \in Seq(S) /\ Len(a) = i - 1
      /\ \A j \in 1 .. i - 1 : a[j] = s[j]
  OBVIOUS
<1>2. /\ b \in Seq(S) /\ Len(b) = Len(s) - i
      /\ \A j \in 1 .. Len(s) - i : b[j] = s[i + j]
  OBVIOUS
<1>3. RemoveAt(s, i) = a \o b
  BY DEF RemoveAt
<1>4. Len(s) \in Nat /\ i \in Nat
  OBVIOUS
<1> HIDE DEF a, b
<1>5. /\ a \o b \in Seq(S) /\ Len(a \o b) = Len(s) - 1
      /\ \A j \in 1 .. Len(s) - 1 :
           (a \o b)[j] = IF j <= i - 1 THEN a[j] ELSE b[j - (i - 1)]
  BY <1>1, <1>2, <1>4
<1>6. ASSUME NEW j \in 1 .. Len(s) - 1
      PROVE  (a \o b)[j] = IF j < i THEN s[j] ELSE s[j + 1]
  <2>1. CASE j < i
    BY <1>1, <1>4, <1>5, <2>1
  <2>2. CASE ~(j < i)
    <3>1. j - (i - 1) \in 1 .. Len(s) - i /\ i + (j - (i - 1)) = j + 1
      BY <1>4, <2>2
    <3> QED
      BY <1>2, <1>4, <1>5, <2>2, <3>1
  <2> QED
    BY <2>1, <2>2
<1> QED
  BY <1>3, <1>5, <1>6

\* Only the key goes, and all of it if the list has it once.
LEMMA RemoveFirstFacts ==
  ASSUME NEW S, NEW s \in Seq(S), NEW k
  PROVE  /\ RemoveFirst(s, k) \in Seq(S)
         /\ ToSet(s) \ {k} \subseteq ToSet(RemoveFirst(s, k))
         /\ ToSet(RemoveFirst(s, k)) \subseteq ToSet(s)
         /\ IsInjective(s) => /\ IsInjective(RemoveFirst(s, k))
                              /\ ToSet(RemoveFirst(s, k)) = ToSet(s) \ {k}
<1>1. CASE k \notin ToSet(s)
  <2>1. RemoveFirst(s, k) = s
    BY <1>1 DEF RemoveFirst, ToSet
  <2> QED
    BY <1>1, <2>1
<1>2. CASE k \in ToSet(s)
  <2>1. PICK i \in 1 .. Len(s) : s[i] = k /\ RemoveFirst(s, k) = RemoveAt(s, i)
    BY <1>2, RemoveFirstIs
  <2> DEFINE r == RemoveFirst(s, k)
             n == Len(s)
  <2>2. /\ r \in Seq(S) /\ Len(r) = n - 1
        /\ \A j \in 1 .. n - 1 : r[j] = IF j < i THEN s[j] ELSE s[j + 1]
    BY <2>1, RemoveAtIs
  <2>3. n \in Nat /\ i \in 1 .. n /\ DOMAIN s = 1 .. n /\ s[i] = k
    BY <2>1
  <2> HIDE DEF r, n
  <2>4. DOMAIN r = 1 .. n - 1
    BY <2>2
  <2>5. ASSUME NEW e \in ToSet(s) \ {k} PROVE e \in ToSet(r)
    <3>1. PICK j \in 1 .. n : s[j] = e
      BY <2>3 DEF ToSet
    <3>2. j # i
      BY <2>3, <3>1
    <3>3. CASE j < i
      <4>1. j \in 1 .. n - 1 /\ r[j] = e
        BY <2>2, <2>3, <3>1, <3>3
      <4> QED
        BY <2>4, <4>1 DEF ToSet
    <3>4. CASE j > i
      <4>1. j - 1 \in 1 .. n - 1 /\ ~(j - 1 < i) /\ (j - 1) + 1 = j
        BY <2>3, <3>4
      <4>2. r[j - 1] = e
        BY <2>2, <3>1, <4>1
      <4> QED
        BY <2>4, <4>1, <4>2 DEF ToSet
    <3> QED
      BY <2>3, <3>2, <3>3, <3>4
  <2>6. ASSUME NEW j \in 1 .. n - 1
        PROVE  \E m \in 1 .. n : /\ r[j] = s[m] /\ m # i
                                 /\ m = IF j < i THEN j ELSE j + 1
    <3>1. CASE j < i
      BY <2>2, <2>3, <3>1
    <3>2. CASE ~(j < i)
      <4>1. j + 1 \in 1 .. n /\ j + 1 # i
        BY <2>3, <3>2
      <4> QED
        BY <2>2, <3>2, <4>1
    <3> QED
      BY <3>1, <3>2
  <2>7. ToSet(r) \subseteq ToSet(s)
    BY <2>3, <2>4, <2>6 DEF ToSet
  <2>8. ASSUME IsInjective(s) PROVE k \notin ToSet(r)
    BY <2>3, <2>4, <2>6, <2>8 DEF ToSet, IsInjective
  <2>9. ASSUME IsInjective(s) PROVE IsInjective(r)
    <3> SUFFICES ASSUME NEW j \in 1 .. n - 1, NEW l \in 1 .. n - 1, r[j] = r[l]
                 PROVE  j = l
      BY <2>4 DEF IsInjective
    <3>1. PICK m \in 1 .. n : r[j] = s[m] /\ m = IF j < i THEN j ELSE j + 1
      BY <2>6
    <3>2. PICK q \in 1 .. n : r[l] = s[q] /\ q = IF l < i THEN l ELSE l + 1
      BY <2>6
    <3>3. m = q
      BY <2>3, <2>9, <3>1, <3>2 DEF IsInjective
    <3> QED
      BY <2>3, <3>1, <3>2, <3>3
  <2> QED
    BY <2>2, <2>5, <2>7, <2>8, <2>9 DEF r
<1> QED
  BY <1>1, <1>2

\* A key more at the end of a list.
LEMMA AppendFacts ==
  ASSUME NEW S, NEW s \in Seq(S), NEW k \in S
  PROVE  /\ Append(s, k) \in Seq(S)
         /\ ToSet(Append(s, k)) = ToSet(s) \cup {k}
         /\ IsInjective(s) /\ k \notin ToSet(s) => IsInjective(Append(s, k))
<1> DEFINE r == Append(s, k)
           n == Len(s)
<1>1. /\ r \in Seq(S) /\ Len(r) = n + 1 /\ r[n + 1] = k
      /\ \A j \in 1 .. n : r[j] = s[j]
  OBVIOUS
<1>2. n \in Nat /\ DOMAIN s = 1 .. n
  OBVIOUS
<1> HIDE DEF r, n
<1>3. DOMAIN r = 1 .. n + 1
  BY <1>1
<1>4. \A j \in 1 .. n + 1 : j \in 1 .. n \/ j = n + 1
  BY <1>2
<1>5. 1 .. n \subseteq 1 .. n + 1 /\ n + 1 \in 1 .. n + 1
  BY <1>2
<1>6. ToSet(r) = ToSet(s) \cup {k}
  BY <1>1, <1>2, <1>3, <1>4, <1>5 DEF ToSet
<1>7. ASSUME IsInjective(s), k \notin ToSet(s) PROVE IsInjective(r)
  <2>1. \A j \in 1 .. n : s[j] # k
    BY <1>2, <1>7 DEF ToSet
  <2> QED
    BY <1>1, <1>2, <1>3, <1>4, <1>7, <2>1 DEF IsInjective
<1> QED
  BY <1>1, <1>6, <1>7 DEF r

-----------------------------------------------------------------------------
(***************************************************************************)
(* The index and the types.                                                *)
(***************************************************************************)

Lists == [Strings -> Seq(Keys)]

\* A key is listed once more under the value of its record.
LEMMA AddedFacts ==
  ASSUME NEW idx \in Lists, NEW rec, NEW k \in Keys
  PROVE  /\ Added(idx, rec, k) \in Lists
         /\ \A s \in Strings :
              /\ ToSet(Added(idx, rec, k)[s]) =
                   ToSet(idx[s]) \cup (IF Matches(rec, s) THEN {k} ELSE {})
              /\ IsInjective(idx[s]) /\ (Matches(rec, s) => k \notin ToSet(idx[s]))
                   => IsInjective(Added(idx, rec, k)[s])
<1>1. ASSUME NEW s \in Strings
      PROVE  /\ Append(idx[s], k) \in Seq(Keys)
             /\ ToSet(Append(idx[s], k)) = ToSet(idx[s]) \cup {k}
             /\ IsInjective(idx[s]) /\ k \notin ToSet(idx[s]) => IsInjective(Append(idx[s], k))
  <2>1. idx[s] \in Seq(Keys)
    BY DEF Lists
  <2> QED
    BY <2>1, AppendFacts
<1>2. ASSUME NEW s \in Strings
      PROVE  Added(idx, rec, k)[s] = IF Matches(rec, s) THEN Append(idx[s], k) ELSE idx[s]
  BY DEF Added
<1>3. Added(idx, rec, k) \in Lists
  BY <1>1 DEF Added, Lists
<1> QED
  BY <1>1, <1>2, <1>3

\* A key goes from the list of the value of its record, from no other, and no
\* other key does.
LEMMA RemovedFacts ==
  ASSUME NEW idx \in Lists, NEW rec, NEW k \in Keys
  PROVE  /\ Removed(idx, rec, k) \in Lists
         /\ \A s \in Strings :
              /\ ToSet(idx[s]) \ {k} \subseteq ToSet(Removed(idx, rec, k)[s])
              /\ ToSet(Removed(idx, rec, k)[s]) \subseteq ToSet(idx[s])
              /\ IsInjective(idx[s]) =>
                   /\ IsInjective(Removed(idx, rec, k)[s])
                   /\ ToSet(Removed(idx, rec, k)[s]) =
                        IF Matches(rec, s) THEN ToSet(idx[s]) \ {k} ELSE ToSet(idx[s])
<1>1. ASSUME NEW s \in Strings
      PROVE  /\ RemoveFirst(idx[s], k) \in Seq(Keys)
             /\ ToSet(idx[s]) \ {k} \subseteq ToSet(RemoveFirst(idx[s], k))
             /\ ToSet(RemoveFirst(idx[s], k)) \subseteq ToSet(idx[s])
             /\ IsInjective(idx[s]) => /\ IsInjective(RemoveFirst(idx[s], k))
                                       /\ ToSet(RemoveFirst(idx[s], k)) = ToSet(idx[s]) \ {k}
  <2>1. idx[s] \in Seq(Keys)
    BY DEF Lists
  <2> QED
    BY <2>1, RemoveFirstFacts
<1>2. ASSUME NEW s \in Strings
      PROVE  Removed(idx, rec, k)[s] =
               IF Matches(rec, s) THEN RemoveFirst(idx[s], k) ELSE idx[s]
  BY DEF Removed
<1>3. Removed(idx, rec, k) \in Lists
  BY <1>1 DEF Removed, Lists
<1> QED
  BY <1>1, <1>2, <1>3

\* An index under construction begins with empty lists.
LEMMA EmptyFacts ==
  Empty \in Lists /\ \A s \in Strings : ToSet(Empty[s]) = {} /\ IsInjective(Empty[s])
<1>1. <<>> \in Seq(Keys) /\ ToSet(<<>>) = {} /\ IsInjective(<<>>)
  BY DEF ToSet, IsInjective
<1> QED
  BY <1>1 DEF Empty, Lists

\* The array that a query reads stays an array of keys, all of them its own,
\* or the list's, or the key that is appended.
LEMMA ArrayFacts ==
  ASSUME NEW arr \in Seq(Keys), view \in Seq(Keys), NEW list \in Seq(Keys), NEW k \in Keys
  PROVE  /\ Shifted(list, k) \in Seq(Keys)
         /\ ToSet(Shifted(list, k)) \subseteq ToSet(view) \cup ToSet(list)
         /\ Filled(arr, list, k) \in Seq(Keys)
         /\ ToSet(Filled(arr, list, k)) \subseteq ToSet(arr) \cup {k}
<1>1. /\ Filled(arr, list, k) \in Seq(Keys)
      /\ ToSet(Filled(arr, list, k)) \subseteq ToSet(arr) \cup {k}
  <2> DEFINE f == Filled(arr, list, k)
  <2>1. /\ f = [j \in 1 .. Len(arr) |-> f[j]]
        /\ \A j \in 1 .. Len(arr) : f[j] = k \/ f[j] = arr[j]
        /\ Len(arr) \in Nat
    BY DEF Filled
  <2>2. \A j \in 1 .. Len(arr) : arr[j] \in Keys /\ arr[j] \in ToSet(arr)
    BY DEF ToSet
  <2> HIDE DEF f
  <2>3. \A j \in 1 .. Len(arr) : f[j] \in Keys
    BY <2>1, <2>2
  <2>4. f \in Seq(Keys) /\ DOMAIN f = 1 .. Len(arr)
    BY <2>1, <2>3, IsASeq
  <2>5. ToSet(f) \subseteq ToSet(arr) \cup {k}
    BY <2>1, <2>2, <2>4 DEF ToSet
  <2> QED
    BY <2>4, <2>5 DEF f
<1>2. /\ Shifted(list, k) \in Seq(Keys)
      /\ ToSet(Shifted(list, k)) \subseteq ToSet(view) \cup ToSet(list)
  <2> DEFINE i == SelectInSeq(list, LAMBDA e : e = k)
             f == [j \in DOMAIN view |->
                     IF i # 0 /\ i <= j /\ j < Len(list) THEN list[j + 1] ELSE view[j]]
  <2>1. Shifted(list, k) = f
    BY DEF Shifted
  <2>2. \A j \in 1 .. Len(view) : view[j] \in Keys /\ view[j] \in ToSet(view)
    BY DEF ToSet
  <2>3. \A j \in 1 .. Len(list) : list[j] \in Keys /\ list[j] \in ToSet(list)
    BY DEF ToSet
  <2>4. DOMAIN view = 1 .. Len(view) /\ Len(view) \in Nat /\ Len(list) \in Nat
    OBVIOUS
  <2> HIDE DEF i
  <2>5. ASSUME NEW j \in 1 .. Len(view)
        PROVE  f[j] \in Keys /\ f[j] \in ToSet(view) \cup ToSet(list)
    <3>1. j \in Nat /\ j >= 1
      BY <2>4
    <3>2. j < Len(list) => j + 1 \in 1 .. Len(list)
      BY <2>4, <3>1
    <3> QED
      BY <2>2, <2>3, <2>4, <3>2
  <2>6. f = [j \in 1 .. Len(view) |-> f[j]]
    BY <2>4
  <2> HIDE DEF f
  <2>7. f \in Seq(Keys) /\ DOMAIN f = 1 .. Len(view)
    BY <2>4, <2>5, <2>6, IsASeq
  <2>8. ToSet(f) \subseteq ToSet(view) \cup ToSet(list)
    BY <2>5, <2>7 DEF ToSet
  <2> QED
    BY <2>1, <2>7, <2>8
<1> QED
  BY <1>1, <1>2

\* UpdateIndex with an index to update.
LEMMA UpdateIs ==
  ASSUME TypeOK, UpdateIndex, index # NoIndex
  PROVE  /\ index \in Lists /\ op \in Operation /\ op.key \in Keys
         /\ index' = Added(Removed(index, op.old, op.key), op.new, op.key)
         /\ index' \in Lists /\ view' \in Seq(Keys) /\ aliased' \in BOOLEAN
         /\ ToSet(view') \subseteq ToSet(view) \cup ToSet(index[asked])
                                     \cup (IF Matches(op.new, asked) THEN {op.key} ELSE {})
<1>1. /\ index \in Lists /\ op \in Operation /\ view \in Seq(Keys) /\ aliased \in BOOLEAN
      /\ asked \in Strings
  BY DEF TypeOK, UpdateIndex, Lists
<1> DEFINE k == op.key
           without == Removed(index, op.old, k)
           arr == IF aliased /\ Matches(op.old, asked)
                    THEN Shifted(index[asked], k) ELSE view
           same == aliased /\ without[asked] # <<>>
<1>2. k \in Keys
  BY <1>1 DEF Operation
<1>3. /\ index' = Added(without, op.new, k)
      /\ view' = IF same /\ Matches(op.new, asked)
                   THEN Filled(arr, without[asked], k) ELSE arr
      /\ aliased' \in BOOLEAN \/ aliased' = same
  BY DEF UpdateIndex
<1>4. without \in Lists
  BY <1>1, <1>2, RemovedFacts
<1>5. aliased' \in BOOLEAN
  BY <1>3
<1>6. index[asked] \in Seq(Keys) /\ without[asked] \in Seq(Keys)
  BY <1>1, <1>4 DEF Lists
<1> HIDE DEF k, without, same
<1>7. Added(without, op.new, k) \in Lists
  BY <1>2, <1>4, AddedFacts
<1>8. arr \in Seq(Keys) /\ ToSet(arr) \subseteq ToSet(view) \cup ToSet(index[asked])
  BY <1>1, <1>2, <1>6, ArrayFacts
<1> HIDE DEF arr
<1>9. /\ Filled(arr, without[asked], k) \in Seq(Keys)
      /\ ToSet(Filled(arr, without[asked], k)) \subseteq ToSet(arr) \cup {k}
  BY <1>1, <1>2, <1>6, <1>8, ArrayFacts
<1>10. /\ view' \in Seq(Keys)
       /\ ToSet(view') \subseteq ToSet(view) \cup ToSet(index[asked])
                                   \cup (IF Matches(op.new, asked) THEN {k} ELSE {})
  BY <1>3, <1>8, <1>9
<1> QED
  BY <1>1, <1>2, <1>3, <1>5, <1>7, <1>10 DEF k, without

\* The initial states are typed.
LEMMA InitTyped == Init => TypeOK
<1>1. NoRecords \in [Keys -> Record] /\ Empty \in Lists /\ <<>> \in Seq(Keys)
  BY EmptyFacts DEF NoRecords, Record
<1> SUFFICES ASSUME Init PROVE TypeOK
  OBVIOUS
<1>2. exists \in BOOLEAN /\ 0 \in 0 .. MaxStores
  BY IndexAssumption DEF Init, IndexAssumption
<1> QED
  BY <1>1, <1>2 DEF Init, TypeOK, Lists

\* The worker keeps the types.
LEMMA WorkerTyped == TypeOK /\ Worker => TypeOK'
<1> SUFFICES ASSUME TypeOK, Worker PROVE TypeOK'
  OBVIOUS
<1>1. CASE Lock \/ Unlock
  BY <1>1 DEF Lock, Unlock, TypeOK, tableVars, createVars, queryVars, history
<1>2. CASE CreateTable
  BY <1>2 DEF CreateTable, TypeOK, workerVars, createVars, queryVars
<1>3. ASSUME NEW k \in Keys, NEW rec \in Record, Store(k, rec)
      PROVE  TypeOK'
  <2>1. op' \in Operation /\ op' # NoOp
    BY <1>3, IndexAssumption DEF Store, TypeOK, Operation, IndexAssumption
  <2>2. records' \in [Keys -> Record] /\ stores' \in 0 .. MaxStores
    BY <1>3, IndexAssumption DEF Store, TypeOK, IndexAssumption
  <2>3. todo' \subseteq Keys /\ steady' \subseteq Keys /\ seen' \subseteq Keys
    BY <1>3 DEF Store, TypeOK, Inserted, Noted
  <2> QED
    BY <1>3, <2>1, <2>2, <2>3 DEF Store, TypeOK, history
<1>4. CASE UpdateIndex
  <2>1. CASE index = NoIndex
    BY <1>4, <2>1 DEF UpdateIndex, TypeOK, tableVars, createVars, history
  <2>2. CASE index # NoIndex
    <3>1. index' \in Lists /\ view' \in Seq(Keys) /\ aliased' \in BOOLEAN
      BY <1>4, <2>2, UpdateIs
    <3> QED
      BY <1>4, <3>1 DEF UpdateIndex, TypeOK, tableVars, createVars, history, Lists
  <2> QED
    BY <2>1, <2>2
<1>5. CASE LogAppended
  BY <1>5 DEF LogAppended, TypeOK, tableVars, createVars, queryVars, history
<1>6. CASE LogFailed
  <2> DEFINE old == IF op.old = Absent THEN NoField ELSE op.old
  <2>1. op.key \in Keys /\ old \in Record
    BY <1>6 DEF LogFailed, TypeOK, Operation, Record
  <2>2. /\ records' = [records EXCEPT ![op.key] = old]
        /\ steady' = steady \ {op.key}
        /\ seen' = IF Matches(old, asked) THEN seen \cup {op.key} ELSE seen
    BY <1>6 DEF LogFailed, Noted
  <2> HIDE DEF old
  <2>3. records' \in [Keys -> Record] /\ steady' \subseteq Keys /\ seen' \subseteq Keys
    BY <2>1, <2>2 DEF TypeOK
  <2> QED
    BY <1>6, <2>3 DEF LogFailed, TypeOK, Bypassing, createVars
<1> QED
  BY <1>1, <1>2, <1>3, <1>4, <1>5, <1>6 DEF Worker

\* CreateIndex keeps the types.
LEMMA CreateTyped == TypeOK /\ CreateIndex => TypeOK'
<1> SUFFICES ASSUME TypeOK, CreateIndex PROVE TypeOK'
  OBVIOUS
<1> USE DEF createFrame, tableVars, workerVars, queryVars, history
<1>1. NoRecords \in [Keys -> Record]
  BY DEF NoRecords, Record
<1>2. CASE Reference
  BY <1>1, <1>2 DEF Reference, TypeOK
<1>3. CASE StartBuild
  BY <1>3, EmptyFacts DEF StartBuild, TypeOK, Lists
<1>4. ASSUME NEW k \in Keys, Visit(k) PROVE TypeOK'
  <2>1. partial' \in Lists
    BY <1>4, AddedFacts DEF Visit, TypeOK, Lists
  <2> QED
    BY <1>4, <2>1 DEF Visit, TypeOK, Lists
<1>5. CASE Install
  BY <1>5, EmptyFacts DEF Install, TypeOK, Lists
<1>6. CASE ConcurrentMapAccess
  BY <1>6 DEF ConcurrentMapAccess, TypeOK, createVars
<1> QED
  BY <1>2, <1>3, <1>4, <1>5, <1>6 DEF CreateIndex

\* A query keeps the types.
LEMMA QueryTyped == TypeOK /\ Query => TypeOK'
<1> SUFFICES ASSUME TypeOK, Query PROVE TypeOK'
  OBVIOUS
<1> USE DEF queryFrame, tableVars, workerVars, createVars, history
<1>1. ASSUME NEW s \in Strings, QueryStart(s) PROVE TypeOK'
  <2>1. index[s] \in Seq(Keys) /\ <<>> \in Seq(Keys)
    BY <1>1 DEF QueryStart, TypeOK
  <2>2. steady' \subseteq Keys /\ seen' \subseteq Keys
    BY <1>1 DEF QueryStart, Matching
  <2> QED
    BY <1>1, <2>1, <2>2 DEF QueryStart, TypeOK
<1>2. CASE QueryCopy
  <2>1. view[Len(result) + 1] \in Keys
    BY <1>2 DEF QueryCopy, TypeOK
  <2>2. result' \in Seq(Keys)
    BY <1>2, <2>1, AppendFacts DEF QueryCopy, TypeOK
  <2> QED
    BY <1>2, <2>2 DEF QueryCopy, TypeOK
<1>3. CASE QueryLookUp
  <2>1. ToSet(result) \subseteq Keys /\ <<>> \in Seq(Keys)
    BY DEF TypeOK, ToSet
  <2> QED
    BY <1>3, <2>1 DEF QueryLookUp, TypeOK
<1>4. CASE QueryReturn
  BY <1>4 DEF QueryReturn, TypeOK
<1> QED
  BY <1>1, <1>2, <1>3, <1>4 DEF Query

\* Reloads, imports and commits keep the types.
LEMMA BypassTyped == TypeOK /\ Bypass => TypeOK'
<1> SUFFICES ASSUME TypeOK, Bypass PROVE TypeOK'
  OBVIOUS
<1>1. ASSUME NEW recs \in [Keys -> Record], Replace(recs) PROVE TypeOK'
  <2>1. stores' \in 0 .. MaxStores
    BY <1>1, IndexAssumption DEF Replace, TypeOK, IndexAssumption
  <2>2. (source' = Live \/ source' \in [Keys -> Record]) /\ bypassed' \in BOOLEAN
    BY <1>1 DEF Replace, TypeOK, Bypassing
  <2>3. steady' \subseteq Keys /\ seen' \subseteq Keys
    BY <1>1 DEF Replace, TypeOK
  <2> QED
    BY <1>1, <2>1, <2>2, <2>3 DEF Replace, TypeOK, workerVars
<1>2. ASSUME NEW k \in Keys, NEW rec \in Record, Commit(k, rec) PROVE TypeOK'
  <2>1. stores' \in 0 .. MaxStores /\ bypassed' \in BOOLEAN
    BY <1>2, IndexAssumption DEF Commit, TypeOK, IndexAssumption, Bypassing
  <2>2. todo' \subseteq Keys /\ steady' \subseteq Keys /\ seen' \subseteq Keys
    BY <1>2 DEF Commit, TypeOK, Inserted, Noted
  <2>3. records' \in [Keys -> Record]
    BY <1>2 DEF Commit, TypeOK
  <2> QED
    BY <1>2, <2>1, <2>2, <2>3 DEF Commit, TypeOK, workerVars
<1> QED
  BY <1>1, <1>2 DEF Bypass

\* Every step keeps the types.
LEMMA NextTyped == TypeOK /\ [Next]_vars => TypeOK'
<1>1. TypeOK /\ UNCHANGED vars => TypeOK'
  BY DEF TypeOK, vars, tableVars, workerVars, createVars, queryVars, history
<1> QED
  BY <1>1, WorkerTyped, CreateTyped, QueryTyped, BypassTyped DEF Next, Bypass

-----------------------------------------------------------------------------
(***************************************************************************)
(* Where the worker and CreateIndex can be.                                *)
(***************************************************************************)

Shape == TableFirst /\ Sourced /\ Current /\ Built

\* What Shape reads.
shapeVars == <<exists, records, wpc, op, cpc, source, index, raced, bypassed>>

\* At first the worker and CreateIndex are idle.
LEMMA InitShape == Init => Shape
  BY DEF Init, Shape, TableFirst, Sourced, Current, Built

\* Every step keeps Shape.
LEMMA NextShape ==
  ASSUME TypeOK, Shape, [Next]_vars
  PROVE  Shape'
<1> USE DEF Shape, TableFirst, Sourced, Current, Built, Quiet
<1>1. CASE Lock
  BY <1>1 DEF Lock, tableVars, createVars
<1>2. CASE Unlock
  BY <1>2 DEF Unlock, tableVars, createVars, history
<1>3. CASE CreateTable
  BY <1>3 DEF CreateTable, workerVars, createVars
<1>4. ASSUME NEW k \in Keys, NEW rec \in Record, Store(k, rec) PROVE Shape'
  <2>1. op'.key = k /\ op'.new = rec
    BY <1>4 DEF Store
  <2>2. records'[k] = rec
    BY <1>4 DEF Store, TypeOK
  <2> QED
    BY <1>4, <2>1, <2>2 DEF Store, history
<1>5. CASE UpdateIndex
  BY <1>5 DEF UpdateIndex, tableVars, createVars, history
<1>6. CASE LogAppended
  BY <1>6 DEF LogAppended, tableVars, createVars, history
<1>7. CASE LogFailed
  BY <1>7 DEF LogFailed, Bypassing, createVars
<1>8. CASE Reference
  BY <1>8 DEF Reference, createFrame, tableVars, workerVars, history
<1>9. CASE StartBuild
  BY <1>9 DEF StartBuild, createFrame, tableVars, workerVars, history
<1>10. CASE \E k \in Keys : Visit(k)
  BY <1>10 DEF Visit, createFrame, tableVars, workerVars, history
<1>11. CASE Install
  BY <1>11 DEF Install, createFrame, tableVars, workerVars, history
<1>12. CASE ConcurrentMapAccess \/ Query \/ UNCHANGED vars
  <2> UNCHANGED shapeVars
    BY <1>12 DEF ConcurrentMapAccess, Query, QueryStart, QueryCopy, QueryLookUp, QueryReturn,
                 queryFrame, vars, tableVars, workerVars, createVars, history, shapeVars
  <2> QED
    BY DEF shapeVars
<1>13. CASE Bypass
  <2>1. /\ exists' /\ wpc = "idle" /\ UNCHANGED <<wpc, op, cpc, index, raced>>
        /\ bypassed' = (bypassed \/ index # NoIndex \/ cpc # "idle")
    BY <1>13 DEF Bypass, Replace, Commit, Bypassing, workerVars
  <2> QED
    BY <2>1
<1> QED
  BY <1>1, <1>2, <1>3, <1>4, <1>5, <1>6, <1>7, <1>8, <1>9, <1>10, <1>11, <1>12, <1>13
     DEF Next, Bypass, Worker, CreateIndex

\* CreateIndex reads the table, unless something bypassed it.
LEMMA ContentsAre ==
  ASSUME Shape, ~bypassed, cpc # "idle", NEW k \in Keys
  PROVE  Contents[k] = records[k]
  BY DEF Shape, Sourced, TableFirst, Contents

\* A record that is absent or has no field matches nothing.
LEMMA NoMatch ==
  ASSUME NEW s
  PROVE  ~Matches(Absent, s) /\ ~Matches(NoField, s)
  BY IndexAssumption DEF IndexAssumption, Matches

\* Steps that change neither the records nor what is known of them.
Aside ==
  \/ Lock \/ Unlock \/ CreateTable \/ LogAppended \/ ConcurrentMapAccess \/ Query
  \/ UNCHANGED vars

\* They may note that something raced or bypassed the index, never undo it.
LEMMA AsideIs ==
  ASSUME Aside
  PROVE  /\ UNCHANGED <<records, cpc, partial, todo, index>>
         /\ (bypassed => bypassed') /\ (raced => raced')
         /\ (wpc # "stored" /\ wpc' # "stored") \/ UNCHANGED <<wpc, op>>
<1> USE DEF tableVars, workerVars, createVars, history
<1>1. CASE Lock
  BY <1>1 DEF Lock
<1>2. CASE Unlock
  BY <1>2 DEF Unlock
<1>3. CASE CreateTable
  BY <1>3 DEF CreateTable
<1>4. CASE LogAppended
  BY <1>4 DEF LogAppended
<1>5. CASE ConcurrentMapAccess
  BY <1>5 DEF ConcurrentMapAccess
<1>6. CASE Query \/ UNCHANGED vars
  BY <1>6 DEF Query, QueryStart, QueryCopy, QueryLookUp, QueryReturn, queryFrame, vars
<1> QED
  BY <1>1, <1>2, <1>3, <1>4, <1>5, <1>6 DEF Aside

-----------------------------------------------------------------------------
(***************************************************************************)
(* No record is missing, also when CreateIndex and a batch race.           *)
(***************************************************************************)

\* Every step keeps Covered: UpdateIndex removes no other key than the one it
\* was called for, and adds that under the new value.
LEMMA NextCovered ==
  ASSUME TypeOK, Shape, Covered, [Next]_vars
  PROVE  Covered'
<1> SUFFICES ASSUME ~bypassed'
             PROVE  /\ cpc' = "building" => Covers(partial, Keys \ todo)'
                    /\ index' # NoIndex => Covers(index, Keys)'
  BY DEF Covered
<1>1. CASE Aside
  <2>1. /\ UNCHANGED <<records, cpc, partial, todo, index>> /\ ~bypassed
        /\ (wpc # "stored" /\ wpc' # "stored") \/ UNCHANGED <<wpc, op>>
    BY <1>1, AsideIs
  <2> QED
    BY <2>1 DEF Covered, Covers, Pending, Matches
<1>2. ASSUME NEW k \in Keys, NEW rec \in Record, Store(k, rec)
      PROVE  /\ cpc' = "building" => Covers(partial, Keys \ todo)'
             /\ index' # NoIndex => Covers(index, Keys)'
  <2>1. /\ wpc # "stored" /\ wpc' = "stored" /\ op'.key = k /\ ~bypassed
        /\ records' = [records EXCEPT ![k] = rec]
        /\ UNCHANGED <<cpc, partial, index>> /\ todo \subseteq todo'
    BY <1>2 DEF Store, Inserted, history
  <2>2. \A j \in Keys : j # k => records'[j] = records[j]
    BY <2>1 DEF TypeOK
  <2>3. \A j \in Keys : ~Pending(j) /\ (~Pending(j)' => j # k)
    BY <2>1 DEF Pending
  <2> QED
    BY <2>1, <2>2, <2>3 DEF Covered, Covers, Matches
<1>3. CASE UpdateIndex
  <2>1. /\ cpc # "building" /\ UNCHANGED <<cpc, records>> /\ ~bypassed
        /\ wpc = "stored" /\ wpc' = "logging"
    BY <1>3 DEF UpdateIndex, tableVars, createVars, history
  <2>2. CASE index = NoIndex
    BY <1>3, <2>1, <2>2 DEF UpdateIndex
  <2>3. CASE index # NoIndex
    <3> DEFINE without == Removed(index, op.old, op.key)
    <3>1. /\ index \in Lists /\ op.key \in Keys
          /\ index' = Added(without, op.new, op.key)
      BY <1>3, <2>3, UpdateIs
    <3>2. /\ without \in Lists
          /\ \A s \in Strings : ToSet(index[s]) \ {op.key} \subseteq ToSet(without[s])
      BY <3>1, RemovedFacts
    <3> HIDE DEF without
    <3>3. ASSUME NEW s \in Strings
          PROVE  ToSet(index'[s]) =
                   ToSet(without[s]) \cup (IF Matches(op.new, s) THEN {op.key} ELSE {})
      BY <3>1, <3>2, AddedFacts
    <3>4. ASSUME NEW s \in Strings, NEW k \in Keys, Matches(records[k], s)
          PROVE  k \in ToSet(index'[s])
      <4>1. CASE k = op.key
        BY <2>1, <3>3, <3>4, <4>1 DEF Shape, Current
      <4>2. CASE k # op.key
        <5>1. k \in ToSet(index[s])
          BY <2>1, <2>3, <3>4, <4>2 DEF Covered, Covers, Pending
        <5> QED
          BY <3>2, <3>3, <4>2, <5>1
      <4> QED
        BY <4>1, <4>2
    <3>5. Covers(index, Keys)'
      BY <2>1, <3>4 DEF Covers, Matches
    <3> QED
      BY <2>1, <3>5
  <2> QED
    BY <2>2, <2>3
<1>4. CASE LogFailed
  <2>1. index' = NoIndex /\ cpc' = "idle"
    BY <1>4 DEF LogFailed, Bypassing, createVars
  <2> QED
    BY <2>1
<1>5. CASE Reference
  BY <1>5 DEF Reference
<1>6. CASE StartBuild
  <2>1. /\ UNCHANGED <<records, index, wpc, op>> /\ ~bypassed /\ cpc # "idle"
        /\ todo' = {k \in Keys : Contents[k] # Absent}
    BY <1>6 DEF StartBuild, createFrame, tableVars, workerVars, history
  <2>2. \A k \in Keys \ todo' : records[k] = Absent
    BY <2>1, ContentsAre
  <2>3. Covers(partial, Keys \ todo)'
    BY <2>1, <2>2, NoMatch DEF Covers, Matches
  <2> QED
    BY <2>1, <2>3 DEF Shape, Built
<1>7. ASSUME NEW k \in Keys, Visit(k)
      PROVE  /\ cpc' = "building" => Covers(partial, Keys \ todo)'
             /\ index' # NoIndex => Covers(index, Keys)'
  <2>1. /\ UNCHANGED <<records, index, wpc, op, cpc>> /\ ~bypassed /\ cpc = "building"
        /\ todo' = todo \ {k} /\ partial' = Added(partial, Contents[k], k)
    BY <1>7 DEF Visit, createFrame, tableVars, workerVars, history
  <2>2. partial \in Lists
    BY DEF TypeOK, Lists
  <2>3. Contents[k] = records[k]
    BY <2>1, ContentsAre
  <2>4. ASSUME NEW s \in Strings
        PROVE  ToSet(partial'[s]) =
                 ToSet(partial[s]) \cup (IF Matches(records[k], s) THEN {k} ELSE {})
    BY <2>1, <2>2, <2>3, AddedFacts
  <2>5. Covers(partial, Keys \ todo)
    BY <2>1 DEF Covered
  <2>6. Covers(partial, Keys \ todo)'
    BY <2>1, <2>4, <2>5 DEF Covers, Pending, Matches
  <2> QED
    BY <2>1, <2>6 DEF Shape, Built
<1>8. CASE Install
  <2>1. /\ UNCHANGED <<records, wpc, op>> /\ ~bypassed /\ cpc = "building" /\ cpc' = "idle"
        /\ todo = {} /\ index' = partial
    BY <1>8 DEF Install, createFrame, tableVars, workerVars, history
  <2>2. Covers(partial, Keys)
    BY <2>1 DEF Covered
  <2> QED
    BY <2>1, <2>2 DEF Covers, Pending, Matches
<1>9. CASE Bypass
  <2>1. index' = NoIndex /\ cpc' = "idle"
    BY <1>9 DEF Bypass, Replace, Commit, Bypassing
  <2> QED
    BY <2>1
<1> QED
  BY <1>1, <1>2, <1>3, <1>4, <1>5, <1>6, <1>7, <1>8, <1>9
     DEF Next, Bypass, Worker, CreateIndex, Aside

-----------------------------------------------------------------------------
(***************************************************************************)
(* Nothing else is listed, and nothing twice, if nothing raced.            *)
(***************************************************************************)

\* Every step keeps Exactly: the list of the old value has the key once, so that
\* it is gone after the removal, and no list has it before it is added.
LEMMA NextExactly ==
  ASSUME TypeOK, Shape, Exactly, [Next]_vars
  PROVE  Exactly'
<1> SUFFICES ASSUME Quiet'
             PROVE  /\ cpc' = "building" => Exact(partial, Keys \ todo)'
                    /\ index' # NoIndex => Exact(index, Keys)'
  BY DEF Exactly
<1>1. CASE Aside
  <2>1. /\ UNCHANGED <<records, cpc, partial, todo, index>> /\ Quiet
        /\ (wpc # "stored" /\ wpc' # "stored") \/ UNCHANGED <<wpc, op>>
    BY <1>1, AsideIs DEF Quiet
  <2>2. \A k \in Keys : Indexed(k)' = Indexed(k)
    BY <2>1 DEF Indexed, Pending
  <2> QED
    BY <2>1, <2>2 DEF Exactly, Exact, Matches
<1>2. ASSUME NEW k \in Keys, NEW rec \in Record, Store(k, rec)
      PROVE  /\ cpc' = "building" => Exact(partial, Keys \ todo)'
             /\ index' # NoIndex => Exact(index, Keys)'
  <2>1. /\ wpc = "locked" /\ wpc' = "stored" /\ op'.key = k /\ op'.old = records[k] /\ Quiet
        /\ records' = [records EXCEPT ![k] = rec]
        /\ UNCHANGED <<cpc, index>>
    BY <1>2 DEF Store, history, Quiet
  <2>2. \A j \in Keys : Indexed(j)' = Indexed(j)
    BY <2>1 DEF TypeOK, Indexed, Pending
  <2>3. cpc' # "building"
    BY <2>1 DEF Shape, Built
  <2> QED
    BY <2>1, <2>2, <2>3 DEF Exactly, Exact, Matches
<1>3. CASE UpdateIndex
  <2>1. /\ cpc # "building" /\ UNCHANGED <<cpc, records>> /\ Quiet
        /\ wpc = "stored" /\ wpc' = "logging"
    BY <1>3 DEF UpdateIndex, tableVars, createVars, history, Quiet
  <2>2. CASE index = NoIndex
    BY <1>3, <2>1, <2>2 DEF UpdateIndex
  <2>3. CASE index # NoIndex
    <3> DEFINE without == Removed(index, op.old, op.key)
    <3>1. /\ index \in Lists /\ op.key \in Keys
          /\ index' = Added(without, op.new, op.key)
      BY <1>3, <2>3, UpdateIs
    <3>2. Exact(index, Keys)
      BY <2>1, <2>3 DEF Exactly
    <3>3. ASSUME NEW s \in Strings
          PROVE  /\ IsInjective(without[s])
                 /\ ToSet(without[s]) =
                      IF Matches(op.old, s) THEN ToSet(index[s]) \ {op.key} ELSE ToSet(index[s])
      BY <3>1, <3>2, RemovedFacts DEF Exact
    <3>4. without \in Lists
      BY <3>1, RemovedFacts
    <3> HIDE DEF without
    <3>5. ASSUME NEW s \in Strings
          PROVE  /\ ToSet(without[s]) =
                      {j \in Keys : j # op.key /\ Matches(records[j], s)}
                 /\ op.key \notin ToSet(without[s])
      <4>1. ToSet(index[s]) = {j \in Keys : Matches(Indexed(j), s)}
        BY <3>2 DEF Exact
      <4>2. \A j \in Keys : Indexed(j) = IF j = op.key THEN op.old ELSE records[j]
        BY <2>1 DEF Indexed, Pending
      <4>3. \A j \in Keys : j \in ToSet(index[s]) <=>
              Matches(IF j = op.key THEN op.old ELSE records[j], s)
        BY <4>1, <4>2
      <4>4. ToSet(without[s]) \subseteq Keys
        BY <3>3, <4>1
      <4> QED
        BY <3>1, <3>3, <4>3, <4>4
    <3>6. ASSUME NEW s \in Strings
          PROVE  /\ IsInjective(index'[s])
                 /\ ToSet(index'[s]) =
                      ToSet(without[s]) \cup (IF Matches(op.new, s) THEN {op.key} ELSE {})
      <4>1. /\ ToSet(Added(without, op.new, op.key)[s]) =
                 ToSet(without[s]) \cup (IF Matches(op.new, s) THEN {op.key} ELSE {})
            /\ IsInjective(without[s]) /\ (Matches(op.new, s) => op.key \notin ToSet(without[s]))
                 => IsInjective(Added(without, op.new, op.key)[s])
        BY <3>1, <3>4, AddedFacts
      <4> QED
        BY <3>1, <3>3, <3>5, <4>1
    <3>7. records[op.key] = op.new
      BY <2>1 DEF Shape, Current
    <3>8. ASSUME NEW s \in Strings
          PROVE  ToSet(index'[s]) = {j \in Keys : Matches(records[j], s)}
      BY <3>1, <3>5, <3>6, <3>7
    <3>9. \A j \in Keys : Indexed(j)' = records[j]
      BY <2>1 DEF Indexed, Pending
    <3>10. Exact(index, Keys)'
      BY <3>6, <3>8, <3>9 DEF Exact, Matches
    <3> QED
      BY <2>1, <3>10
  <2> QED
    BY <2>2, <2>3
<1>4. CASE LogFailed
  <2>1. index' = NoIndex /\ cpc' = "idle"
    BY <1>4 DEF LogFailed, Bypassing, createVars, Quiet
  <2> QED
    BY <2>1
<1>5. CASE Reference
  BY <1>5 DEF Reference
<1>6. CASE StartBuild
  <2>1. /\ UNCHANGED <<records, index, wpc, op>> /\ Quiet /\ cpc # "idle"
        /\ todo' = {k \in Keys : Contents[k] # Absent} /\ partial' = Empty
    BY <1>6 DEF StartBuild, createFrame, tableVars, workerVars, history, Quiet
  <2>2. \A k \in Keys \ todo' : Indexed(k)' = Absent
    BY <2>1, ContentsAre DEF Shape, Built, Quiet, Indexed, Pending
  <2>3. \A s : \A k \in Keys \ todo' : ~Matches(Indexed(k)', s)
    BY <2>2, NoMatch
  <2>4. Exact(partial, Keys \ todo)'
    BY <2>1, <2>3, EmptyFacts DEF Exact, Matches
  <2> QED
    BY <2>1, <2>4 DEF Shape, Built
<1>7. ASSUME NEW k \in Keys, Visit(k)
      PROVE  /\ cpc' = "building" => Exact(partial, Keys \ todo)'
             /\ index' # NoIndex => Exact(index, Keys)'
  <2>1. /\ UNCHANGED <<records, index, wpc, op, cpc>> /\ Quiet /\ cpc = "building"
        /\ k \in todo /\ todo' = todo \ {k} /\ partial' = Added(partial, Contents[k], k)
    BY <1>7 DEF Visit, createFrame, tableVars, workerVars, history, Quiet
  <2>2. partial \in Lists
    BY DEF TypeOK, Lists
  <2>3. Contents[k] = records[k]
    BY <2>1, ContentsAre DEF Quiet
  <2>4. Exact(partial, Keys \ todo)
    BY <2>1 DEF Exactly
  <2>5. \A j \in Keys : Indexed(j) = records[j] /\ Indexed(j)' = records[j]
    BY <2>1 DEF Shape, Built, Indexed, Pending
  <2>6. ASSUME NEW s \in Strings
        PROVE  /\ ToSet(partial[s]) = {j \in Keys \ todo : Matches(records[j], s)}
               /\ IsInjective(partial[s])
    BY <2>4, <2>5 DEF Exact
  <2>7. ASSUME NEW s \in Strings
        PROVE  /\ ToSet(partial'[s]) =
                    ToSet(partial[s]) \cup (IF Matches(records[k], s) THEN {k} ELSE {})
               /\ IsInjective(partial'[s])
    BY <2>1, <2>2, <2>3, <2>6, AddedFacts
  <2>8. ASSUME NEW s \in Strings
        PROVE  ToSet(partial'[s]) = {j \in Keys \ todo' : Matches(records[j], s)}
    BY <2>1, <2>6, <2>7
  <2>9. Exact(partial, Keys \ todo)'
    BY <2>5, <2>7, <2>8 DEF Exact, Matches
  <2> QED
    BY <2>1, <2>9 DEF Shape, Built
<1>8. CASE Install
  <2>1. /\ UNCHANGED <<records, wpc, op>> /\ Quiet /\ cpc = "building" /\ cpc' = "idle"
        /\ todo = {} /\ index' = partial
    BY <1>8 DEF Install, createFrame, tableVars, workerVars, history, Quiet
  <2>2. Exact(partial, Keys)
    BY <2>1 DEF Exactly
  <2>3. \A j \in Keys : Indexed(j)' = Indexed(j)
    BY <2>1 DEF Indexed, Pending
  <2> QED
    BY <2>1, <2>2, <2>3 DEF Exact, Matches
<1>9. CASE Bypass
  <2>1. index' = NoIndex /\ cpc' = "idle"
    BY <1>9 DEF Bypass, Replace, Commit, Bypassing, Quiet
  <2> QED
    BY <2>1
<1> QED
  BY <1>1, <1>2, <1>3, <1>4, <1>5, <1>6, <1>7, <1>8, <1>9
     DEF Next, Bypass, Worker, CreateIndex, Aside

-----------------------------------------------------------------------------
(***************************************************************************)
(* A query and the batches that edit the list under it.                    *)
(***************************************************************************)

\* Every step keeps Seen: what UpdateIndex moves in the array comes from the
\* list, and a key that it appends has matched since its store.
LEMMA NextSeen ==
  ASSUME TypeOK, Shape, Exactly, Quiet => Seen, [Next]_vars
  PROVE  Quiet' => Seen'
<1> SUFFICES ASSUME Quiet', Quiet, Seen PROVE Seen'
  <2>1. Quiet' => Quiet
    BY DEF Next, Bypass, Worker, Lock, Unlock, CreateTable, Store, UpdateIndex, LogAppended, LogFailed,
           CreateIndex, Reference, StartBuild, Visit, Install, ConcurrentMapAccess, createFrame,
           Query, QueryStart, QueryCopy, QueryLookUp, QueryReturn, queryFrame,
           Bypass, Replace, Commit, Bypassing, vars, history, Quiet
  <2> QED
    BY <2>1
<1>1. CASE Lock \/ Unlock \/ CreateTable \/ LogAppended \/ ConcurrentMapAccess
             \/ Reference \/ StartBuild \/ (\E k \in Keys : Visit(k)) \/ UNCHANGED vars
  <2>1. UNCHANGED <<index, records, queryVars>>
    BY <1>1 DEF Lock, Unlock, CreateTable, LogAppended, ConcurrentMapAccess, Reference,
                StartBuild, Visit, createFrame, vars, tableVars
  <2> QED
    BY <2>1 DEF Seen, queryVars, Matches
<1>2. CASE Install
  <2>1. index = NoIndex /\ UNCHANGED <<qpc, found, seen>>
    BY <1>2 DEF Install, Shape, Built, createFrame, queryVars
  <2> QED
    BY <2>1 DEF Seen
<1>3. ASSUME NEW k \in Keys, NEW rec \in Record, Store(k, rec) PROVE Seen'
  <2>1. /\ records' = [records EXCEPT ![k] = rec]
        /\ seen' = IF Matches(rec, asked) THEN seen \cup {k} ELSE seen
        /\ UNCHANGED <<index, qpc, view, asked, result, found>>
    BY <1>3 DEF Store, Noted
  <2>2. \A j \in Keys : records'[j] = IF j = k THEN rec ELSE records[j]
    BY <2>1 DEF TypeOK
  <2> QED
    BY <2>1, <2>2 DEF Seen, Matches
<1>4. CASE UpdateIndex
  <2>1. UNCHANGED <<records, qpc, asked, result, found, seen>> /\ wpc = "stored"
    BY <1>4 DEF UpdateIndex, tableVars
  <2>2. CASE index = NoIndex \/ qpc # "copying"
    BY <2>1, <2>2 DEF Seen
  <2>3. CASE index # NoIndex /\ qpc = "copying"
    <3>1. /\ op.key \in Keys /\ index \in Lists
          /\ index' = Added(Removed(index, op.old, op.key), op.new, op.key)
          /\ index' \in Lists
          /\ ToSet(view') \subseteq ToSet(view) \cup ToSet(index[asked])
                                      \cup (IF Matches(op.new, asked) THEN {op.key} ELSE {})
      BY <1>4, <2>3, UpdateIs
    <3>2. asked \in Strings
      BY DEF TypeOK
    <3>3. ToSet(index'[asked]) \subseteq
            ToSet(index[asked]) \cup (IF Matches(op.new, asked) THEN {op.key} ELSE {})
      <4> DEFINE without == Removed(index, op.old, op.key)
      <4>1. without \in Lists /\ ToSet(without[asked]) \subseteq ToSet(index[asked])
        BY <3>1, <3>2, RemovedFacts
      <4> HIDE DEF without
      <4>2. ToSet(Added(without, op.new, op.key)[asked]) =
              ToSet(without[asked]) \cup (IF Matches(op.new, asked) THEN {op.key} ELSE {})
        BY <3>1, <3>2, <4>1, AddedFacts
      <4> QED
        BY <3>1, <4>1, <4>2 DEF without
    <3>4. Matches(op.new, asked) => op.key \in seen
      BY <2>1, <2>3, <3>1 DEF Shape, Current, Seen
    <3>5. index' # NoIndex
      BY <3>1, IndexAssumption DEF IndexAssumption, Lists
    <3> QED
      BY <2>1, <2>3, <3>1, <3>3, <3>4, <3>5 DEF Seen, Matches
  <2> QED
    BY <2>2, <2>3
<1>5. CASE LogFailed
  <2>1. index = NoIndex /\ UNCHANGED <<qpc, found>> /\ seen \subseteq seen'
    BY <1>5 DEF LogFailed, Bypassing, Noted, Quiet
  <2> QED
    BY <2>1 DEF Seen
<1>6. ASSUME NEW s \in Strings, QueryStart(s) PROVE Seen'
  <2>1. /\ qpc' = "copying" /\ asked' = s /\ view' = index[s] /\ result' = <<>>
        /\ UNCHANGED <<index, records>> /\ index # NoIndex
        /\ seen' = Matching(s) \cup {k \in Keys : op # NoOp /\ op.key = k /\ Matches(op.old, s)}
    BY <1>6 DEF QueryStart, queryFrame, tableVars
  <2>2. Exact(index, Keys)
    BY <2>1 DEF Exactly
  <2>3. ToSet(index[s]) = {k \in Keys : Matches(Indexed(k), s)}
    BY <2>2 DEF Exact
  <2>4. wpc = "stored" => op # NoOp
    BY DEF TypeOK
  <2>5. \A k \in Keys : Matches(Indexed(k), s) => k \in seen'
    BY <2>1, <2>4 DEF Indexed, Pending, Matching
  <2>6. \A k \in Keys : Matches(records[k], s) => k \in seen'
    BY <2>1 DEF Matching
  <2>7. ToSet(<<>>) = {}
    BY DEF ToSet
  <2> QED
    BY <2>1, <2>3, <2>5, <2>6, <2>7 DEF Seen, Matches
<1>7. CASE QueryCopy
  <2>1. /\ UNCHANGED <<qpc, view, asked, seen, found, index, records>> /\ qpc = "copying"
        /\ result' = Append(result, view[Len(result) + 1]) /\ Len(result) < Len(view)
    BY <1>7 DEF QueryCopy, queryFrame, tableVars
  <2>2. view[Len(result) + 1] \in ToSet(view) /\ view[Len(result) + 1] \in Keys
    BY <2>1 DEF TypeOK, ToSet
  <2>3. ToSet(result') = ToSet(result) \cup {view[Len(result) + 1]}
    BY <2>1, <2>2, AppendFacts DEF TypeOK
  <2> QED
    BY <2>1, <2>2, <2>3 DEF Seen, Matches
<1>8. CASE QueryLookUp
  BY <1>8 DEF QueryLookUp, Seen
<1>9. CASE QueryReturn
  BY <1>9 DEF QueryReturn, Seen
<1>10. CASE Bypass
  <2>1. index = NoIndex /\ UNCHANGED <<qpc, found>> /\ seen \subseteq seen'
    BY <1>10 DEF Bypass, Replace, Commit, Bypassing, Noted, Quiet
  <2> QED
    BY <2>1 DEF Seen
<1> QED
  BY <1>1, <1>2, <1>3, <1>4, <1>5, <1>6, <1>7, <1>8, <1>9, <1>10
     DEF Next, Bypass, Worker, CreateIndex, Query

-----------------------------------------------------------------------------
(***************************************************************************)
(* The theorems.                                                           *)
(***************************************************************************)

\* The invariant is inductive.
LEMMA Invariance == Spec => []IInv
<1>1. Init => IInv
  BY InitTyped, InitShape DEF IInv, Shape, Init, Covered, Exactly, Seen
<1>2. IInv /\ [Next]_vars => IInv'
  BY NextTyped, NextShape, NextCovered, NextExactly, NextSeen DEF IInv, Shape
<1> QED
  BY <1>1, <1>2, PTL DEF Spec

\* Every variable keeps its type, in lists of keys and records of the table.
THEOREM TypeCorrect == Spec => []TypeOK
<1>1. IInv => TypeOK
  BY DEF IInv
<1> QED
  BY Invariance, <1>1, PTL

\* UpdateIndex, DeleteFromIndex: an index built between two batches lists
\* under each value exactly the keys whose records have it, each once.
THEOREM StaysExact == Spec => []IndexExact
<1>1. IInv => IndexExact
  BY DEF IInv, Exactly, Exact, Quiet, IndexExact, IndexConsistent, Settled, Indexed,
         Pending, Matching
<1> QED
  BY Invariance, <1>1, PTL

\* CreateIndex: every record that has the field is listed under its value,
\* also when the index was built while batches went on.
THEOREM StaysCovering == Spec => []IndexCovers
<1>1. IInv => IndexCovers
  BY DEF IInv, Covered, Covers, IndexCovers, IndexFindsAll, Settled, Pending, Matching
<1> QED
  BY Invariance, <1>1, PTL

\* QueryByIndex: what it returns has matched at some time during the query,
\* although batches edit the array while Query copies it.
THEOREM QueriesAreSound == Spec => []QuerySound
<1>1. IInv => QuerySound
  BY DEF IInv, Seen, Quiet, QuerySound
<1> QED
  BY Invariance, <1>1, PTL

=============================================================================
