----------------------------- MODULE WALProofs -----------------------------
(***************************************************************************)
(* The order of the write-ahead log, and the promise of AbstractLog, for   *)
(* any number of entries and of unwritable ones among them, any channel,   *)
(* batch and file size, and everything that the environment may do.        *)
(***************************************************************************)
EXTENDS WAL, FiniteSetTheorems, SequenceTheorems, TLAPS

-----------------------------------------------------------------------------
(***************************************************************************)
(* Sequences of entries in order.                                          *)
(***************************************************************************)

InOrder(s) == \A i, j \in DOMAIN s : i < j => s[i] < s[j]

\* The entries of a concatenation.
LEMMA ToSetConcat ==
  ASSUME NEW s \in Seq(Entry), NEW t \in Seq(Entry)
  PROVE  ToSet(s \o t) = ToSet(s) \cup ToSet(t)
<1>1. /\ s \o t \in Seq(Entry) /\ Len(s \o t) = Len(s) + Len(t)
      /\ Len(s) \in Nat /\ Len(t) \in Nat
      /\ DOMAIN (s \o t) = 1 .. Len(s) + Len(t)
      /\ DOMAIN s = 1 .. Len(s) /\ DOMAIN t = 1 .. Len(t)
      /\ \A i \in 1 .. Len(s) + Len(t) :
           (s \o t)[i] = IF i <= Len(s) THEN s[i] ELSE t[i - Len(s)]
  BY ConcatProperties, LenProperties
<1>2. ASSUME NEW x \in ToSet(s) PROVE x \in ToSet(s \o t)
  BY <1>1, <1>2 DEF ToSet
<1>3. ASSUME NEW x \in ToSet(t) PROVE x \in ToSet(s \o t)
  <2>1. PICK j \in 1 .. Len(t) : x = t[j]
    BY <1>1, <1>3 DEF ToSet
  <2>2. j + Len(s) \in 1 .. Len(s) + Len(t) /\ (s \o t)[j + Len(s)] = t[j]
    BY <1>1, <2>1
  <2> QED BY <1>1, <2>1, <2>2 DEF ToSet
<1>4. ASSUME NEW x \in ToSet(s \o t) PROVE x \in ToSet(s) \cup ToSet(t)
  <2>1. PICK j \in 1 .. Len(s) + Len(t) : x = (s \o t)[j]
    BY <1>1, <1>4 DEF ToSet
  <2>2. CASE j <= Len(s)
    BY <1>1, <2>1, <2>2 DEF ToSet
  <2>3. CASE j > Len(s)
    <3>1. j - Len(s) \in 1 .. Len(t) /\ x = t[j - Len(s)]
      BY <1>1, <2>1, <2>3
    <3> QED BY <1>1, <3>1 DEF ToSet
  <2> QED BY <1>1, <2>2, <2>3
<1> QED BY <1>2, <1>3, <1>4

\* A concatenation is in order when its parts are and the first is below.
Below(s, t) == \A x \in ToSet(s), y \in ToSet(t) : x < y

\* A concatenation is in order if its parts are, one below the other.
LEMMA InOrderConcat ==
  ASSUME NEW s \in Seq(Entry), NEW t \in Seq(Entry)
  PROVE  InOrder(s \o t) <=> InOrder(s) /\ InOrder(t) /\ Below(s, t)
<1>1. /\ Len(s) \in Nat /\ Len(t) \in Nat
      /\ DOMAIN (s \o t) = 1 .. Len(s) + Len(t)
      /\ DOMAIN s = 1 .. Len(s) /\ DOMAIN t = 1 .. Len(t)
      /\ \A i \in 1 .. Len(s) + Len(t) :
           (s \o t)[i] = IF i <= Len(s) THEN s[i] ELSE t[i - Len(s)]
  BY ConcatProperties, LenProperties
<1>2. ASSUME InOrder(s \o t) PROVE InOrder(s) /\ InOrder(t) /\ Below(s, t)
  <2>1. InOrder(s)
    BY <1>1, <1>2 DEF InOrder
  <2>2. \A j \in 1 .. Len(t) : /\ j + Len(s) \in 1 .. Len(s) + Len(t)
                               /\ (s \o t)[j + Len(s)] = t[j]
    BY <1>1
  <2>3. InOrder(t)
    <3> SUFFICES ASSUME NEW i \in 1 .. Len(t), NEW j \in 1 .. Len(t), i < j PROVE t[i] < t[j]
      BY <1>1 DEF InOrder
    <3>1. i + Len(s) < j + Len(s)
      BY <1>1
    <3>2. (s \o t)[i + Len(s)] < (s \o t)[j + Len(s)]
      BY <1>1, <1>2, <2>2, <3>1 DEF InOrder
    <3> QED BY <2>2, <3>2
  <2>4. Below(s, t)
    <3> SUFFICES ASSUME NEW i \in 1 .. Len(s), NEW j \in 1 .. Len(t) PROVE s[i] < t[j]
      BY <1>1 DEF Below, ToSet
    <3>1. i \in 1 .. Len(s) + Len(t) /\ (s \o t)[i] = s[i] /\ i < j + Len(s)
      BY <1>1
    <3> QED BY <1>1, <1>2, <2>2, <3>1 DEF InOrder
  <2> QED BY <2>1, <2>3, <2>4
<1>3. ASSUME InOrder(s), InOrder(t), Below(s, t) PROVE InOrder(s \o t)
  <2> SUFFICES ASSUME NEW i \in 1 .. Len(s) + Len(t), NEW j \in 1 .. Len(s) + Len(t), i < j
               PROVE  (s \o t)[i] < (s \o t)[j]
    BY <1>1 DEF InOrder
  <2>1. CASE j <= Len(s)
    BY <1>1, <1>3, <2>1 DEF InOrder
  <2>2. CASE i > Len(s)
    <3>1. i - Len(s) \in 1 .. Len(t) /\ j - Len(s) \in 1 .. Len(t) /\ i - Len(s) < j - Len(s)
      BY <1>1, <2>2
    <3>2. t[i - Len(s)] < t[j - Len(s)]
      BY <1>1, <1>3, <3>1 DEF InOrder
    <3>3. (s \o t)[i] = t[i - Len(s)] /\ (s \o t)[j] = t[j - Len(s)]
      BY <1>1, <2>2
    <3> QED BY <3>2, <3>3
  <2>3. CASE i <= Len(s) /\ j > Len(s)
    <3>1. i \in 1 .. Len(s) /\ j - Len(s) \in 1 .. Len(t)
      BY <1>1, <2>3
    <3>2. s[i] \in ToSet(s) /\ t[j - Len(s)] \in ToSet(t)
      BY <1>1, <3>1 DEF ToSet
    <3> QED BY <1>1, <1>3, <2>3, <3>2 DEF Below
  <2> QED BY <1>1, <2>1, <2>2, <2>3
<1> QED BY <1>2, <1>3

\* Dropping the middle of a sequence in order takes just its entries away.
LEMMA DropMiddle ==
  ASSUME NEW a \in Seq(Entry), NEW b \in Seq(Entry), NEW c \in Seq(Entry),
         InOrder((a \o b) \o c)
  PROVE  /\ InOrder(a \o c)
         /\ ToSet(a \o c) = ToSet((a \o b) \o c) \ ToSet(b)
<1>1. a \o b \in Seq(Entry)
  BY ConcatProperties
<1>2. InOrder(a \o b) /\ InOrder(c) /\ Below(a \o b, c)
  BY <1>1, InOrderConcat
<1>3. InOrder(a) /\ InOrder(b) /\ Below(a, b) /\ ToSet(a \o b) = ToSet(a) \cup ToSet(b)
  BY <1>2, InOrderConcat, ToSetConcat
<1>4. Below(a, c) /\ Below(b, c)
  BY <1>2, <1>3 DEF Below
<1>5. ToSet(a) \subseteq Entry /\ ToSet(b) \subseteq Entry /\ ToSet(c) \subseteq Entry
  BY DEF ToSet
<1>6. ToSet(a) \cap ToSet(b) = {} /\ ToSet(c) \cap ToSet(b) = {}
  BY WALAssumption, <1>3, <1>4, <1>5 DEF Below, Entry
<1>7. /\ ToSet(a \o c) = ToSet(a) \cup ToSet(c)
      /\ ToSet((a \o b) \o c) = ToSet(a) \cup ToSet(b) \cup ToSet(c)
  BY <1>1, <1>3, ToSetConcat
<1> QED BY <1>2, <1>3, <1>4, <1>6, <1>7, InOrderConcat

\* A batch falls into the entries that were written and the rest.
LEMMA Split ==
  ASSUME NEW s \in Seq(Entry), NEW n \in 0 .. Len(s)
  PROVE  /\ SubSeq(s, 1, n) \in Seq(Entry) /\ SubSeq(s, n + 1, Len(s)) \in Seq(Entry)
         /\ s = SubSeq(s, 1, n) \o SubSeq(s, n + 1, Len(s))
         /\ ToSet(SubSeq(s, n + 1, Len(s))) = {s[i] : i \in n + 1 .. Len(s)}
<1> DEFINE u == SubSeq(s, 1, n)
           v == SubSeq(s, n + 1, Len(s))
<1>1. /\ Len(s) \in Nat /\ DOMAIN s = 1 .. Len(s)
      /\ \A i \in 1 .. Len(s) : s[i] \in Entry
  BY LenProperties
<1>2. /\ u \in Seq(Entry) /\ Len(u) = n /\ \A i \in 1 .. n : u[i] = s[i]
  <2>1. \A i \in 1 .. n : s[i] \in Entry
    BY <1>1
  <2> QED BY <1>1, <2>1, SubSeqProperties
<1>3. /\ v \in Seq(Entry) /\ Len(v) = Len(s) - n
      /\ \A i \in 1 .. Len(s) - n : v[i] = s[n + i]
  <2>1. \A i \in n + 1 .. Len(s) : s[i] \in Entry
    BY <1>1
  <2> HIDE DEF v
  <2>2. /\ v \in Seq(Entry) /\ Len(v) = IF n + 1 <= Len(s) THEN Len(s) - (n + 1) + 1 ELSE 0
        /\ \A i \in 1 .. Len(s) - (n + 1) + 1 : v[i] = s[(n + 1) + i - 1]
    BY <1>1, <2>1, SubSeqProperties DEF v
  <2>3. n \in Int /\ Len(s) - (n + 1) + 1 = Len(s) - n
    BY <1>1
  <2>4. Len(v) = Len(s) - n
    <3>1. n \in Int /\ 0 <= n /\ n <= Len(s) /\ Len(s) \in Int
      BY <1>1
    <3>2. CASE n = Len(s)
      BY <2>2, <3>1, <3>2
    <3>3. CASE n < Len(s)
      <4>1. n + 1 <= Len(s) /\ Len(s) - (n + 1) + 1 = Len(s) - n
        BY <3>1, <3>3
      <4> QED BY <2>2, <4>1
    <3> QED BY <3>1, <3>2, <3>3
  <2>5. ASSUME NEW i \in 1 .. Len(s) - n PROVE v[i] = s[n + i]
    <3>1. (n + 1) + i - 1 = n + i
      BY <2>3
    <3> QED BY <2>2, <2>3, <3>1
  <2> QED BY <2>2, <2>4, <2>5
<1> HIDE DEF u, v
<1>4. s = u \o v
  <2>1. 1 \in 1 .. Len(s) + 1 /\ n \in 1 - 1 .. Len(s) /\ Len(s) \in n .. Len(s)
    BY <1>1
  <2> QED BY <2>1, ConcatAdjacentSubSeq, SubSeqFull DEF u, v
<1>5. ToSet(v) = {s[i] : i \in n + 1 .. Len(s)}
  <2>1. DOMAIN v = 1 .. Len(s) - n
    BY <1>3, LenProperties
  <2>2. ASSUME NEW i \in n + 1 .. Len(s) PROVE s[i] \in ToSet(v)
    <3>1. i - n \in 1 .. Len(s) - n /\ v[i - n] = s[i]
      BY <1>1, <1>3
    <3> QED BY <2>1, <3>1 DEF ToSet
  <2>3. ASSUME NEW i \in 1 .. Len(s) - n PROVE v[i] \in {s[j] : j \in n + 1 .. Len(s)}
    BY <1>1, <1>3
  <2> QED BY <2>1, <2>2, <2>3 DEF ToSet
<1> QED BY <1>2, <1>3, <1>4, <1>5 DEF u, v

\* A prefix of a concatenation that reaches into its second part.
LEMMA Prefix ==
  ASSUME NEW s \in Seq(Entry), NEW t \in Seq(Entry), NEW k \in 0 .. Len(t)
  PROVE  s \o SubSeq(t, 1, k) = SubSeq(s \o t, 1, Len(s) + k)
<1> DEFINE u == SubSeq(t, 1, k)
           v == SubSeq(t, k + 1, Len(t))
<1>1. Len(s) \in Nat /\ Len(t) \in Nat /\ DOMAIN t = 1 .. Len(t)
  BY LenProperties
<1>2. u \in Seq(Entry) /\ v \in Seq(Entry) /\ t = u \o v
  BY Split
<1>3. Len(u) = k
  <2>1. \A i \in 1 .. k : t[i] \in Entry
    BY <1>1, LenProperties
  <2>2. 1 \in Int /\ k \in Int /\ k >= 0
    BY <1>1
  <2>3. Len(u) = IF 1 <= k THEN k - 1 + 1 ELSE 0
    BY <2>1, <2>2, SubSeqProperties
  <2> QED BY <2>2, <2>3
<1> HIDE DEF u, v
<1>4. s \o u \in Seq(Entry) /\ Len(s \o u) = Len(s) + k /\ s \o t = (s \o u) \o v
  <2>1. s \o u \in Seq(Entry) /\ Len(s \o u) = Len(s) + k
    BY <1>2, <1>3, ConcatProperties
  <2>2. (s \o u) \o v = s \o (u \o v)
    BY <1>2, ConcatAssociative
  <2> QED BY <1>2, <2>1, <2>2
<1>5. CASE Len(s) + k = 0
  <2>1. s = <<>> /\ k = 0
    BY <1>1, <1>5, EmptySeq
  <2>2. u = <<>>
    BY <1>2, <1>3, <2>1, EmptySeq
  <2>3. s \o u = <<>>
    BY <2>1, <2>2, EmptySeq, ConcatEmptySeq
  <2>4. SubSeq(s \o t, 1, Len(s) + k) = <<>>
    BY <1>5, SubSeqEmpty
  <2> QED BY <2>3, <2>4 DEF u
<1>6. CASE Len(s) + k > 0
  <2>1. 1 \in 1 .. Len(s \o u) /\ Len(s \o u) \in 1 .. Len(s \o u)
    BY <1>1, <1>4, <1>6
  <2>2. SubSeq((s \o u) \o v, 1, Len(s \o u)) = SubSeq(s \o u, 1, Len(s \o u))
    BY <1>2, <1>4, <2>1, SubSeqOfConcat1
  <2>3. SubSeq(s \o u, 1, Len(s \o u)) = s \o u
    BY <1>4, SubSeqFull
  <2> QED BY <1>4, <2>2, <2>3 DEF u
<1> QED BY <1>1, <1>5, <1>6

\* A prefix no longer than the first part is a prefix of that part.
LEMMA PrefixOfFirst ==
  ASSUME NEW s \in Seq(Entry), NEW t \in Seq(Entry), NEW m \in 0 .. Len(s)
  PROVE  SubSeq(s \o t, 1, m) = SubSeq(s, 1, m)
<1>1. Len(s) \in Nat
  BY LenProperties
<1>2. CASE m = 0
  BY <1>2, SubSeqEmpty
<1>3. CASE m > 0
  <2>1. 1 \in 1 .. Len(s) /\ m \in 1 .. Len(s)
    BY <1>1, <1>3
  <2> QED BY <2>1, SubSeqOfConcat1
<1> QED BY <1>1, <1>2, <1>3

\* A name for concatenation that the provers do not look through.
a ++ b == a \o b

\* Concatenation of logs as a monoid.
LEMMA Cat ==
  /\ \A s, q \in Seq(Entry) : s ++ q \in Seq(Entry)
  /\ \A s, q, u \in Seq(Entry) : (s ++ q) ++ u = s ++ (q ++ u)
  /\ \A s \in Seq(Entry) : s ++ <<>> = s /\ <<>> ++ s = s
BY ConcatAssociative, ConcatProperties, ConcatEmptySeq DEF ++

\* The six places of an entry, from the oldest to the newest.
Joined(r, f, u, p, h, b) == r ++ f ++ u ++ p ++ h ++ b

\* The places together make a log, of which the durable part is a prefix.
LEMMA JoinedType ==
  ASSUME NEW r \in Seq(Entry), NEW f \in Seq(Entry), NEW u \in Seq(Entry),
         NEW p \in Seq(Entry), NEW h \in Seq(Entry), NEW b \in Seq(Entry)
  PROVE  /\ Joined(r, f, u, p, h, b) \in Seq(Entry)
         /\ Len(r) \in Nat /\ Len(f) \in Nat /\ Len(Joined(r, f, u, p, h, b)) \in Nat
         /\ Len(r) + Len(f) <= Len(Joined(r, f, u, p, h, b))
<1>1. \A s \in Seq(Entry), t \in Seq(Entry) :
        s \o t \in Seq(Entry) /\ Len(s \o t) = Len(s) + Len(t) /\ Len(s) \in Nat /\ Len(t) \in Nat
  BY ConcatProperties, LenProperties
<1> DEFINE x == r \o f
           y == x \o u
           z == y \o p
           w == z \o h
<1>2. /\ x \in Seq(Entry) /\ Len(x) = Len(r) + Len(f) /\ Len(r) \in Nat /\ Len(f) \in Nat
      /\ y \in Seq(Entry) /\ Len(y) = Len(x) + Len(u) /\ Len(u) \in Nat
      /\ z \in Seq(Entry) /\ Len(z) = Len(y) + Len(p) /\ Len(p) \in Nat
      /\ w \in Seq(Entry) /\ Len(w) = Len(z) + Len(h) /\ Len(h) \in Nat
      /\ w \o b \in Seq(Entry) /\ Len(w \o b) = Len(w) + Len(b) /\ Len(b) \in Nat
  BY <1>1
<1>3. Joined(r, f, u, p, h, b) = w \o b
  BY DEF Joined, ++
<1> HIDE DEF x, y, z, w
<1> QED BY <1>2, <1>3

\* Entries that move from one place to the next leave the whole as it is.
LEMMA JoinedMoves ==
  ASSUME NEW r \in Seq(Entry), NEW f \in Seq(Entry), NEW u \in Seq(Entry),
         NEW p \in Seq(Entry), NEW h \in Seq(Entry), NEW b \in Seq(Entry)
  PROVE  /\ Joined(r, f ++ u, <<>>, p, h, b) = Joined(r, f, u, p, h, b)
         /\ Joined(r ++ f, <<>>, u, p, h, b) = Joined(r, f, u, p, h, b)
         /\ Joined(r, f, u, p ++ h, <<>>, b) = Joined(r, f, u, p, h, b)
         /\ Joined(r, f, u, p, h, b) = ((r ++ f) ++ u) ++ ((p ++ h) ++ b)
         /\ Joined(r, f, <<>>, p, h, b) = (r ++ f) ++ ((p ++ h) ++ b)
<1>1. /\ r ++ f \in Seq(Entry) /\ (r ++ f) ++ u \in Seq(Entry) /\ p ++ h \in Seq(Entry)
      /\ ((r ++ f) ++ u) ++ p \in Seq(Entry) /\ ((r ++ f) ++ u) ++ (p ++ h) \in Seq(Entry)
      /\ (r ++ f) ++ p \in Seq(Entry)
  BY Cat
<1>2. (r ++ f) ++ u = r ++ (f ++ u)
  BY Cat
<1>3. (((r ++ f) ++ u) ++ p) ++ h = ((r ++ f) ++ u) ++ (p ++ h)
  BY <1>1, Cat
<1>5. (((r ++ f) ++ u) ++ (p ++ h)) ++ b = ((r ++ f) ++ u) ++ ((p ++ h) ++ b)
  BY <1>1, Cat
<1>6. (((r ++ f) ++ p) ++ h) ++ b = (r ++ f) ++ ((p ++ h) ++ b)
    BY <1>1, Cat
<1> QED BY <1>1, <1>2, <1>3, <1>5, <1>6, Cat DEF Joined

\* The channel gives its first entry to an empty hand.
LEMMA JoinedReceive ==
  ASSUME NEW r \in Seq(Entry), NEW f \in Seq(Entry), NEW u \in Seq(Entry),
         NEW p \in Seq(Entry), NEW b \in Seq(Entry), b # <<>>
  PROVE  /\ Joined(r, f, u, p, <<Head(b)>>, Tail(b)) = Joined(r, f, u, p, <<>>, b)
         /\ <<Head(b)>> \in Seq(Entry) /\ Tail(b) \in Seq(Entry)
         /\ Len(Tail(b)) = Len(b) - 1
<1> DEFINE z == ((r ++ f) ++ u) ++ p
<1>0. z \in Seq(Entry)
  BY Cat
<1>1. Head(b) \in Entry /\ Tail(b) \in Seq(Entry) /\ Len(Tail(b)) = Len(b) - 1
  BY HeadTailProperties
<1>2. <<Head(b)>> \in Seq(Entry)
  BY <1>1
<1>3. b = <<Head(b)>> ++ Tail(b)
  <2>1. Len(b) \in Nat \ {0}
    BY EmptySeq
  <2>2. 1 \in 1 .. Len(b) /\ Len(b) \in 1 .. Len(b)
    BY <2>1
  <2>3. SubSeq(b, 1, Len(b)) = <<b[1]>> \o SubSeq(b, 1 + 1, Len(b))
    BY <2>2, SubSeqRecursiveFirst
  <2>4. Tail(b) = SubSeq(b, 2, Len(b)) /\ SubSeq(b, 1, Len(b)) = b /\ 1 + 1 = 2
    BY TailIsSubSeq, SubSeqFull
  <2>5. Head(b) = b[1]
    OBVIOUS
  <2> QED BY <2>3, <2>4, <2>5 DEF ++
<1> HIDE DEF z
<1>4. (z ++ <<Head(b)>>) ++ Tail(b) = z ++ (<<Head(b)>> ++ Tail(b)) /\ z ++ <<>> = z
  <2> DEFINE k == <<Head(b)>>
             l == Tail(b)
  <2>1. k \in Seq(Entry) /\ l \in Seq(Entry)
    BY <1>1, <1>2
  <2> HIDE DEF k, l
  <2>2. (z ++ k) ++ l = z ++ (k ++ l) /\ z ++ <<>> = z
    BY <1>0, <2>1, Cat
  <2> QED BY <2>2 DEF k, l
<1> QED BY <1>1, <1>2, <1>3, <1>4 DEF Joined, z

\* What is appended to the last part is appended to the whole.
LEMMA AppendToLast ==
  ASSUME NEW w \in Seq(Entry), NEW b \in Seq(Entry), NEW x \in Entry
  PROVE  w ++ Append(b, x) = Append(w ++ b, x)
<1> DEFINE k == <<x>>
<1>1. k \in Seq(Entry) /\ Append(b, x) = b ++ k
  BY AppendIsConcat DEF ++
<1>2. w ++ b \in Seq(Entry)
  BY Cat
<1>3. Append(w ++ b, x) = (w ++ b) ++ k
  BY <1>2, AppendIsConcat DEF ++
<1> HIDE DEF k
<1>4. (w ++ b) ++ k = w ++ (b ++ k)
  BY <1>1, Cat
<1> QED BY <1>1, <1>3, <1>4

-----------------------------------------------------------------------------
(***************************************************************************)
(* The invariant, and the four forms that a step can take.                 *)
(***************************************************************************)

\* What must hold in the middle of batchWriter, rotate, Truncate and Append.
Steps ==
  /\ hand # <<>> => bpc \in {"outerGot", "innerGot"}
  /\ rpc = "swap" => batchMutex = "rotate" /\ bufio = <<>>
  /\ tpc \in {"remove", "swap"} => writer # "ok"
  /\ apc = "sending" => accepted < MaxEntries

\* The invariant: nothing else is needed, as every step keeps Log (below).
IInv == TypeOK /\ Steps

\* How much of Log no step but a crash may change, and of that what is on disk.
Stable == Len(retired) + synced
Excuse == writer # "ok" \/ \E i \in DOMAIN pendingBatch : pendingBatch[i] \in Bad

\* Entries move on, or nothing happens to them.
Moves ==
  /\ Log' = Log /\ lost' = lost /\ accepted' = accepted /\ down' = down
  /\ Stable' \in Stable .. Len(Log')

\* Append puts an entry at the end.
Accepts ==
  /\ accepted' = accepted + 1 /\ accepted' \in Entry /\ Log' = Append(Log, accepted')
  /\ lost' = lost /\ down' = down /\ Stable' = Stable

\* The entries b between a and c are given up.
Drops(a, b, c) ==
  /\ a \in Seq(Entry) /\ b \in Seq(Entry) /\ c \in Seq(Entry)
  /\ Log = (a \o b) \o c /\ Log' = a \o c /\ lost' = lost \cup ToSet(b)
  /\ Stable <= Len(a)
  /\ b # <<>> => Excuse
  /\ accepted' = accepted /\ down' = down
  /\ Stable' \in Stable .. Len(Log')

\* The process ends.
Ends ==
  /\ down' # "no" /\ accepted' = accepted
  /\ \E k \in Stable .. Len(Log) : Log' = SubSeq(Log, 1, k) /\ Stable' = k

Form ==
  down = "no" /\ (Moves \/ Accepts \/ (\E a, b, c \in Seq(Entry) : Drops(a, b, c)) \/ Ends)

\* What TypeOK says of the log.
LEMMA Parts ==
  ASSUME TypeOK
  PROVE  /\ Log \in Seq(Entry) /\ Len(Log) \in Nat
         /\ Len(retired) \in Nat /\ Len(file) \in Nat
         /\ Len(retired) + Len(file) <= Len(Log)
         /\ Stable \in Nat /\ Stable <= Len(retired) + Len(file)
<1>1. /\ retired \in Seq(Entry) /\ file \in Seq(Entry) /\ bufio \in Seq(Entry)
      /\ pendingBatch \in Seq(Entry) /\ hand \in Seq(Entry) /\ buffer \in Seq(Entry)
      /\ synced \in 0 .. Len(file)
  BY DEF TypeOK
<1>2. Log = Joined(retired, file, bufio, pendingBatch, hand, buffer)
  BY DEF Log, Joined, ++
<1>3. /\ Log \in Seq(Entry) /\ Len(Log) \in Nat
      /\ Len(retired) \in Nat /\ Len(file) \in Nat /\ Len(retired) + Len(file) <= Len(Log)
  BY <1>1, <1>2, JoinedType
<1> QED BY <1>1, <1>3 DEF Stable

\* Steps that leave every entry where it is or move it on.
LEMMA PartsNext ==
  ASSUME TypeOK'
  PROVE  /\ Log' \in Seq(Entry) /\ Len(Log') \in Nat
         /\ Log' = Joined(retired', file', bufio', pendingBatch', hand', buffer')
         /\ Len(retired') \in Nat /\ Len(file') \in Nat
         /\ Len(retired') + Len(file') <= Len(Log')
         /\ Stable' = Len(retired') + synced' /\ synced' \in 0 .. Len(file')
<1>1. /\ retired' \in Seq(Entry) /\ file' \in Seq(Entry) /\ bufio' \in Seq(Entry)
      /\ pendingBatch' \in Seq(Entry) /\ hand' \in Seq(Entry) /\ buffer' \in Seq(Entry)
      /\ synced' \in 0 .. Len(file')
  BY DEF TypeOK
<1>2. Log' = Joined(retired', file', bufio', pendingBatch', hand', buffer')
  BY DEF Log, Joined, ++
<1>3. /\ Log' \in Seq(Entry) /\ Len(Log') \in Nat
      /\ Len(retired') \in Nat /\ Len(file') \in Nat /\ Len(retired') + Len(file') <= Len(Log')
  BY <1>1, <1>2, JoinedType
<1> QED BY <1>1, <1>2, <1>3 DEF Stable

-----------------------------------------------------------------------------
(***************************************************************************)
(* Form is all that the order of the log needs.                            *)
(***************************************************************************)

\* The entries of a log are entries.
LEMMA SetOfSeq ==
  ASSUME NEW s \in Seq(Entry) PROVE ToSet(s) \subseteq Entry /\ ToSet(<<>>) = {}
BY EmptySeq, LenProperties DEF ToSet

\* A prefix of a sequence in order is in order.
LEMMA PrefixInOrder ==
  ASSUME NEW s \in Seq(Entry), InOrder(s), NEW k \in 0 .. Len(s)
  PROVE  InOrder(SubSeq(s, 1, k)) /\ SubSeq(s, 1, k) \in Seq(Entry)
<1> DEFINE u == SubSeq(s, 1, k)
           v == SubSeq(s, k + 1, Len(s))
<1>1. u \in Seq(Entry) /\ v \in Seq(Entry) /\ s = u \o v
  BY Split
<1> HIDE DEF u, v
<1>2. InOrder(u)
  BY <1>1, InOrderConcat
<1> QED BY <1>1, <1>2 DEF u

\* An entry behind all the others keeps the order.
LEMMA AppendInOrder ==
  ASSUME NEW s \in Seq(Entry), InOrder(s), NEW e \in Entry, \A x \in ToSet(s) : x < e
  PROVE  /\ Append(s, e) \in Seq(Entry) /\ InOrder(Append(s, e))
         /\ ToSet(Append(s, e)) = ToSet(s) \cup {e}
<1>1. <<e>> \in Seq(Entry) /\ Append(s, e) = s \o <<e>> /\ s \o <<e>> \in Seq(Entry)
  BY ConcatProperties, AppendIsConcat
<1>2. DOMAIN <<e>> = {1} /\ <<e>>[1] = e
  OBVIOUS
<1>3. InOrder(<<e>>) /\ ToSet(<<e>>) = {e}
  BY <1>2 DEF InOrder, ToSet
<1>4. Below(s, <<e>>)
  BY <1>3 DEF Below
<1>5. InOrder(s \o <<e>>) /\ ToSet(s \o <<e>>) = ToSet(s) \cup {e}
  BY <1>1, <1>3, <1>4, InOrderConcat, ToSetConcat
<1> QED BY <1>1, <1>5

\* A step of one of the four forms keeps the log in order.
LEMMA FormKeepsOrder ==
  ASSUME TypeOK, TypeOK', LogOrdered, Form PROVE LogOrdered'
<1>1. /\ Log \in Seq(Entry) /\ InOrder(Log)
      /\ ToSet(Log) \cup lost = 1 .. accepted /\ ToSet(Log) \cap lost = {}
      /\ accepted \in 0 .. MaxEntries /\ accepted \in Nat /\ Stable \in Nat
  <2>1. Log \in Seq(Entry) /\ Stable \in Nat
    BY Parts
  <2>2. accepted \in 0 .. MaxEntries /\ accepted \in Nat
    BY DEF TypeOK
  <2> QED BY <2>1, <2>2 DEF LogOrdered, InOrder, Form
<1> SUFFICES /\ InOrder(Log')
             /\ down' = "no" => /\ ToSet(Log') \cup lost' = 1 .. accepted'
                                /\ ToSet(Log') \cap lost' = {}
  BY DEF LogOrdered, InOrder
<1>2. CASE Moves
  BY <1>1, <1>2 DEF Moves
<1>3. CASE Accepts
  <2>1. accepted' = accepted + 1 /\ accepted' \in Entry /\ Log' = Append(Log, accepted') /\ lost' = lost
    BY <1>3 DEF Accepts
  <2>2. \A x \in ToSet(Log) : x < accepted'
    BY <1>1, <2>1
  <2>3. InOrder(Log') /\ ToSet(Log') = ToSet(Log) \cup {accepted'}
    BY <1>1, <2>1, <2>2, AppendInOrder
  <2>4. 1 .. accepted' = (1 .. accepted) \cup {accepted'} /\ accepted' \notin 1 .. accepted
    BY <1>1, <2>1
  <2> QED BY <1>1, <2>1, <2>3, <2>4
<1>4. CASE \E a, b, c \in Seq(Entry) : Drops(a, b, c)
  <2>1. PICK a \in Seq(Entry), b \in Seq(Entry), c \in Seq(Entry) : Drops(a, b, c)
    BY <1>4
  <2>2. Log = (a \o b) \o c /\ Log' = a \o c /\ lost' = lost \cup ToSet(b) /\ accepted' = accepted
    BY <2>1 DEF Drops
  <2>3. InOrder((a \o b) \o c)
    BY <1>1, <2>2
  <2>4. InOrder(a \o c) /\ ToSet(a \o c) = ToSet((a \o b) \o c) \ ToSet(b)
    BY <2>3, DropMiddle
  <2>5. ToSet((a \o b) \o c) = ToSet(a) \cup ToSet(b) \cup ToSet(c)
    <3>1. a \o b \in Seq(Entry)
      BY ConcatProperties
    <3> QED BY <3>1, ToSetConcat
  <2> QED BY <1>1, <2>2, <2>4, <2>5
<1>5. CASE Ends
  <2>1. PICK k \in Stable .. Len(Log) : Log' = SubSeq(Log, 1, k)
    BY <1>5 DEF Ends
  <2>2. k \in 0 .. Len(Log)
    BY <1>1, <2>1, LenProperties
  <2>3. InOrder(Log')
    BY <1>1, <2>1, <2>2, PrefixInOrder
  <2> QED BY <1>5, <2>3 DEF Ends
<1> QED BY <1>2, <1>3, <1>4, <1>5 DEF Form

\* Nor does the abstract log.
LEMMA FormRefines ==
  ASSUME TypeOK, TypeOK', LogOrdered, LogOrdered', Form PROVE Abstract!LogNext
<1>1. /\ Log \in Seq(Entry) /\ Log' \in Seq(Entry) /\ InOrder(Log) /\ InOrder(Log')
      /\ accepted \in Nat /\ Stable \in Nat /\ Stable <= Len(Log) /\ Len(Log) \in Nat
      /\ down = "no"
  <2>1. InOrder(Log) /\ InOrder(Log') /\ down = "no" /\ accepted \in Nat
    BY DEF LogOrdered, InOrder, Form, TypeOK
  <2>2. Log \in Seq(Entry) /\ Stable \in Nat /\ Stable <= Len(Log) /\ Len(Log) \in Nat
    BY Parts
  <2>3. Log' \in Seq(Entry)
    BY PartsNext
  <2> QED BY <2>1, <2>2, <2>3
<1> DEFINE Given(given) ==
             /\ given # {} => Excuse
             /\ ToSet(Log') = ToSet(Log) \ given /\ Abstract!InOrder(Log')
<1>2. ASSUME NEW given \in SUBSET {Log[i] : i \in Stable + 1 .. Len(Log)}, Given(given),
             Stable' \in Stable .. Len(Log'), accepted' = accepted, down' = down
      PROVE  Abstract!Persist
  <2>1. /\ Stable' \in Stable .. Len(Log') /\ accepted' = accepted
        /\ down = "no" /\ (down = "no")' = (down = "no")
    BY <1>1, <1>2
  <2>0. \A s : Abstract!ToSet(s) = ToSet(s)
    BY DEF Abstract!ToSet, ToSet
  <2>2. \E g \in SUBSET {Log[i] : i \in Stable + 1 .. Len(Log)} : Given(g)
    BY <1>2
  <2> HIDE DEF Given
  <2> QED BY <2>0, <2>1, <2>2 DEF Abstract!Persist, Stable, Excuse, Given
<1>3. Abstract!InOrder(Log')
  BY <1>1 DEF InOrder, Abstract!InOrder
<1>4. CASE Moves
  <2>1. {} \in SUBSET {Log[i] : i \in Stable + 1 .. Len(Log)} /\ Given({})
    BY <1>3, <1>4 DEF Moves
  <2> QED BY <1>2, <1>4, <2>1 DEF Moves, Abstract!LogNext
<1>5. CASE Accepts
  BY <1>1, <1>5 DEF Accepts, Abstract!LogNext, Abstract!Accept, Stable
<1>6. CASE \E a, b, c \in Seq(Entry) : Drops(a, b, c)
  <2>1. PICK a \in Seq(Entry), b \in Seq(Entry), c \in Seq(Entry) : Drops(a, b, c)
    BY <1>6
  <2>2. /\ Log = (a \o b) \o c /\ Log' = a \o c /\ Stable <= Len(a)
        /\ b # <<>> => Excuse
    BY <2>1 DEF Drops
  <2>3. ToSet(Log') = ToSet(Log) \ ToSet(b)
    BY <1>1, <2>2, DropMiddle
  <2>4. ToSet(b) # {} => Excuse
    BY <2>2, SetOfSeq
  <2>5. ASSUME NEW x \in ToSet(b) PROVE \E i \in Stable + 1 .. Len(Log) : x = Log[i]
    <3>1. PICK j \in 1 .. Len(b) : x = b[j]
      BY LenProperties DEF ToSet
    <3>2. /\ a \o b \in Seq(Entry) /\ Len(a) \in Nat /\ Len(b) \in Nat /\ Len(c) \in Nat
          /\ Len(a \o b) = Len(a) + Len(b)
          /\ \A i \in 1 .. Len(a) + Len(b) :
               (a \o b)[i] = IF i <= Len(a) THEN a[i] ELSE b[i - Len(a)]
      BY ConcatProperties, LenProperties
    <3>3. /\ Len(Log) = Len(a \o b) + Len(c)
          /\ \A i \in 1 .. Len(a \o b) + Len(c) :
               Log[i] = IF i <= Len(a \o b) THEN (a \o b)[i] ELSE c[i - Len(a \o b)]
      BY <2>2, <3>2, ConcatProperties
    <3>4. j + Len(a) \in Stable + 1 .. Len(Log) /\ j + Len(a) \in 1 .. Len(a) + Len(b)
          /\ j + Len(a) > Len(a) /\ (j + Len(a)) - Len(a) = j
      BY <1>1, <2>2, <3>1, <3>2, <3>3
    <3>5. Log[j + Len(a)] = (a \o b)[j + Len(a)]
      <4>1. j + Len(a) \in 1 .. Len(a \o b) + Len(c) /\ j + Len(a) <= Len(a \o b)
        BY <3>2, <3>4
      <4> QED BY <3>3, <4>1
    <3>6. (a \o b)[j + Len(a)] = b[j]
      BY <3>2, <3>4
    <3> QED BY <3>1, <3>4, <3>5, <3>6
  <2>6. ToSet(b) \in SUBSET {Log[i] : i \in Stable + 1 .. Len(Log)} /\ Given(ToSet(b))
    BY <1>3, <2>3, <2>4, <2>5
  <2>7. Abstract!Persist
    BY <1>2, <2>1, <2>6 DEF Drops
  <2> QED BY <2>7 DEF Abstract!LogNext
<1>7. CASE Ends
  BY <1>1, <1>7 DEF Ends, Abstract!LogNext, Abstract!Crash, Stable
<1> QED BY <1>4, <1>5, <1>6, <1>7 DEF Form

-----------------------------------------------------------------------------
(***************************************************************************)
(* What the flushes do to the entries.                                     *)
(***************************************************************************)

\* writeEntry takes all of the batch, or there is an excuse.
LEMMA WritableBounds ==
  ASSUME TypeOK
  PROVE  /\ Writable \in 0 .. Len(pendingBatch)
         /\ Writable < Len(pendingBatch) => Excuse
<1> DEFINE l == Len(pendingBatch)
           W == {n \in 1 .. l : \A i \in 1 .. n : pendingBatch[i] \notin Bad}
<1>1. l \in Nat /\ DOMAIN pendingBatch = 1 .. l
  BY LenProperties DEF TypeOK
<1>2. IsFiniteSet(1 .. l) /\ Cardinality(1 .. l) = l
  <2>1. 1 \in Int /\ l \in Int
    BY <1>1
  <2>2. /\ IsFiniteSet(1 .. l)
        /\ Cardinality(1 .. l) = IF 1 > l THEN 0 ELSE l - 1 + 1
    <3> HIDE DEF l
    <3> QED BY <2>1, FS_Interval
  <2> HIDE DEF l
  <2> QED BY <1>1, <2>2
<1>3. /\ IsFiniteSet(W) /\ Cardinality(W) <= l
      /\ l = Cardinality(W) => 1 .. l = W
  <2>1. W \in SUBSET (1 .. l)
    OBVIOUS
  <2> HIDE DEF W, l
  <2>2. /\ IsFiniteSet(W) /\ Cardinality(W) <= Cardinality(1 .. l)
        /\ Cardinality(1 .. l) = Cardinality(W) => 1 .. l = W
    BY <1>2, <2>1, FS_Subset
  <2> QED BY <1>2, <2>2
<1>4. Cardinality(W) \in Nat
  <2> HIDE DEF W
  <2> QED BY <1>3, FS_CardinalityType
<1>5. CASE writer = "failed"
  BY <1>1, <1>5 DEF Writable, Excuse
<1>6. CASE writer # "failed"
  <2>1. Writable = Cardinality(W)
    BY <1>6 DEF Writable
  <2>2. ASSUME Writable < l PROVE Excuse
    <3>1. PICK m \in 1 .. l : m \notin W
      <4> HIDE DEF W
      <4>1. l # Cardinality(W)
        BY <1>1, <1>4, <2>1, <2>2
      <4>2. W \subseteq 1 .. l
        BY DEF W
      <4>3. W # 1 .. l
        <5>1. SUFFICES ASSUME W = 1 .. l PROVE FALSE
          OBVIOUS
        <5> QED BY <1>2, <4>1, <5>1
      <4> QED BY <4>2, <4>3
    <3>2. PICK i \in 1 .. m : pendingBatch[i] \in Bad
      BY <3>1
    <3>3. i \in DOMAIN pendingBatch
      BY <1>1, <3>1, <3>2
    <3> QED BY <3>2, <3>3 DEF Excuse
  <2> HIDE DEF W
  <2> QED BY <1>1, <1>3, <1>4, <2>1, <2>2
<1> QED BY <1>5, <1>6

\* A flush takes n entries of the batch, to the writer or with what the writer
\* holds to the file, and gives up the others.
Flushed ==
  /\ \E n \in 0 .. Len(pendingBatch) :
       /\ n < Len(pendingBatch) => Excuse
       /\ lost' = lost \cup {pendingBatch[i] : i \in n + 1 .. Len(pendingBatch)}
       /\ \/ file' = (file ++ bufio) ++ SubSeq(pendingBatch, 1, n) /\ bufio' = <<>>
          \/ file' = file /\ bufio' = bufio ++ SubSeq(pendingBatch, 1, n)
  /\ pendingBatch' = <<>>
  /\ synced' = synced \/ synced' = Len(file')
  /\ size' \in Nat /\ rotating' \in BOOLEAN

\* flushBatchLocked moves the batch to the buffer, or part of it if a write failed.
LEMMA FlushTakes ==
  ASSUME TypeOK, FlushBatchLocked \/ FlushAndSync
  PROVE  Flushed
<1>1. Writable \in 0 .. Len(pendingBatch) /\ (Writable < Len(pendingBatch) => Excuse)
  BY WritableBounds
<1>2. /\ Len(pendingBatch) \in Nat /\ pendingBatch \in Seq(Entry)
      /\ SubSeq(pendingBatch, 1, Len(pendingBatch)) = pendingBatch
  BY LenProperties, SubSeqFull DEF TypeOK
<1>3. size + Writable \in Nat
  BY <1>1, <1>2 DEF TypeOK
<1>4. CASE FlushAndSync
  BY <1>1, <1>3, <1>4 DEF FlushAndSync, Flushed, TypeOK, ++
<1>5. CASE FlushBatchLocked
  <2>1. FlushSucceeds /\ pendingBatch # <<>> => Writable = Len(pendingBatch)
    BY DEF FlushSucceeds
  <2>2. /\ pendingBatch' = <<>>
        /\ lost' = lost \cup {pendingBatch[i] : i \in Writable + 1 .. Len(pendingBatch)}
        /\ size' \in Nat /\ rotating' \in BOOLEAN
        /\ synced' = synced \/ synced' = Len(file')
    BY <1>3, <1>5 DEF FlushBatchLocked, TypeOK
  <2>3. \/ file' = (file ++ bufio) ++ SubSeq(pendingBatch, 1, Writable) /\ bufio' = <<>>
        \/ file' = file /\ bufio' = bufio ++ SubSeq(pendingBatch, 1, Writable)
    BY <1>2, <1>5, <2>1 DEF FlushBatchLocked, ++
  <2> QED BY <1>1, <2>2, <2>3 DEF Flushed
<1> QED BY <1>4, <1>5

\* What such a flush leaves is typed.
LEMMA FlushedTypes ==
  ASSUME TypeOK, Flushed
  PROVE  /\ pendingBatch' \in Seq(Entry) /\ bufio' \in Seq(Entry) /\ file' \in Seq(Entry)
         /\ lost' \subseteq Entry /\ synced' \in synced .. Len(file') /\ synced' \in 0 .. Len(file')
<1>1. /\ file \in Seq(Entry) /\ bufio \in Seq(Entry) /\ pendingBatch \in Seq(Entry)
      /\ lost \subseteq Entry /\ synced \in 0 .. Len(file)
  BY DEF TypeOK
<1>2. PICK n \in 0 .. Len(pendingBatch) :
       /\ lost' = lost \cup {pendingBatch[i] : i \in n + 1 .. Len(pendingBatch)}
       /\ \/ file' = (file ++ bufio) ++ SubSeq(pendingBatch, 1, n) /\ bufio' = <<>>
          \/ file' = file /\ bufio' = bufio ++ SubSeq(pendingBatch, 1, n)
  BY DEF Flushed
<1> DEFINE q == SubSeq(pendingBatch, 1, n)
<1>3. q \in Seq(Entry)
  BY <1>1, Split
<1>4. {pendingBatch[i] : i \in n + 1 .. Len(pendingBatch)} \subseteq Entry
  <2>1. Len(pendingBatch) \in Nat /\ \A i \in 1 .. Len(pendingBatch) : pendingBatch[i] \in Entry
    BY <1>1, LenProperties
  <2> QED BY <2>1
<1> HIDE DEF q
<1>5. /\ (file ++ bufio) ++ q \in Seq(Entry) /\ bufio ++ q \in Seq(Entry) /\ <<>> \in Seq(Entry)
      /\ file ++ bufio \in Seq(Entry)
  BY <1>1, <1>3, Cat, EmptySeq
<1>6. Len(file) \in Nat /\ Len((file ++ bufio) ++ q) \in Nat /\ Len(file) <= Len((file ++ bufio) ++ q)
  <2>1. Len(file ++ bufio) = Len(file) + Len(bufio) /\ Len(file) \in Nat /\ Len(bufio) \in Nat
    BY <1>1, ConcatProperties, LenProperties DEF ++
  <2>2. Len((file ++ bufio) ++ q) = Len(file ++ bufio) + Len(q) /\ Len(q) \in Nat
    BY <1>3, <1>5, ConcatProperties, LenProperties DEF ++
  <2> QED BY <2>1, <2>2
<1>7. file' \in Seq(Entry) /\ bufio' \in Seq(Entry) /\ Len(file') \in Nat /\ Len(file) <= Len(file')
  <2>1. CASE file' = (file ++ bufio) ++ q /\ bufio' = <<>>
    BY <1>5, <1>6, <2>1
  <2>2. CASE file' = file /\ bufio' = bufio ++ q
    BY <1>1, <1>5, <1>6, <2>2
  <2> QED BY <1>2, <2>1, <2>2 DEF q
<1>8. pendingBatch' \in Seq(Entry) /\ lost' \subseteq Entry
  BY <1>1, <1>2, <1>4, <1>5 DEF Flushed
<1>9. synced' \in synced .. Len(file') /\ synced' \in 0 .. Len(file')
  BY <1>1, <1>6, <1>7 DEF Flushed
<1> QED BY <1>7, <1>8, <1>9

-----------------------------------------------------------------------------
(***************************************************************************)
(* Every step has one of the four forms.                                   *)
(***************************************************************************)

\* A step that keeps the concatenation of the places moves entries along.
LEMMA MovesIf ==
  ASSUME TypeOK, TypeOK', down = "no",
         Joined(retired', file', bufio', pendingBatch', hand', buffer') =
           Joined(retired, file, bufio, pendingBatch, hand, buffer),
         Len(retired) + synced <= Len(retired') + synced',
         UNCHANGED <<lost, accepted, down>>
  PROVE  Form
<1>1. Log = Joined(retired, file, bufio, pendingBatch, hand, buffer)
  BY DEF Log, Joined, ++
<1>2. Log' = Log
  BY <1>1, PartsNext
<1>3. Stable' \in Stable .. Len(Log')
  <2>1. Len(retired') \in Nat /\ synced' \in Nat /\ Len(Log') \in Nat
        /\ Stable' = Len(retired') + synced' /\ Stable' <= Len(Log')
    BY PartsNext
  <2>2. Stable \in Nat /\ Stable <= Stable'
    BY <2>1, Parts DEF Stable
  <2> QED BY <2>1, <2>2
<1> QED BY <1>2, <1>3 DEF Form, Moves

\* Nothing but fsync happens to the entries.
Quiet ==
  /\ UNCHANGED <<accepted, buffer, hand, retired, pendingBatch, bufio, file, lost, down>>
  /\ synced' \in synced .. Len(file')

\* A step that moves nothing has the form Moves.
LEMMA QuietForm ==
  ASSUME TypeOK, TypeOK', down = "no", Quiet PROVE Form
<1>1. Len(retired) + synced <= Len(retired') + synced'
  <2>1. Len(retired) \in Nat /\ synced \in Nat
    BY LenProperties DEF TypeOK
  <2>2. synced' >= synced /\ synced' \in Int /\ retired' = retired
    BY <2>1 DEF Quiet
  <2> QED BY <2>1, <2>2
<1> QED BY <1>1, MovesIf DEF Quiet

\* w.writer.Flush(), perhaps with an fsync.
Written ==
  /\ UNCHANGED <<accepted, buffer, hand, retired, pendingBatch, lost, down>>
  /\ \/ file' = file ++ bufio /\ bufio' = <<>>
     \/ file' = file /\ bufio' = bufio
  /\ synced' = synced \/ synced' = Len(file')

\* So has a step that writes the buffer to the file.
LEMMA WrittenForm ==
  ASSUME TypeOK, TypeOK', down = "no", Written PROVE Form
<1>1. /\ retired \in Seq(Entry) /\ file \in Seq(Entry) /\ bufio \in Seq(Entry)
      /\ pendingBatch \in Seq(Entry) /\ hand \in Seq(Entry) /\ buffer \in Seq(Entry)
      /\ synced \in 0 .. Len(file)
  BY DEF TypeOK
<1>2. Joined(retired, file ++ bufio, <<>>, pendingBatch, hand, buffer) =
        Joined(retired, file, bufio, pendingBatch, hand, buffer)
  BY <1>1, JoinedMoves
<1>3. Joined(retired', file', bufio', pendingBatch', hand', buffer') =
        Joined(retired, file, bufio, pendingBatch, hand, buffer)
  BY <1>2 DEF Written
<1>4. Len(retired) + synced <= Len(retired') + synced'
  <2>1. /\ Len(retired) \in Nat /\ Len(file) \in Nat /\ Len(bufio) \in Nat /\ synced \in Nat
        /\ Len(file ++ bufio) = Len(file) + Len(bufio) /\ synced <= Len(file)
    BY <1>1, LenProperties, ConcatProperties DEF ++
  <2>2. synced' >= synced /\ synced' \in Int /\ retired' = retired
    BY <2>1 DEF Written
  <2> QED BY <2>1, <2>2
<1> QED BY <1>3, <1>4, MovesIf DEF Written

\* A flush moves entries along, or drops the end of the batch.
LEMMA FlushedForm ==
  ASSUME TypeOK, TypeOK', down = "no", Flushed,
         UNCHANGED <<accepted, buffer, hand, retired, down>>
  PROVE  Form
<1>1. /\ retired \in Seq(Entry) /\ file \in Seq(Entry) /\ bufio \in Seq(Entry)
      /\ pendingBatch \in Seq(Entry) /\ hand \in Seq(Entry) /\ buffer \in Seq(Entry)
      /\ synced \in 0 .. Len(file)
  BY DEF TypeOK
<1>2. PICK n \in 0 .. Len(pendingBatch) :
       /\ n < Len(pendingBatch) => Excuse
       /\ lost' = lost \cup {pendingBatch[i] : i \in n + 1 .. Len(pendingBatch)}
       /\ \/ file' = (file ++ bufio) ++ SubSeq(pendingBatch, 1, n) /\ bufio' = <<>>
          \/ file' = file /\ bufio' = bufio ++ SubSeq(pendingBatch, 1, n)
  BY DEF Flushed
<1> DEFINE q == SubSeq(pendingBatch, 1, n)
           d == SubSeq(pendingBatch, n + 1, Len(pendingBatch))
<1>3. /\ q \in Seq(Entry) /\ d \in Seq(Entry) /\ pendingBatch = q ++ d
      /\ ToSet(d) = {pendingBatch[i] : i \in n + 1 .. Len(pendingBatch)}
  BY <1>1, Split DEF ++
<1>4. d # <<>> => Excuse
  <2>1. n = Len(pendingBatch) => d = <<>>
    <3>1. Len(pendingBatch) \in Nat
      BY <1>1, LenProperties
    <3>2. n = Len(pendingBatch) => n + 1 \in Int /\ Len(pendingBatch) \in Int /\ Len(pendingBatch) < n + 1
      BY <3>1
    <3> QED BY <3>2, SubSeqEmpty
  <2>2. n = Len(pendingBatch) \/ n < Len(pendingBatch)
    <3>1. Len(pendingBatch) \in Nat
      BY <1>1, LenProperties
    <3> QED BY <3>1
  <2> QED BY <1>2, <2>1, <2>2
<1> HIDE DEF q, d
<1> DEFINE a == ((retired ++ file) ++ bufio) ++ q
           c == hand ++ buffer
<1>5. a \in Seq(Entry) /\ c \in Seq(Entry)
  BY <1>1, <1>3, Cat
<1>12. /\ Joined(retired, file, bufio, q ++ d, hand, buffer) = (a ++ d) ++ c
       /\ Joined(retired, (file ++ bufio) ++ q, <<>>, <<>>, hand, buffer) = a ++ c
       /\ Joined(retired, file, bufio ++ q, <<>>, hand, buffer) = a ++ c
  <2>1. /\ retired \in Seq(Entry) /\ file \in Seq(Entry) /\ bufio \in Seq(Entry)
        /\ q \in Seq(Entry) /\ d \in Seq(Entry) /\ hand \in Seq(Entry) /\ buffer \in Seq(Entry)
    BY <1>1, <1>3
  <2>2. /\ retired ++ file \in Seq(Entry) /\ (retired ++ file) ++ bufio \in Seq(Entry)
        /\ file ++ bufio \in Seq(Entry) /\ a \in Seq(Entry) /\ a ++ d \in Seq(Entry)
    BY <2>1, Cat
  <2> QED BY <2>1, <2>2, Cat DEF Joined
<1>6. Log = (a ++ d) ++ c
  <2>1. Log = Joined(retired, file, bufio, pendingBatch, hand, buffer)
    BY DEF Log, Joined, ++
  <2> QED BY <1>3, <1>12, <2>1
<1>7. Log' = a ++ c
  <2>1. Log' = Joined(retired', file', bufio', pendingBatch', hand', buffer')
    BY PartsNext
  <2>2. CASE file' = (file ++ bufio) ++ q /\ bufio' = <<>>
    <3>1. Log' = Joined(retired, (file ++ bufio) ++ q, <<>>, <<>>, hand, buffer)
      BY <2>1, <2>2 DEF Flushed
    <3> QED BY <1>12, <3>1
  <2>3. CASE file' = file /\ bufio' = bufio ++ q
    <3>1. Log' = Joined(retired, file, bufio ++ q, <<>>, hand, buffer)
      BY <2>1, <2>3 DEF Flushed
    <3> QED BY <1>12, <3>1
  <2> QED BY <1>2, <2>2, <2>3 DEF q
<1>8. Stable <= Len(a)
  <2>1. /\ Len(retired) \in Nat /\ Len(file) \in Nat /\ Len(bufio) \in Nat /\ Len(q) \in Nat
    BY <1>1, <1>3, LenProperties
  <2>2. /\ retired ++ file \in Seq(Entry) /\ (retired ++ file) ++ bufio \in Seq(Entry)
        /\ Len(retired ++ file) = Len(retired) + Len(file)
    BY <1>1, Cat, ConcatProperties DEF ++
  <2>3. Len((retired ++ file) ++ bufio) = Len(retired ++ file) + Len(bufio)
    BY <1>1, <2>2, ConcatProperties DEF ++
  <2>4. Len(a) = Len((retired ++ file) ++ bufio) + Len(q)
    BY <1>3, <2>2, ConcatProperties DEF ++
  <2> QED BY <1>1, <2>1, <2>2, <2>3, <2>4 DEF Stable
<1>9. Stable' \in Stable .. Len(Log')
  <2>1. /\ Stable' = Len(retired') + synced' /\ synced' \in 0 .. Len(file')
        /\ Len(retired') \in Nat /\ Len(file') \in Nat /\ Len(Log') \in Nat
        /\ Len(retired') + Len(file') <= Len(Log')
    BY PartsNext
  <2>2. synced' >= synced /\ retired' = retired
    BY FlushedTypes, <1>1
  <2> QED BY <1>1, <2>1, <2>2 DEF Stable
<1>10. lost' = lost \cup ToSet(d)
  BY <1>2, <1>3
<1> HIDE DEF a, c
<1>11. Drops(a, d, c)
  BY <1>3, <1>4, <1>5, <1>6, <1>7, <1>8, <1>9, <1>10 DEF Drops, ++
<1> QED BY <1>3, <1>5, <1>11 DEF Form

\* The end of the process drops what is volatile.
LEMMA EndForm ==
  ASSUME TypeOK, TypeOK', down = "no", down' # "no",
         NEW k \in synced .. Len(file), Volatile(k)
  PROVE  Form
<1>1. /\ retired \in Seq(Entry) /\ file \in Seq(Entry) /\ bufio \in Seq(Entry)
      /\ pendingBatch \in Seq(Entry) /\ hand \in Seq(Entry) /\ buffer \in Seq(Entry)
      /\ synced \in 0 .. Len(file) /\ Len(file) \in Nat /\ Len(retired) \in Nat
  BY LenProperties DEF TypeOK
<1>2. k \in 0 .. Len(file)
  BY <1>1
<1> DEFINE g == SubSeq(file, 1, k)
<1>3. g \in Seq(Entry)
  BY <1>1, <1>2, Split
<1> HIDE DEF g
<1>4. Log' = retired \o g
  <2>1. Log' = Joined(retired, g, <<>>, <<>>, <<>>, <<>>)
    BY PartsNext DEF Volatile, g
  <2>2. retired ++ g \in Seq(Entry)
    BY <1>1, <1>3, Cat
  <2>3. (retired ++ g) ++ <<>> = retired ++ g
    BY <2>2, Cat
  <2> QED BY <2>1, <2>3 DEF Joined, ++
<1>5. retired \o g = SubSeq(retired \o file, 1, Len(retired) + k)
  BY <1>1, <1>2, Prefix DEF g
<1>6. SubSeq(Log, 1, Len(retired) + k) = SubSeq(retired \o file, 1, Len(retired) + k)
  <2> DEFINE x == retired \o file
             y == bufio \o ((pendingBatch \o hand) \o buffer)
  <2>1. x \in Seq(Entry) /\ y \in Seq(Entry) /\ Len(x) = Len(retired) + Len(file)
    <3>1. (pendingBatch ++ hand) ++ buffer \in Seq(Entry)
      BY <1>1, Cat
    <3>2. bufio ++ ((pendingBatch ++ hand) ++ buffer) \in Seq(Entry)
      BY <1>1, <3>1, Cat
    <3> QED BY <1>1, <3>2, ConcatProperties DEF ++
  <2>2. Log = x \o y
    <3>1. Log = Joined(retired, file, bufio, pendingBatch, hand, buffer)
      BY DEF Log, Joined, ++
    <3>2. Log = ((retired ++ file) ++ bufio) ++ ((pendingBatch ++ hand) ++ buffer)
      BY <1>1, <3>1, JoinedMoves
    <3>3. /\ (pendingBatch ++ hand) ++ buffer \in Seq(Entry) /\ retired ++ file \in Seq(Entry)
      BY <1>1, Cat
    <3>4. ((retired ++ file) ++ bufio) ++ ((pendingBatch ++ hand) ++ buffer)
            = (retired ++ file) ++ (bufio ++ ((pendingBatch ++ hand) ++ buffer))
      BY <1>1, <3>3, Cat
    <3> QED BY <3>2, <3>4 DEF ++
  <2> HIDE DEF x, y
  <2>3. Len(retired) + k \in 0 .. Len(x)
    BY <1>1, <1>2, <2>1
  <2>4. SubSeq(x \o y, 1, Len(retired) + k) = SubSeq(x, 1, Len(retired) + k)
    BY <2>1, <2>3, PrefixOfFirst
  <2> QED BY <2>2, <2>4 DEF x
<1>7. Stable' = Len(retired) + k /\ Len(retired) + k \in Stable .. Len(Log)
  <2>1. Stable' = Len(retired) + k
    BY PartsNext DEF Volatile
  <2>2. Len(Log) \in Nat /\ Len(retired) + Len(file) <= Len(Log)
    BY Parts
  <2> QED BY <1>1, <1>2, <2>1, <2>2 DEF Stable
<1>8. accepted' = accepted
  BY DEF Volatile, appendVars
<1> QED BY <1>4, <1>5, <1>6, <1>7, <1>8 DEF Form, Ends

-----------------------------------------------------------------------------
(***************************************************************************)
(* TypeOK.                                                                 *)
(***************************************************************************)

\* What a step may do to the places of the entries without breaking TypeOK.
PlacesTyped ==
  /\ accepted' \in 0 .. MaxEntries /\ lost' \subseteq Entry
  /\ buffer' \in Seq(Entry) /\ Len(buffer') <= BufferCap
  /\ hand' \in Seq(Entry) /\ Len(hand') <= 1
  /\ pendingBatch' \in Seq(Entry) /\ bufio' \in Seq(Entry)
  /\ file' \in Seq(Entry) /\ retired' \in Seq(Entry)
  /\ synced' \in 0 .. Len(file')
  /\ size' \in Nat /\ rotating' \in BOOLEAN /\ writer' \in {"ok", "stale", "failed"}

\* A step that moves nothing keeps the types.
LEMMA QuietTyped ==
  ASSUME TypeOK, Quiet, size' = size, rotating' \in BOOLEAN, writer' \in {"ok", "stale", "failed"}
  PROVE  PlacesTyped
<1>1. synced' \in 0 .. Len(file')
  BY DEF TypeOK, Quiet
<1> QED BY <1>1 DEF TypeOK, Quiet, PlacesTyped

\* A step that writes the buffer to the file keeps the types.
LEMMA WrittenTyped ==
  ASSUME TypeOK, Written, UNCHANGED <<size, rotating>>, writer' \in {"ok", "stale", "failed"}
  PROVE  PlacesTyped
<1>1. /\ file \in Seq(Entry) /\ bufio \in Seq(Entry) /\ synced \in 0 .. Len(file)
  BY DEF TypeOK
<1>2. /\ file ++ bufio \in Seq(Entry) /\ <<>> \in Seq(Entry)
      /\ Len(file ++ bufio) = Len(file) + Len(bufio) /\ Len(file) \in Nat /\ Len(bufio) \in Nat
  BY <1>1, ConcatProperties, EmptySeq, LenProperties DEF ++
<1>3. file' \in Seq(Entry) /\ bufio' \in Seq(Entry) /\ Len(file') \in Nat /\ Len(file') >= Len(file)
  <2>1. Len(file ++ bufio) \in Nat /\ Len(file ++ bufio) >= Len(file)
    BY <1>2
  <2>2. CASE file' = file ++ bufio /\ bufio' = <<>>
    BY <1>2, <2>1, <2>2
  <2>3. CASE file' = file /\ bufio' = bufio
    BY <1>1, <1>2, <2>3
  <2> QED BY <2>2, <2>3 DEF Written
<1>4. synced' \in 0 .. Len(file')
  BY <1>1, <1>2, <1>3 DEF Written
<1> QED BY <1>3, <1>4 DEF TypeOK, Written, PlacesTyped

\* A flush keeps the types.
LEMMA FlushedTyped ==
  ASSUME TypeOK, Flushed, UNCHANGED <<accepted, buffer, hand, retired>>,
         writer' \in {"ok", "stale", "failed"}
  PROVE  PlacesTyped
BY FlushedTypes DEF Flushed, TypeOK, PlacesTyped

\* The end of the process keeps the types.
LEMMA EndTyped ==
  ASSUME TypeOK, NEW k \in synced .. Len(file), Volatile(k)
  PROVE  PlacesTyped
<1>1. k \in 0 .. Len(file) /\ Len(file) \in Nat /\ file \in Seq(Entry)
  BY LenProperties DEF TypeOK
<1>2. file' \in Seq(Entry) /\ Len(file') = k
  <2>1. /\ file' = SubSeq(file, 1, k) /\ \A i \in 1 .. k : file[i] \in Entry
        /\ 1 \in Int /\ k \in Int
    BY <1>1, ElementOfSeq DEF Volatile
  <2>2. /\ SubSeq(file, 1, k) \in Seq(Entry)
        /\ Len(SubSeq(file, 1, k)) = IF 1 <= k THEN k - 1 + 1 ELSE 0
    BY <2>1, SubSeqProperties
  <2> QED BY <1>1, <2>1, <2>2
<1>3. <<>> \in Seq(Entry) /\ Len(<<>>) = 0
  BY EmptySeq
<1>4. synced' = k /\ accepted' = accepted /\ lost' = lost /\ retired' = retired
      /\ size' = size /\ rotating' = rotating /\ writer' = writer
      /\ buffer' = <<>> /\ hand' = <<>> /\ pendingBatch' = <<>> /\ bufio' = <<>>
  BY DEF Volatile, appendVars
<1> QED BY <1>1, <1>2, <1>3, <1>4, WALAssumption DEF TypeOK, PlacesTyped

\* What is left of TypeOK: the program counters, locks and flags.
LEMMA PlacesEnough ==
  ASSUME IInv, Next, PlacesTyped
  PROVE  TypeOK'
<1> DEFINE Rest ==
      /\ target \in 0 .. MaxEntries
      /\ bufferClosed \in BOOLEAN /\ leaving \in BOOLEAN
      /\ ctxDone \in BOOLEAN /\ closed \in BOOLEAN
      /\ apc \in {"idle", "sending"}
      /\ bpc \in {"outer", "outerGot", "inner", "innerGot", "flush", "exited"}
      /\ ppc \in {"idle", "checked", "sync", "lastSync", "exited"}
      /\ rpc \in {"idle", "locking", "swap", "lower", "exited"}
      /\ kpc \in {"open", "cancel", "wait", "final", "done"}
      /\ spc \in {"idle", "drain", "run", "runLate"}
      /\ tpc \in {"idle", "drain", "flush", "close", "remove", "swap"}
      /\ closeMutex \in {"free", "rotate", "truncate"}
      /\ batchMutex \in {"free", "rotate"}
      /\ down \in {"no", "crash", "panic"}
<1>0. Rest /\ accepted \in 0 .. MaxEntries /\ 0 \in 0 .. MaxEntries
  BY WALAssumption DEF IInv, TypeOK
<1>1. AppendCheck => Rest'
  BY <1>0 DEF AppendCheck, appendVars, chanVars, bwVars, fileVars, syncVars, lifeVars, lockVars
<1>2. AppendSend => Rest'
  BY <1>0 DEF AppendSend, appendVars, chanVars, bwVars, fileVars, syncVars, lifeVars, lockVars
<1>3. AppendTimeout => Rest'
  BY <1>0 DEF AppendTimeout, appendVars, chanVars, bwVars, fileVars, syncVars, lifeVars, lockVars
<1>4. AppendPanic => Rest'
  BY <1>0 DEF AppendPanic, Volatile, appendVars, chanVars, bwVars, fileVars, syncVars, lifeVars, lockVars
<1>5. BwRecv => Rest'
  BY <1>0 DEF BwRecv, bwFrame, appendVars, chanVars, bwVars, fileVars, syncVars, lifeVars, lockVars
<1>6. BwStore => Rest'
  BY <1>0 DEF BwStore, bwFrame, appendVars, chanVars, bwVars, fileVars, syncVars, lifeVars, lockVars
<1>7. BwClosed => Rest'
  BY <1>0 DEF BwClosed, bwFrame, appendVars, chanVars, bwVars, fileVars, syncVars, lifeVars, lockVars
<1>8. BwDefault => Rest'
  BY <1>0 DEF BwDefault, bwFrame, appendVars, chanVars, bwVars, fileVars, syncVars, lifeVars, lockVars
<1>9. BwDone => Rest'
  BY <1>0 DEF BwDone, bwFrame, appendVars, chanVars, bwVars, fileVars, syncVars, lifeVars, lockVars
<1>10. BwTick => Rest'
  BY <1>0 DEF BwTick, bwFrame, appendVars, chanVars, bwVars, fileVars, syncVars, lifeVars, lockVars
<1>11. BwFlush => Rest'
  BY <1>0 DEF BwFlush, bwFrame, appendVars, chanVars, bwVars, fileVars, syncVars, lifeVars, lockVars
<1>12. PsCheck => Rest'
  BY <1>0 DEF PsCheck, psFrame, appendVars, chanVars, bwVars, fileVars, syncVars, lifeVars, lockVars
<1>13. PsFlush => Rest'
  BY <1>0 DEF PsFlush, psFrame, appendVars, chanVars, bwVars, fileVars, syncVars, lifeVars, lockVars
<1>14. PsDone => Rest'
  BY <1>0 DEF PsDone, psFrame, appendVars, chanVars, bwVars, fileVars, syncVars, lifeVars, lockVars
<1>15. PsSync => Rest'
  BY <1>0 DEF PsSync, psFrame, appendVars, chanVars, bwVars, fileVars, syncVars, lifeVars, lockVars
<1>16. RwTick => Rest'
  BY <1>0 DEF RwTick, rwFrame, appendVars, chanVars, bwVars, fileVars, syncVars, lifeVars, lockVars
<1>17. RwFlush => Rest'
  BY <1>0 DEF RwFlush, rwFrame, appendVars, chanVars, bwVars, fileVars, syncVars, lifeVars, lockVars
<1>18. RwFlushError => Rest'
  BY <1>0 DEF RwFlushError, rwFrame, appendVars, chanVars, bwVars, fileVars, syncVars, lifeVars, lockVars
<1>19. RwSwap => Rest'
  BY <1>0 DEF RwSwap, rwFrame, appendVars, chanVars, bwVars, fileVars, syncVars, lifeVars, lockVars
<1>20. RwSwapError => Rest'
  BY <1>0 DEF RwSwapError, rwFrame, appendVars, chanVars, bwVars, fileVars, syncVars, lifeVars, lockVars
<1>21. RwLower => Rest'
  BY <1>0 DEF RwLower, rwFrame, appendVars, chanVars, bwVars, fileVars, syncVars, lifeVars, lockVars
<1>22. RwDone => Rest'
  BY <1>0 DEF RwDone, rwFrame, appendVars, chanVars, bwVars, fileVars, syncVars, lifeVars, lockVars
<1>23. SyncCheck => Rest'
  BY <1>0 DEF SyncCheck, syFrame, appendVars, chanVars, bwVars, fileVars, syncVars, lifeVars, lockVars
<1>24. SyncDrain => Rest'
  BY <1>0 DEF SyncDrain, syFrame, appendVars, chanVars, bwVars, fileVars, syncVars, lifeVars, lockVars
<1>25. SyncRun => Rest'
  BY <1>0 DEF SyncRun, syFrame, appendVars, chanVars, bwVars, fileVars, syncVars, lifeVars, lockVars
<1>26. TrStart => Rest'
  BY <1>0 DEF TrStart, trFrame, appendVars, chanVars, bwVars, fileVars, syncVars, lifeVars, lockVars
<1>27. TrDrain => Rest'
  BY <1>0 DEF TrDrain, trFrame, appendVars, chanVars, bwVars, fileVars, syncVars, lifeVars, lockVars
<1>28. TrFlush => Rest'
  BY <1>0 DEF TrFlush, trFrame, appendVars, chanVars, bwVars, fileVars, syncVars, lifeVars, lockVars
<1>29. TrClose \/ TrRemove \/ TrError => Rest'
  BY <1>0 DEF TrClose, TrRemove, TrError, trFrame, appendVars, chanVars, bwVars, fileVars, syncVars, lifeVars, lockVars
<1>30. TrSwap => Rest'
  BY <1>0 DEF TrSwap, trFrame, appendVars, chanVars, bwVars, fileVars, syncVars, lifeVars, lockVars
<1>31. CloseBuffer => Rest'
  BY <1>0 DEF CloseBuffer, clFrame, appendVars, chanVars, bwVars, fileVars, syncVars, lifeVars, lockVars
<1>32. ParentCancel => Rest'
  BY <1>0 DEF ParentCancel, clFrame, appendVars, chanVars, bwVars, fileVars, syncVars, lifeVars, lockVars
<1>33. CloseMark => Rest'
  BY <1>0 DEF CloseMark, clFrame, appendVars, chanVars, bwVars, fileVars, syncVars, lifeVars, lockVars
<1>34. CloseCancel => Rest'
  BY <1>0 DEF CloseCancel, clFrame, appendVars, chanVars, bwVars, fileVars, syncVars, lifeVars, lockVars
<1>35. CloseWait => Rest'
  BY <1>0 DEF CloseWait, clFrame, appendVars, chanVars, bwVars, fileVars, syncVars, lifeVars, lockVars
<1>36. CloseFinal => Rest'
  BY <1>0 DEF CloseFinal, clFrame, appendVars, chanVars, bwVars, fileVars, syncVars, lifeVars, lockVars
<1>37. Crash => Rest'
  BY <1>0 DEF Crash, Volatile, appendVars, chanVars, bwVars, fileVars, syncVars, lifeVars, lockVars
<1>38. DiskFails => Rest'
  BY <1>0 DEF DiskFails, appendVars, chanVars, bwVars, fileVars, syncVars, lifeVars, lockVars
<1>50. Rest'
  <2> HIDE DEF Rest
  <2> QED BY <1>1, <1>2, <1>3, <1>4, <1>5, <1>6, <1>7, <1>8, <1>9, <1>10, <1>11, <1>12, <1>13, <1>14, <1>15, <1>16, <1>17, <1>18, <1>19, <1>20, <1>21, <1>22, <1>23, <1>24, <1>25, <1>26, <1>27, <1>28, <1>29, <1>30, <1>31, <1>32, <1>33, <1>34, <1>35, <1>36, <1>37, <1>38 DEF Next, BatchWriter, PeriodicSync, RotateWatcher, SyncCall, TruncateCall, CloseCall
<1> QED BY <1>50 DEF TypeOK, PlacesTyped

-----------------------------------------------------------------------------
(***************************************************************************)
(* One action after the other.                                             *)
(***************************************************************************)

\* What is shown of every action.
Good == PlacesTyped /\ (TypeOK' => Form)

Writers == writer' \in {"ok", "stale", "failed"}

\* Hence a step that moves nothing is good,
LEMMA QuietGood ==
  ASSUME TypeOK, down = "no", Quiet, size' = size, rotating' \in BOOLEAN, Writers PROVE Good
BY QuietTyped, QuietForm DEF Good, Writers

\* one that writes the buffer to the file,
LEMMA WrittenGood ==
  ASSUME TypeOK, down = "no", Written, UNCHANGED <<size, rotating>>, Writers PROVE Good
BY WrittenTyped, WrittenForm DEF Good, Writers

\* a flush,
LEMMA FlushedGood ==
  ASSUME TypeOK, down = "no", Flushed, UNCHANGED <<accepted, buffer, hand, retired, down>>, Writers
  PROVE  Good
BY FlushedTyped, FlushedForm DEF Good, Writers

\* and the end of the process.
LEMMA EndGood ==
  ASSUME TypeOK, down = "no", down' # "no", NEW k \in synced .. Len(file), Volatile(k)
  PROVE  Good
BY EndTyped, EndForm DEF Good

\* The steps that touch no entry.
LEMMA QuietSteps ==
  ASSUME TypeOK, down = "no" PROVE
  (AppendCheck \/ AppendTimeout \/ BwClosed \/ BwDefault \/ BwDone \/ BwTick \/ PsCheck
     \/ PsSync \/ RwTick \/ RwSwapError \/ RwLower \/ RwDone \/ SyncCheck \/ SyncDrain
     \/ TrStart \/ TrDrain \/ TrError \/ CloseBuffer \/ ParentCancel \/ CloseMark \/ CloseCancel
     \/ CloseWait \/ DiskFails)
    => Good
<1>0. /\ synced \in 0 .. Len(file) /\ Len(file) \in Nat /\ synced \in synced .. Len(file)
      /\ Len(file) \in synced .. Len(file)
      /\ rotating \in BOOLEAN /\ writer \in {"ok", "stale", "failed"}
  BY LenProperties DEF TypeOK
<1>1. AppendCheck => Quiet /\ size' = size /\ rotating' \in BOOLEAN /\ Writers
  BY <1>0 DEF AppendCheck, Quiet, Writers, appendVars, chanVars, bwVars, fileVars, syncVars, lifeVars, lockVars
<1>2. AppendTimeout => Quiet /\ size' = size /\ rotating' \in BOOLEAN /\ Writers
  BY <1>0 DEF AppendTimeout, Quiet, Writers, appendVars, chanVars, bwVars, fileVars, syncVars, lifeVars, lockVars
<1>3. BwClosed => Quiet /\ size' = size /\ rotating' \in BOOLEAN /\ Writers
  BY <1>0 DEF BwClosed, bwFrame, Quiet, Writers, appendVars, chanVars, bwVars, fileVars, syncVars, lifeVars, lockVars
<1>4. BwDefault => Quiet /\ size' = size /\ rotating' \in BOOLEAN /\ Writers
  BY <1>0 DEF BwDefault, bwFrame, Quiet, Writers, appendVars, chanVars, bwVars, fileVars, syncVars, lifeVars, lockVars
<1>5. BwDone => Quiet /\ size' = size /\ rotating' \in BOOLEAN /\ Writers
  BY <1>0 DEF BwDone, bwFrame, Quiet, Writers, appendVars, chanVars, bwVars, fileVars, syncVars, lifeVars, lockVars
<1>6. BwTick => Quiet /\ size' = size /\ rotating' \in BOOLEAN /\ Writers
  BY <1>0 DEF BwTick, bwFrame, Quiet, Writers, appendVars, chanVars, bwVars, fileVars, syncVars, lifeVars, lockVars
<1>7. PsCheck => Quiet /\ size' = size /\ rotating' \in BOOLEAN /\ Writers
  BY <1>0 DEF PsCheck, psFrame, Quiet, Writers, appendVars, chanVars, bwVars, fileVars, syncVars, lifeVars, lockVars
<1>8. PsSync => Quiet /\ size' = size /\ rotating' \in BOOLEAN /\ Writers
  BY <1>0 DEF PsSync, psFrame, Quiet, Writers, appendVars, chanVars, bwVars, fileVars, syncVars, lifeVars, lockVars
<1>9. RwTick => Quiet /\ size' = size /\ rotating' \in BOOLEAN /\ Writers
  BY <1>0 DEF RwTick, rwFrame, Quiet, Writers, appendVars, chanVars, bwVars, fileVars, syncVars, lifeVars, lockVars
<1>10. RwSwapError => Quiet /\ size' = size /\ rotating' \in BOOLEAN /\ Writers
  BY <1>0 DEF RwSwapError, rwFrame, Quiet, Writers, appendVars, chanVars, bwVars, fileVars, syncVars, lifeVars, lockVars
<1>11. RwLower => Quiet /\ size' = size /\ rotating' \in BOOLEAN /\ Writers
  BY <1>0 DEF RwLower, rwFrame, Quiet, Writers, appendVars, chanVars, bwVars, fileVars, syncVars, lifeVars, lockVars
<1>12. RwDone => Quiet /\ size' = size /\ rotating' \in BOOLEAN /\ Writers
  BY <1>0 DEF RwDone, rwFrame, Quiet, Writers, appendVars, chanVars, bwVars, fileVars, syncVars, lifeVars, lockVars
<1>13. SyncCheck => Quiet /\ size' = size /\ rotating' \in BOOLEAN /\ Writers
  BY <1>0 DEF SyncCheck, syFrame, Quiet, Writers, appendVars, chanVars, bwVars, fileVars, syncVars, lifeVars, lockVars
<1>14. SyncDrain => Quiet /\ size' = size /\ rotating' \in BOOLEAN /\ Writers
  BY <1>0 DEF SyncDrain, syFrame, Quiet, Writers, appendVars, chanVars, bwVars, fileVars, syncVars, lifeVars, lockVars
<1>15. TrStart => Quiet /\ size' = size /\ rotating' \in BOOLEAN /\ Writers
  BY <1>0 DEF TrStart, trFrame, Quiet, Writers, appendVars, chanVars, bwVars, fileVars, syncVars, lifeVars, lockVars
<1>16. TrDrain => Quiet /\ size' = size /\ rotating' \in BOOLEAN /\ Writers
  BY <1>0 DEF TrDrain, trFrame, Quiet, Writers, appendVars, chanVars, bwVars, fileVars, syncVars, lifeVars, lockVars
<1>17. CloseBuffer => Quiet /\ size' = size /\ rotating' \in BOOLEAN /\ Writers
  BY <1>0 DEF CloseBuffer, clFrame, Quiet, Writers, appendVars, chanVars, bwVars, fileVars, syncVars, lifeVars, lockVars
<1>18. ParentCancel => Quiet /\ size' = size /\ rotating' \in BOOLEAN /\ Writers
  BY <1>0 DEF ParentCancel, clFrame, Quiet, Writers, appendVars, chanVars, bwVars, fileVars, syncVars, lifeVars, lockVars
<1>19. CloseMark => Quiet /\ size' = size /\ rotating' \in BOOLEAN /\ Writers
  BY <1>0 DEF CloseMark, clFrame, Quiet, Writers, appendVars, chanVars, bwVars, fileVars, syncVars, lifeVars, lockVars
<1>20. CloseCancel => Quiet /\ size' = size /\ rotating' \in BOOLEAN /\ Writers
  BY <1>0 DEF CloseCancel, clFrame, Quiet, Writers, appendVars, chanVars, bwVars, fileVars, syncVars, lifeVars, lockVars
<1>21. CloseWait => Quiet /\ size' = size /\ rotating' \in BOOLEAN /\ Writers
  BY <1>0 DEF CloseWait, clFrame, Quiet, Writers, appendVars, chanVars, bwVars, fileVars, syncVars, lifeVars, lockVars
<1>22. DiskFails => Quiet /\ size' = size /\ rotating' \in BOOLEAN /\ Writers
  BY <1>0 DEF DiskFails, Quiet, Writers, appendVars, chanVars, bwVars, fileVars, syncVars, lifeVars, lockVars
<1>23. TrError => Quiet /\ size' = size /\ rotating' \in BOOLEAN /\ Writers
  BY <1>0 DEF TrError, trFrame, Quiet, Writers, appendVars, chanVars, bwVars, fileVars, syncVars, lifeVars, lockVars
<1> QED BY <1>1, <1>2, <1>3, <1>4, <1>5, <1>6, <1>7, <1>8, <1>9, <1>10, <1>11, <1>12, <1>13, <1>14, <1>15, <1>16, <1>17, <1>18, <1>19, <1>20, <1>21, <1>22, <1>23, QuietGood

\* The steps that flush.
LEMMA FlushWriter ==
  ASSUME TypeOK, FlushBatchLocked PROVE Writers
BY DEF TypeOK, FlushBatchLocked, Writers

\* writer.Flush writes the buffer to the file.
LEMMA WriterFlushWrites ==
  ASSUME TypeOK, WriterFlush, synced' = synced \/ synced' = Len(file'),
         UNCHANGED <<accepted, buffer, hand, retired, rotating, down>>
  PROVE  Written /\ UNCHANGED <<size, rotating>> /\ Writers
BY DEF WriterFlush, Written, Writers, TypeOK, ++

\* The steps that flush.
LEMMA FlushSteps ==
  ASSUME TypeOK, down = "no"
  PROVE  (BwFlush \/ TrFlush \/ CloseFinal \/ RwFlush \/ RwFlushError
            \/ PsFlush \/ PsDone \/ SyncRun \/ TrClose) => Good
<1>1. ASSUME BwFlush PROVE Good
  <2>1. FlushBatchLocked /\ UNCHANGED <<accepted, buffer, hand, retired, down>>
    BY <1>1 DEF BwFlush, bwFrame, appendVars, chanVars, bwVars, fileVars, syncVars, lifeVars, lockVars
  <2> QED BY <2>1, FlushTakes, FlushWriter, FlushedGood
<1>2. ASSUME TrFlush PROVE Good
  <2>1. FlushBatchLocked /\ UNCHANGED <<accepted, buffer, hand, retired, down>>
    BY <1>2 DEF TrFlush, trFrame, appendVars, chanVars, bwVars, fileVars, syncVars, lifeVars, lockVars
  <2> QED BY <2>1, FlushTakes, FlushWriter, FlushedGood
<1>3. ASSUME CloseFinal PROVE Good
  <2>1. FlushAndSync /\ UNCHANGED <<accepted, buffer, hand, retired, down>> /\ Writers
    BY <1>3 DEF CloseFinal, clFrame, appendVars, chanVars, bwVars, fileVars, syncVars, lifeVars, lockVars, Writers, TypeOK
  <2> QED BY <2>1, FlushTakes, FlushedGood
<1>4. ASSUME RwFlush PROVE Good
  <2>1. FlushAndSync /\ UNCHANGED <<accepted, buffer, hand, retired, down>> /\ Writers
    BY <1>4 DEF RwFlush, rwFrame, appendVars, chanVars, bwVars, fileVars, syncVars, lifeVars, lockVars, Writers, TypeOK
  <2> QED BY <2>1, FlushTakes, FlushedGood
<1>5. ASSUME RwFlushError PROVE Good
  <2>1. UNCHANGED <<accepted, buffer, hand, retired, down>>
    BY <1>5 DEF RwFlushError, rwFrame, appendVars, chanVars, bwVars, fileVars, syncVars, lifeVars, lockVars
  <2>2. CASE FlushBatchLocked
    BY <2>1, <2>2, FlushTakes, FlushWriter, FlushedGood
  <2>3. CASE WriterFlush /\ UNCHANGED <<synced, rotating>>
    BY <2>1, <2>3, WriterFlushWrites, WrittenGood
  <2> QED BY <1>5, <2>2, <2>3 DEF RwFlushError
<1>6. ASSUME PsFlush PROVE Good
  <2>1. /\ WriterFlush /\ UNCHANGED <<accepted, buffer, hand, retired, rotating, down>>
        /\ synced' = synced \/ synced' = Len(file')
    BY <1>6 DEF PsFlush, psFrame, appendVars, chanVars, bwVars, fileVars, syncVars, lifeVars, lockVars
  <2> QED BY <2>1, WriterFlushWrites, WrittenGood
<1>7. ASSUME PsDone PROVE Good
  <2>1. /\ WriterFlush /\ UNCHANGED <<accepted, buffer, hand, retired, rotating, down>>
        /\ synced' = synced \/ synced' = Len(file')
    BY <1>7 DEF PsDone, psFrame, appendVars, chanVars, bwVars, fileVars, syncVars, lifeVars, lockVars
  <2> QED BY <2>1, WriterFlushWrites, WrittenGood
<1>8. ASSUME SyncRun PROVE Good
  <2>1. /\ WriterFlush /\ UNCHANGED <<accepted, buffer, hand, retired, rotating, down>>
        /\ synced' = synced \/ synced' = Len(file')
    BY <1>8 DEF SyncRun, syFrame, appendVars, chanVars, bwVars, fileVars, syncVars, lifeVars, lockVars
  <2> QED BY <2>1, WriterFlushWrites, WrittenGood
<1>9. ASSUME TrClose PROVE Good
  <2>1. /\ Writers
        /\ UNCHANGED <<accepted, buffer, hand, retired, pendingBatch, lost, size, rotating, down>>
    BY <1>9 DEF TrClose, trFrame, appendVars, chanVars, bwVars, syncVars, lifeVars, Writers
  <2>2. /\ \/ file' = file ++ bufio /\ bufio' = <<>>
           \/ file' = file /\ bufio' = bufio
        /\ synced' = synced \/ synced' = Len(file')
    BY <1>9 DEF TrClose, ++
  <2> QED BY <2>1, <2>2, WrittenGood DEF Written
<1> QED BY <1>1, <1>2, <1>3, <1>4, <1>5, <1>6, <1>7, <1>8, <1>9

\* Append accepts an entry.
LEMMA SendGood ==
  ASSUME IInv, down = "no", AppendSend PROVE Good
<1>1. /\ retired \in Seq(Entry) /\ file \in Seq(Entry) /\ bufio \in Seq(Entry)
      /\ pendingBatch \in Seq(Entry) /\ hand \in Seq(Entry) /\ buffer \in Seq(Entry)
      /\ accepted \in 0 .. MaxEntries
  BY DEF IInv, TypeOK
<1>2. accepted' = accepted + 1 /\ accepted' \in Entry /\ accepted' \in 0 .. MaxEntries
  <2>1. apc = "sending" /\ accepted' = accepted + 1
    BY DEF AppendSend
  <2>2. accepted < MaxEntries
    BY <2>1 DEF IInv, Steps
  <2> QED BY <1>1, <2>1, <2>2, WALAssumption DEF Entry
<1>3. /\ buffer' = Append(buffer, accepted') /\ Len(buffer) < BufferCap
      /\ UNCHANGED <<hand, pendingBatch, bufio, file, retired, synced, size, rotating, writer,
                     lost, down>>
  BY DEF AppendSend, appendVars, chanVars, bwVars, fileVars, syncVars, lifeVars, lockVars
<1>4. buffer' \in Seq(Entry) /\ Len(buffer') = Len(buffer) + 1
  BY <1>1, <1>2, <1>3, AppendProperties
<1>5. PlacesTyped
  <2>1. Len(buffer') <= BufferCap
    BY <1>1, <1>3, <1>4, LenProperties, WALAssumption
  <2> QED BY <1>2, <1>3, <1>4, <2>1 DEF IInv, TypeOK, PlacesTyped
<1>6. ASSUME TypeOK' PROVE Form
  <2>1. Log = Joined(retired, file, bufio, pendingBatch, hand, buffer)
    BY DEF Log, Joined, ++
  <2>2. Log' = Joined(retired, file, bufio, pendingBatch, hand, Append(buffer, accepted'))
    BY <1>3, <1>6, PartsNext
  <2>3. Joined(retired, file, bufio, pendingBatch, hand, Append(buffer, accepted')) =
          Append(Joined(retired, file, bufio, pendingBatch, hand, buffer), accepted')
    <3> DEFINE w == (((retired ++ file) ++ bufio) ++ pendingBatch) ++ hand
    <3>1. w \in Seq(Entry)
      BY <1>1, Cat
    <3> HIDE DEF w
    <3>2. w ++ Append(buffer, accepted') = Append(w ++ buffer, accepted')
      BY <1>1, <1>2, <3>1, AppendToLast
    <3> QED BY <3>2 DEF w, Joined
  <2>4. Stable' = Stable
    BY <1>3 DEF Stable
  <2> QED BY <1>2, <1>3, <2>1, <2>2, <2>3, <2>4 DEF Form, Accepts
<1> QED BY <1>5, <1>6 DEF Good

\* batchWriter takes an entry from the channel.
LEMMA RecvGood ==
  ASSUME IInv, down = "no", BwRecv PROVE Good
<1>1. /\ retired \in Seq(Entry) /\ file \in Seq(Entry) /\ bufio \in Seq(Entry)
      /\ pendingBatch \in Seq(Entry) /\ hand \in Seq(Entry) /\ buffer \in Seq(Entry)
      /\ synced \in Nat /\ Len(retired) \in Nat /\ Len(buffer) \in Nat /\ Len(buffer) <= BufferCap
  BY LenProperties DEF IInv, TypeOK
<1>2. hand = <<>>
  BY DEF IInv, Steps, BwRecv
<1>3. /\ buffer # <<>> /\ hand' = <<Head(buffer)>> /\ buffer' = Tail(buffer)
      /\ UNCHANGED <<accepted, pendingBatch, bufio, file, retired, synced, size, rotating, writer,
                     lost, down>>
  BY DEF BwRecv, bwFrame, appendVars, chanVars, bwVars, fileVars, syncVars, lifeVars, lockVars
<1>4. /\ Joined(retired, file, bufio, pendingBatch, <<Head(buffer)>>, Tail(buffer))
           = Joined(retired, file, bufio, pendingBatch, <<>>, buffer)
      /\ <<Head(buffer)>> \in Seq(Entry) /\ Tail(buffer) \in Seq(Entry)
      /\ Len(Tail(buffer)) = Len(buffer) - 1
  BY <1>1, <1>3, JoinedReceive
<1>5. PlacesTyped
  <2>1. Len(hand') <= 1 /\ hand' \in Seq(Entry)
    BY <1>3, <1>4
  <2>2. Len(buffer') <= BufferCap /\ buffer' \in Seq(Entry)
    BY <1>1, <1>3, <1>4, WALAssumption
  <2> QED BY <1>3, <2>1, <2>2 DEF IInv, TypeOK, PlacesTyped
<1>6. Len(retired) + synced <= Len(retired') + synced'
  BY <1>1, <1>3
<1>7. ASSUME TypeOK' PROVE Form
  BY <1>2, <1>3, <1>4, <1>6, <1>7, MovesIf DEF IInv
<1> QED BY <1>5, <1>7 DEF Good

\* batchWriter puts it into the batch.
LEMMA StoreGood ==
  ASSUME IInv, down = "no", BwStore PROVE Good
<1>1. /\ retired \in Seq(Entry) /\ file \in Seq(Entry) /\ bufio \in Seq(Entry)
      /\ pendingBatch \in Seq(Entry) /\ hand \in Seq(Entry) /\ buffer \in Seq(Entry)
      /\ synced \in Nat /\ Len(retired) \in Nat
  BY LenProperties DEF IInv, TypeOK
<1>2. /\ hand' = <<>> /\ pendingBatch' = pendingBatch ++ hand
      /\ UNCHANGED <<accepted, buffer, bufio, file, retired, synced, size, rotating, writer,
                     lost, down>>
  BY DEF BwStore, bwFrame, appendVars, chanVars, bwVars, fileVars, syncVars, lifeVars, lockVars, ++
<1>3. /\ Joined(retired, file, bufio, pendingBatch ++ hand, <<>>, buffer)
           = Joined(retired, file, bufio, pendingBatch, hand, buffer)
  BY <1>1, JoinedMoves
<1>4. PlacesTyped
  <2>1. hand' \in Seq(Entry) /\ Len(hand') <= 1 /\ pendingBatch' \in Seq(Entry)
    BY <1>1, <1>2, Cat, EmptySeq
  <2> QED BY <1>2, <2>1 DEF IInv, TypeOK, PlacesTyped
<1>5. Len(retired) + synced <= Len(retired') + synced'
  BY <1>1, <1>2
<1>6. ASSUME TypeOK' PROVE Form
  BY <1>2, <1>3, <1>5, <1>6, MovesIf DEF IInv
<1> QED BY <1>4, <1>6 DEF Good

\* rotate renames the file: its bufio.Writer is empty then.
LEMMA SwapGood ==
  ASSUME IInv, down = "no", RwSwap PROVE Good
<1>1. /\ retired \in Seq(Entry) /\ file \in Seq(Entry) /\ <<>> \in Seq(Entry)
      /\ pendingBatch \in Seq(Entry) /\ hand \in Seq(Entry) /\ buffer \in Seq(Entry)
      /\ synced \in 0 .. Len(file) /\ Len(retired) \in Nat /\ Len(file) \in Nat
  BY LenProperties, EmptySeq DEF IInv, TypeOK
<1>2. bufio = <<>>
  BY DEF IInv, Steps, RwSwap
<1>3. /\ retired' = retired ++ file /\ file' = <<>> /\ bufio' = <<>> /\ synced' = 0
      /\ size' = 0 /\ lost' = lost \cup ToSet(bufio)
      /\ UNCHANGED <<accepted, buffer, hand, pendingBatch, rotating, writer, down>>
  BY DEF RwSwap, rwFrame, appendVars, chanVars, bwVars, fileVars, syncVars, lifeVars, lockVars, ++
<1>4. lost' = lost
  BY <1>1, <1>2, <1>3, SetOfSeq
<1>5. /\ Joined(retired ++ file, <<>>, <<>>, pendingBatch, hand, buffer)
           = Joined(retired, file, <<>>, pendingBatch, hand, buffer)
  <2>1. /\ retired \in Seq(Entry) /\ file \in Seq(Entry) /\ bufio \in Seq(Entry)
        /\ pendingBatch \in Seq(Entry) /\ hand \in Seq(Entry) /\ buffer \in Seq(Entry)
    BY <1>1 DEF IInv, TypeOK
  <2>2. Joined(retired ++ file, <<>>, bufio, pendingBatch, hand, buffer)
          = Joined(retired, file, bufio, pendingBatch, hand, buffer)
    BY <2>1, JoinedMoves
  <2> QED BY <1>2, <2>2
<1>6. PlacesTyped
  <2>1. file' \in Seq(Entry) /\ retired' \in Seq(Entry) /\ synced' \in 0 .. Len(file') /\ size' \in Nat
    BY <1>1, <1>3, Cat, EmptySeq
  <2> QED BY <1>1, <1>3, <1>4, <2>1 DEF IInv, TypeOK, PlacesTyped
<1>7. Len(retired) + synced <= Len(retired') + synced'
  <2>1. Len(retired') = Len(retired) + Len(file)
    BY <1>1, <1>3, ConcatProperties DEF ++
  <2> QED BY <1>1, <1>3, <2>1
<1>8. ASSUME TypeOK' PROVE Form
  BY <1>2, <1>3, <1>4, <1>5, <1>7, <1>8, MovesIf DEF IInv
<1> QED BY <1>6, <1>8 DEF Good

\* Truncate removes the file.
LEMMA RemoveGood ==
  ASSUME IInv, down = "no", TrRemove PROVE Good
<1>1. /\ retired \in Seq(Entry) /\ file \in Seq(Entry) /\ bufio \in Seq(Entry) /\ <<>> \in Seq(Entry)
      /\ pendingBatch \in Seq(Entry) /\ hand \in Seq(Entry) /\ buffer \in Seq(Entry)
      /\ synced \in 0 .. Len(file) /\ Len(retired) \in Nat /\ Len(file) \in Nat
      /\ retired ++ file \in Seq(Entry)
  BY LenProperties, EmptySeq, Cat DEF IInv, TypeOK
<1>2. /\ retired' = retired ++ file /\ file' = <<>> /\ synced' = 0 /\ Writers
      /\ UNCHANGED <<accepted, buffer, hand, pendingBatch, bufio, size, lost, rotating, down>>
  BY DEF TrRemove, trFrame, appendVars, chanVars, bwVars, fileVars, syncVars, lifeVars, lockVars, Writers, IInv, TypeOK, ++
<1>3. PlacesTyped
  <2>1. synced' \in 0 .. Len(file')
    BY <1>2, EmptySeq
  <2> QED BY <1>1, <1>2, <2>1 DEF IInv, TypeOK, PlacesTyped, Writers
<1>4. Len(retired) + synced <= Len(retired') + synced'
  <2>1. Len(retired ++ file) = Len(retired) + Len(file)
    BY <1>1, ConcatProperties DEF ++
  <2> QED BY <1>1, <1>2, <2>1
<1>5. ASSUME TypeOK' PROVE Form
  <2>1. Joined(retired ++ file, <<>>, bufio, pendingBatch, hand, buffer) =
          Joined(retired, file, bufio, pendingBatch, hand, buffer)
    <3>1. /\ retired \in Seq(Entry) /\ file \in Seq(Entry) /\ bufio \in Seq(Entry)
          /\ pendingBatch \in Seq(Entry) /\ hand \in Seq(Entry) /\ buffer \in Seq(Entry)
      BY <1>1
    <3> QED BY <3>1, JoinedMoves
  <2> QED BY <1>2, <1>4, <1>5, <2>1, MovesIf DEF IInv
<1> QED BY <1>3, <1>5 DEF Good

\* Truncate's new writer: what the old one still holds is given up.
LEMMA TrSwapGood ==
  ASSUME IInv, down = "no", TrSwap PROVE Good
<1>1. /\ retired \in Seq(Entry) /\ file \in Seq(Entry) /\ bufio \in Seq(Entry) /\ <<>> \in Seq(Entry)
      /\ pendingBatch \in Seq(Entry) /\ hand \in Seq(Entry) /\ buffer \in Seq(Entry)
      /\ synced \in 0 .. Len(file) /\ Len(retired) \in Nat /\ Len(file) \in Nat
  BY LenProperties, EmptySeq DEF IInv, TypeOK
<1>2. Excuse
  BY DEF IInv, Steps, TrSwap, Excuse
<1>3. /\ lost' = lost \cup ToSet(bufio) /\ bufio' = <<>> /\ size' = 0 /\ Writers
      /\ UNCHANGED <<accepted, buffer, hand, pendingBatch, file, synced, retired, rotating, down>>
  BY DEF TrSwap, trFrame, appendVars, chanVars, bwVars, fileVars, syncVars, lifeVars, lockVars, Writers
<1>4. PlacesTyped
  <2>1. lost' \subseteq Entry /\ bufio' \in Seq(Entry) /\ size' \in Nat
    BY <1>1, <1>3, SetOfSeq DEF IInv, TypeOK
  <2> QED BY <1>3, <2>1 DEF IInv, TypeOK, PlacesTyped, Writers
<1> DEFINE a == retired ++ file
           c == (pendingBatch ++ hand) ++ buffer
<1>5. ASSUME TypeOK' PROVE Form
  <2>1. a \in Seq(Entry) /\ c \in Seq(Entry)
    BY <1>1, Cat
  <2>2. Log = (a ++ bufio) ++ c
    <3>1. Log = Joined(retired, file, bufio, pendingBatch, hand, buffer)
      BY DEF Log, Joined, ++
    <3> QED BY <1>1, <3>1, JoinedMoves
  <2>3. Log' = a ++ c
    <3>1. Log' = Joined(retired, file, <<>>, pendingBatch, hand, buffer)
      BY <1>3, <1>5, PartsNext
    <3> QED BY <1>1, <3>1, JoinedMoves
  <2>4. Stable <= Len(a)
    <3>1. Len(retired ++ file) = Len(retired) + Len(file)
      BY <1>1, ConcatProperties DEF ++
    <3> QED BY <1>1, <3>1 DEF Stable
  <2>5. Stable' \in Stable .. Len(Log')
    <3>1. Stable' = Stable /\ Stable \in Nat /\ Len(Log') \in Nat
      BY <1>3, <1>5, Parts, PartsNext DEF Stable, IInv
    <3>2. Stable' <= Len(Log')
      BY <1>5, PartsNext
    <3> QED BY <3>1, <3>2
  <2> HIDE DEF a, c
  <2>6. Drops(a, bufio, c)
    BY <1>1, <1>2, <1>3, <2>1, <2>2, <2>3, <2>4, <2>5 DEF Drops, ++
  <2> QED BY <1>1, <2>1, <2>6 DEF Form
<1> QED BY <1>4, <1>5 DEF Good

\* The process dies.
LEMMA DeathGood ==
  ASSUME TypeOK, down = "no" PROVE AppendPanic \/ Crash => Good
<1>1. Len(file) \in synced .. Len(file)
  BY LenProperties DEF TypeOK
<1>2. ASSUME AppendPanic PROVE Good
  BY <1>1, <1>2, EndGood DEF AppendPanic
<1>3. ASSUME Crash PROVE Good
  BY <1>3, EndGood DEF Crash
<1> QED BY <1>2, <1>3

\* Every step is good.
LEMMA StepGood ==
  ASSUME IInv, Next PROVE Good
BY QuietSteps, FlushSteps, SendGood, RecvGood, StoreGood, SwapGood, RemoveGood, TrSwapGood,
   DeathGood
   DEF IInv, Next, BatchWriter, PeriodicSync, RotateWatcher, SyncCall, TruncateCall, CloseCall

-----------------------------------------------------------------------------
(***************************************************************************)
(* The theorems.                                                           *)
(***************************************************************************)

\* The empty log is in order.
LEMMA InitHolds == Init => IInv /\ LogOrdered /\ Abstract!LogInit
<1> SUFFICES ASSUME Init PROVE IInv /\ LogOrdered /\ Abstract!LogInit
  OBVIOUS
<1>1. TypeOK
  <2>1. <<>> \in Seq(Entry) /\ Len(<<>>) = 0
    BY EmptySeq
  <2>2. 0 \in 0 .. MaxEntries /\ 0 <= BufferCap /\ 0 \in 0 .. 0
    BY WALAssumption
  <2>3. ppc \in {"idle", "checked", "sync", "lastSync", "exited"}
    BY DEF Init
  <2>4. /\ buffer \in Seq(Entry) /\ hand \in Seq(Entry) /\ pendingBatch \in Seq(Entry)
        /\ bufio \in Seq(Entry) /\ file \in Seq(Entry) /\ retired \in Seq(Entry)
    BY <2>1 DEF Init
  <2>5. Len(buffer) <= BufferCap /\ Len(hand) <= 1 /\ synced \in 0 .. Len(file)
    BY <2>1, <2>2 DEF Init
  <2>6. accepted \in 0 .. MaxEntries /\ target \in 0 .. MaxEntries
    BY <2>2 DEF Init
  <2>7. lost \subseteq Entry /\ size \in Nat
    BY DEF Init
  <2> QED BY <2>3, <2>4, <2>5, <2>6, <2>7 DEF Init, TypeOK
<1>2. Steps
  BY DEF Init, Steps
<1>3. Log = <<>>
  <2>1. <<>> \in Seq(Entry) /\ <<>> \o <<>> = <<>>
    BY EmptySeq, ConcatEmptySeq
  <2> QED BY <2>1 DEF Init, Log
<1>4. ToSet(Log) = {} /\ 1 .. accepted = {} /\ lost = {} /\ DOMAIN Log = {}
  BY <1>3 DEF Init, ToSet
<1>5. LogOrdered
  BY <1>4 DEF LogOrdered
<1>6. Abstract!LogInit
  <2>1. Len(retired) + synced = 0
    BY EmptySeq DEF Init
  <2> QED BY <1>3, <2>1 DEF Init, Abstract!LogInit
<1> QED BY <1>1, <1>2, <1>5, <1>6 DEF IInv

\* Every step keeps Steps.
LEMMA StepSteps ==
  ASSUME IInv, Next PROVE Steps'
<1>0. Steps /\ hand \in Seq(Entry)
  BY DEF IInv, TypeOK
<1>1. AppendCheck => Steps'
  BY <1>0 DEF AppendCheck, Steps, appendVars, chanVars, bwVars, fileVars, syncVars, lifeVars, lockVars
<1>2. AppendSend => Steps'
  BY <1>0 DEF AppendSend, Steps, appendVars, chanVars, bwVars, fileVars, syncVars, lifeVars, lockVars
<1>3. AppendTimeout => Steps'
  BY <1>0 DEF AppendTimeout, Steps, appendVars, chanVars, bwVars, fileVars, syncVars, lifeVars, lockVars
<1>4. AppendPanic => Steps'
  BY <1>0 DEF AppendPanic, Steps, Volatile, appendVars, chanVars, bwVars, fileVars, syncVars, lifeVars, lockVars
<1>5. BwRecv => Steps'
  BY <1>0 DEF BwRecv, bwFrame, Steps, appendVars, chanVars, bwVars, fileVars, syncVars, lifeVars, lockVars
<1>6. BwStore => Steps'
  BY <1>0 DEF BwStore, bwFrame, Steps, appendVars, chanVars, bwVars, fileVars, syncVars, lifeVars, lockVars
<1>7. BwClosed => Steps'
  BY <1>0 DEF BwClosed, bwFrame, Steps, appendVars, chanVars, bwVars, fileVars, syncVars, lifeVars, lockVars
<1>8. BwDefault => Steps'
  BY <1>0 DEF BwDefault, bwFrame, Steps, appendVars, chanVars, bwVars, fileVars, syncVars, lifeVars, lockVars
<1>9. BwDone => Steps'
  BY <1>0 DEF BwDone, bwFrame, Steps, appendVars, chanVars, bwVars, fileVars, syncVars, lifeVars, lockVars
<1>10. BwTick => Steps'
  BY <1>0 DEF BwTick, bwFrame, Steps, appendVars, chanVars, bwVars, fileVars, syncVars, lifeVars, lockVars
<1>11. BwFlush => Steps'
  BY <1>0 DEF BwFlush, bwFrame, Steps, FlushBatchLocked, appendVars, chanVars, bwVars, fileVars, syncVars, lifeVars, lockVars
<1>12. PsCheck => Steps'
  BY <1>0 DEF PsCheck, psFrame, Steps, appendVars, chanVars, bwVars, fileVars, syncVars, lifeVars, lockVars
<1>13. PsFlush => Steps'
  BY <1>0 DEF PsFlush, psFrame, Steps, WriterFlush, appendVars, chanVars, bwVars, fileVars, syncVars, lifeVars, lockVars
<1>14. PsDone => Steps'
  BY <1>0 DEF PsDone, psFrame, Steps, WriterFlush, appendVars, chanVars, bwVars, fileVars, syncVars, lifeVars, lockVars
<1>15. PsSync => Steps'
  BY <1>0 DEF PsSync, psFrame, Steps, appendVars, chanVars, bwVars, fileVars, syncVars, lifeVars, lockVars
<1>16. RwTick => Steps'
  BY <1>0 DEF RwTick, rwFrame, Steps, appendVars, chanVars, bwVars, fileVars, syncVars, lifeVars, lockVars
<1>17. RwFlush => Steps'
  BY <1>0 DEF RwFlush, rwFrame, Steps, FlushAndSync, appendVars, chanVars, bwVars, fileVars, syncVars, lifeVars, lockVars
<1>18. RwFlushError => Steps'
  BY <1>0 DEF RwFlushError, rwFrame, Steps, FlushBatchLocked, WriterFlush, appendVars, chanVars, bwVars, fileVars, syncVars, lifeVars, lockVars
<1>19. RwSwap => Steps'
  BY <1>0 DEF RwSwap, rwFrame, Steps, appendVars, chanVars, bwVars, fileVars, syncVars, lifeVars, lockVars
<1>20. RwSwapError => Steps'
  BY <1>0 DEF RwSwapError, rwFrame, Steps, appendVars, chanVars, bwVars, fileVars, syncVars, lifeVars, lockVars
<1>21. RwLower => Steps'
  BY <1>0 DEF RwLower, rwFrame, Steps, appendVars, chanVars, bwVars, fileVars, syncVars, lifeVars, lockVars
<1>22. RwDone => Steps'
  BY <1>0 DEF RwDone, rwFrame, Steps, appendVars, chanVars, bwVars, fileVars, syncVars, lifeVars, lockVars
<1>23. SyncCheck => Steps'
  BY <1>0 DEF SyncCheck, syFrame, Steps, appendVars, chanVars, bwVars, fileVars, syncVars, lifeVars, lockVars
<1>24. SyncDrain => Steps'
  BY <1>0 DEF SyncDrain, syFrame, Steps, appendVars, chanVars, bwVars, fileVars, syncVars, lifeVars, lockVars
<1>25. SyncRun => Steps'
  BY <1>0 DEF SyncRun, syFrame, Steps, WriterFlush, appendVars, chanVars, bwVars, fileVars, syncVars, lifeVars, lockVars
<1>26. TrStart => Steps'
  BY <1>0 DEF TrStart, trFrame, Steps, appendVars, chanVars, bwVars, fileVars, syncVars, lifeVars, lockVars
<1>27. TrDrain => Steps'
  BY <1>0 DEF TrDrain, trFrame, Steps, appendVars, chanVars, bwVars, fileVars, syncVars, lifeVars, lockVars
<1>28. TrFlush => Steps'
  BY <1>0 DEF TrFlush, trFrame, Steps, FlushBatchLocked, appendVars, chanVars, bwVars, fileVars, syncVars, lifeVars, lockVars
<1>29. TrClose \/ TrRemove \/ TrError => Steps'
  BY <1>0 DEF TrClose, TrRemove, TrError, trFrame, Steps, appendVars, chanVars, bwVars, fileVars, syncVars, lifeVars, lockVars
<1>30. TrSwap => Steps'
  BY <1>0 DEF TrSwap, trFrame, Steps, appendVars, chanVars, bwVars, fileVars, syncVars, lifeVars, lockVars
<1>31. CloseBuffer => Steps'
  BY <1>0 DEF CloseBuffer, clFrame, Steps, appendVars, chanVars, bwVars, fileVars, syncVars, lifeVars, lockVars
<1>32. ParentCancel => Steps'
  BY <1>0 DEF ParentCancel, clFrame, Steps, appendVars, chanVars, bwVars, fileVars, syncVars, lifeVars, lockVars
<1>33. CloseMark => Steps'
  BY <1>0 DEF CloseMark, clFrame, Steps, appendVars, chanVars, bwVars, fileVars, syncVars, lifeVars, lockVars
<1>34. CloseCancel => Steps'
  BY <1>0 DEF CloseCancel, clFrame, Steps, appendVars, chanVars, bwVars, fileVars, syncVars, lifeVars, lockVars
<1>35. CloseWait => Steps'
  BY <1>0 DEF CloseWait, clFrame, Steps, appendVars, chanVars, bwVars, fileVars, syncVars, lifeVars, lockVars
<1>36. CloseFinal => Steps'
  BY <1>0 DEF CloseFinal, clFrame, Steps, FlushAndSync, appendVars, chanVars, bwVars, fileVars, syncVars, lifeVars, lockVars
<1>37. Crash => Steps'
  BY <1>0 DEF Crash, Steps, Volatile, appendVars, chanVars, bwVars, fileVars, syncVars, lifeVars, lockVars
<1>38. DiskFails => Steps'
  BY <1>0 DEF DiskFails, Steps, appendVars, chanVars, bwVars, fileVars, syncVars, lifeVars, lockVars
<1> QED BY <1>1, <1>2, <1>3, <1>4, <1>5, <1>6, <1>7, <1>8, <1>9, <1>10, <1>11, <1>12, <1>13, <1>14, <1>15, <1>16, <1>17, <1>18, <1>19, <1>20, <1>21, <1>22, <1>23, <1>24, <1>25, <1>26, <1>27, <1>28, <1>29, <1>30, <1>31, <1>32, <1>33, <1>34, <1>35, <1>36, <1>37, <1>38 DEF Next, BatchWriter, PeriodicSync, RotateWatcher, SyncCall, TruncateCall, CloseCall

\* The invariant is inductive, and every step refines the abstract log.
LEMMA Inductive ==
  ASSUME IInv, LogOrdered, [Next]_vars
  PROVE  IInv' /\ LogOrdered' /\ [Abstract!LogNext]_Abstract!logVars
<1>1. CASE Next
  <2>1. PlacesTyped /\ (TypeOK' => Form)
    BY <1>1, StepGood DEF Good
  <2>2. TypeOK'
    BY <1>1, <2>1, PlacesEnough
  <2>3. Steps'
    BY <1>1, StepSteps
  <2>4. LogOrdered'
    BY <2>1, <2>2, FormKeepsOrder DEF IInv
  <2>5. Abstract!LogNext
    BY <2>1, <2>2, <2>4, FormRefines DEF IInv
  <2> QED BY <2>2, <2>3, <2>4, <2>5 DEF IInv
<1>2. CASE UNCHANGED vars
  <2>1. UNCHANGED <<accepted, apc, buffer, bufferClosed, hand, bpc, leaving, pendingBatch, bufio,
                    writer, file, synced, size, lost, retired, rotating, ppc, rpc>>
    BY <1>2 DEF vars, appendVars, chanVars, bwVars, fileVars
  <2>2. UNCHANGED <<closeMutex, batchMutex, ctxDone, closed, kpc, spc, target, tpc, down>>
    BY <1>2 DEF vars, lockVars, lifeVars, syncVars
  <2>3. TypeOK'
    BY <2>1, <2>2 DEF IInv, TypeOK
  <2>4. Steps'
    BY <2>1, <2>2 DEF IInv, Steps
  <2>5. Log' = Log
    BY <2>1 DEF Log
  <2>6. LogOrdered'
    BY <2>1, <2>2, <2>5 DEF LogOrdered
  <2>7. UNCHANGED Abstract!logVars
    BY <2>1, <2>2, <2>5 DEF Abstract!logVars
  <2> QED BY <2>3, <2>4, <2>6, <2>7 DEF IInv
<1> QED BY <1>1, <1>2

\* Every variable keeps its type, whatever the goroutines, the callers and the
\* environment do.
THEOREM TypeCorrect == Spec => []TypeOK
<1>1. Init => IInv /\ LogOrdered
  BY InitHolds
<1>2. IInv /\ LogOrdered /\ [Next]_vars => IInv' /\ LogOrdered'
  BY Inductive
<1>3. IInv => TypeOK
  BY DEF IInv
<1> QED BY <1>1, <1>2, <1>3, PTL DEF Spec

\* The entries keep the order in which Append accepted them, none is duplicated
\* and none disappears without being on record as lost, through every
\* interleaving of batchWriter, periodicSync, rotation, Sync, Truncate and Close.
THEOREM KeepsOrder == Spec => []LogOrdered
<1>1. Init => IInv /\ LogOrdered
  BY InitHolds
<1>2. IInv /\ LogOrdered /\ [Next]_vars => IInv' /\ LogOrdered'
  BY Inductive
<1> QED BY <1>1, <1>2, PTL DEF Spec

\* The log implements AbstractLog: a crash leaves a prefix that holds what was
\* fsynced, and an entry is given up only before it is on disk, and only for an
\* unwritable entry in its batch or a file that has gone.
THEOREM Implements == Spec => ImplementsAbstractLog
<1>1. Init => IInv /\ LogOrdered /\ Abstract!LogInit
  BY InitHolds
<1>2. IInv /\ LogOrdered /\ [Next]_vars
        => IInv' /\ LogOrdered' /\ [Abstract!LogNext]_Abstract!logVars
  BY Inductive
<1> QED BY <1>1, <1>2, PTL DEF Spec, ImplementsAbstractLog, Abstract!LogSpec

=============================================================================
