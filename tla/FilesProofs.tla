---------------------------- MODULE FilesProofs ----------------------------
(***************************************************************************)
(* What can be relied on in files that crashes, power cuts and failing     *)
(* writes cut off: the log, in Recovery, and the backups, in Backup, two   *)
(* components that share nothing.                                          *)
(*                                                                         *)
(* The log: for any number of writes, starts and units of an entry, a      *)
(* start recovers what precedes the first torn entry and invents nothing,  *)
(* does not go behind the state file, and where types are faithful, what   *)
(* it recovers is read as what was written.                                *)
(*                                                                         *)
(* The backups: for any number of backups to keep, of cleaners at work at  *)
(* a time, of snapshots and crashes, also when backups share a name, the   *)
(* clock steps back and removals fail, the newest are never removed; a     *)
(* whole one is among those left; and no more than KeepCount are left      *)
(* where nothing fails.                                                    *)
(***************************************************************************)
EXTENDS Recovery, Backup, SequenceTheorems, FiniteSetTheorems,
        WellFoundedInduction, TLAPS

USE RecoveryAssumption

\* The units of an entry.
Size(id) == HeaderUnits + sizes[id]

\* The log is made of entries, each whole but for its end: a unit stands behind
\* those of its entry that come before it,
Framed ==
  \A i \in DOMAIN file :
    /\ file[i].unit \in 1 .. Size(file[i].id) /\ file[i].unit <= i
    /\ \A u \in 1 .. file[i].unit :
         file[i - file[i].unit + u] = [id |-> file[i].id, unit |-> u]

\* the entries stand in the order they were written, each of them once,
Sorted ==
  \A i, j \in DOMAIN file : i < j =>
    \/ file[i].id < file[j].id
    \/ file[i].id = file[j].id /\ file[j].unit = file[i].unit + (j - i)

\* and those that wait were written later.
Queued ==
  /\ \A k \in DOMAIN queue : \A i \in DOMAIN file : file[i].id < queue[k]
  /\ \A k, l \in DOMAIN queue : k < l => queue[k] < queue[l]
  /\ \A i \in DOMAIN file : file[i].id <= Len(entries)
  /\ queue # <<>> => phase = "run" /\ mem.id = Len(entries)

\* What was read is whole, before the place of the reader.
ReadBefore ==
  /\ \A k \in DOMAIN got : \E i \in 1 .. pos :
       WholeAt(i) /\ file[i].id = got[k] /\ i + Size(got[k]) - 1 <= pos
  /\ \A k, l \in DOMAIN got : k < l => got[k] < got[l]
  /\ phase = "down" => pos = 0 /\ got = <<>> /\ starts < MaxStarts
  /\ phase \in {"read", "apply"} => mem = saved

\* A reader that has met no torn entry is at the start of one, and has read
\* every entry before it.
AtEntry ==
  /\ \A i \in 1 .. pos : file[i].id \in ToSet(got)
  /\ pos < Len(file) => file[pos + 1].unit = 1

\* One that has met one has read all before it.
Reading ==
  /\ phase = "read" => AtEntry \/ BeforeTear \subseteq ToSet(got)
  /\ PrefixRecovered

\* The inductive invariant of the log.
FileIInv == TypeOK /\ Framed /\ Sorted /\ Queued /\ ReadBefore /\ Reading

\* What a value of a faithful type may become, and that memory and the state
\* file hold something that a write has become.
Forms(t) == {t, Json(t)}
Kept(s) == s # Nothing => s.id \in DOMAIN entries /\ s.value \in Forms(entries[s.id])
FormsKept == Kept(mem) /\ Kept(saved)

-----------------------------------------------------------------------------
(***************************************************************************)
(* What becomes of values.                                                 *)
(***************************************************************************)

\* What JSON makes of a member,
LEMMA JsonMemberIs ==
  /\ \A m \in Numbers : JsonMember(m) = "float64"
  /\ JsonMember("bytes") = "base64"
  /\ JsonMember("[]int") = "[]any of float64" /\ JsonMember("[]string") = "[]any of string"
  /\ \A m : m \notin Numbers \cup {"bytes", "[]int", "[]string"} => JsonMember(m) = m
<1>1. ASSUME NEW m \in Numbers PROVE JsonMember(m) = "float64"
  <2>1. m # "bytes" /\ m # "[]int" /\ m # "[]string"
    BY DEF Numbers, Integral, Floating
  <2> QED
    BY <2>1, Zenon DEF JsonMember
<1>2. /\ JsonMember("bytes") = "base64"
      /\ JsonMember("[]int") = "[]any of float64" /\ JsonMember("[]string") = "[]any of string"
  <2>1. \A m \in {"bytes", "[]int", "[]string"} : m \notin Numbers
    BY DEF Numbers, Integral, Floating
  <2>2. "bytes" # "[]int" /\ "bytes" # "[]string" /\ "[]int" # "[]string"
    OBVIOUS
  <2> QED
    BY <2>1, <2>2, Zenon DEF JsonMember
<1>3. ASSUME NEW m, m \notin Numbers, m # "bytes", m # "[]int", m # "[]string"
      PROVE  JsonMember(m) = m
  BY <1>3, Zenon DEF JsonMember
<1> QED
  BY <1>1, <1>2, <1>3

\* and of a value.
LEMMA JsonClassIs ==
  /\ \A c : c \notin Composites => JsonClass(c) = JsonMember(c)
  /\ \A c \in Composites : JsonClass(c) = IF c \in {"struct", "map"} THEN "map" ELSE "list"
<1>1. ASSUME NEW c, c \notin Composites PROVE JsonClass(c) = JsonMember(c)
  BY <1>1, Zenon DEF JsonClass
<1>2. ASSUME NEW c \in Composites
      PROVE  JsonClass(c) = IF c \in {"struct", "map"} THEN "map" ELSE "list"
  BY Zenon DEF JsonClass
<1> QED
  BY <1>1, <1>2

\* JSON makes values of values.
LEMMA JsonTyped == ASSUME NEW v \in Values PROVE Json(v) \in Values
<1>1. \A m \in Scalars : JsonMember(m) \in Scalars /\ m \notin Composites
  BY JsonMemberIs DEF Scalars, Numbers, Integral, Floating, Composites
<1>2. \A m \in Members : JsonMember(m) \in Members
  BY JsonMemberIs DEF Scalars, Numbers, Integral, Floating, Members, Slices
<1>3. /\ JsonMember("none") = "none" /\ JsonMember("nil") = "nil"
      /\ "none" \notin Composites /\ "nil" \notin Composites
  <2>1. \A m \in {"none", "nil"} : m \notin Numbers \cup {"bytes", "[]int", "[]string"}
    BY DEF Numbers, Integral, Floating
  <2>2. JsonMember("none") = "none" /\ JsonMember("nil") = "nil"
    BY <2>1, JsonMemberIs
  <2> QED
    BY <2>2 DEF Composites
<1>4. CASE v = Nil
  BY <1>3, <1>4, JsonClassIs DEF Json, Nil, Scalar, Values
<1>5. ASSUME NEW c \in Scalars, v = Scalar(c) PROVE Json(v) \in Values
  <2>1. JsonClass(c) \in Scalars
    BY <1>1, JsonClassIs
  <2>2. Json(v) = Scalar(JsonClass(c))
    BY <1>3, <1>5 DEF Json, Scalar
  <2> QED
    BY <2>1, <2>2 DEF Values
<1>6. CASE v \in [class : Composites, of : Members]
  <2>1. JsonClass(v.class) \in Composites /\ JsonMember(v.of) \in Members
    BY <1>2, <1>6, JsonClassIs DEF Composites
  <2> QED
    BY <2>1 DEF Json, Values
<1> QED
  BY <1>4, <1>5, <1>6 DEF Values

\* What comes back from the log.
LEMMA LoggedIs ==
  ASSUME NEW v
  PROVE  /\ v.class \in {"int", "int64"} => Logged(v) = Scalar("int64")
         /\ v.class \in {"uint", "uint64"} => Logged(v) = Scalar("uint64")
         /\ v.class \in Floating => Logged(v) = Scalar("float64")
         /\ v.class \in {"bool", "string", "base64", "bytes", "nil"} => Logged(v) = v
         /\ v.class \notin Scalars \cup {"nil"} => Logged(v) = Json(v)
<1>1. /\ "tagInt" # "tagUint" /\ "tagInt" # "tagFloat" /\ "tagInt" # "own" /\ "tagInt" # "tagJSON"
      /\ "tagUint" # "tagFloat" /\ "tagUint" # "own" /\ "tagUint" # "tagJSON"
      /\ "tagFloat" # "own" /\ "tagFloat" # "tagJSON" /\ "own" # "tagJSON"
  OBVIOUS
<1>2. /\ \A p : Deserialized([tag |-> "tagInt", payload |-> p]) = Scalar("int64")
      /\ \A p : Deserialized([tag |-> "tagUint", payload |-> p]) = Scalar("uint64")
      /\ \A p : Deserialized([tag |-> "tagFloat", payload |-> p]) = Scalar("float64")
      /\ \A p : Deserialized([tag |-> "own", payload |-> p]) = p
      /\ \A p : Deserialized([tag |-> "tagJSON", payload |-> p]) = Json(p)
  <2> SUFFICES ASSUME NEW p
               PROVE  /\ Deserialized([tag |-> "tagInt", payload |-> p]) = Scalar("int64")
                      /\ Deserialized([tag |-> "tagUint", payload |-> p]) = Scalar("uint64")
                      /\ Deserialized([tag |-> "tagFloat", payload |-> p]) = Scalar("float64")
                      /\ Deserialized([tag |-> "own", payload |-> p]) = p
                      /\ Deserialized([tag |-> "tagJSON", payload |-> p]) = Json(p)
    OBVIOUS
  <2> QED
    BY <1>1, Zenon DEF Deserialized
<1>3. Serialized(v) =
        CASE v.class \in {"int", "int64"}   -> [tag |-> "tagInt", payload |-> v]
          [] v.class \in {"uint", "uint64"} -> [tag |-> "tagUint", payload |-> v]
          [] v.class \in Floating           -> [tag |-> "tagFloat", payload |-> v]
          [] v.class \in (Scalars \ Numbers) \cup {"nil"} -> [tag |-> "own", payload |-> v]
          [] OTHER                          -> [tag |-> "tagJSON", payload |-> v]
  BY Zenon DEF Serialized
<1> DEFINE c == v.class
<1>4. /\ c \in {"int", "int64"} => c \notin {"uint", "uint64"} /\ c \notin Floating
      /\ c \in {"uint", "uint64"} => c \notin {"int", "int64"} /\ c \notin Floating
      /\ c \in Floating => c \notin {"int", "int64"} /\ c \notin {"uint", "uint64"}
      /\ c \in {"int", "int64"} \/ c \in {"uint", "uint64"} \/ c \in Floating
           => c \notin (Scalars \ Numbers) \cup {"nil"}
      /\ c \in {"bool", "string", "base64", "bytes", "nil"}
           => /\ c \in (Scalars \ Numbers) \cup {"nil"} /\ c \notin Floating
              /\ c \notin {"int", "int64"} /\ c \notin {"uint", "uint64"}
      /\ c \notin Scalars \cup {"nil"}
           => /\ c \notin (Scalars \ Numbers) \cup {"nil"} /\ c \notin Floating
              /\ c \notin {"int", "int64"} /\ c \notin {"uint", "uint64"}
  BY DEF Scalars, Numbers, Integral, Floating
<1>5. /\ c \in {"int", "int64"} => Serialized(v) = [tag |-> "tagInt", payload |-> v]
      /\ c \in {"uint", "uint64"} => Serialized(v) = [tag |-> "tagUint", payload |-> v]
      /\ c \in Floating => Serialized(v) = [tag |-> "tagFloat", payload |-> v]
      /\ c \in {"bool", "string", "base64", "bytes", "nil"}
           => Serialized(v) = [tag |-> "own", payload |-> v]
      /\ c \notin Scalars \cup {"nil"} => Serialized(v) = [tag |-> "tagJSON", payload |-> v]
  BY <1>3, <1>4, Zenon
<1> QED
  BY <1>2, <1>5, Zenon DEF Logged

\* So the log makes values of values.
LEMMA LoggedTyped == ASSUME NEW v \in Values PROVE Logged(v) \in Values
<1>1. \A c \in {"int64", "uint64", "float64"} : Scalar(c) \in Values
  BY DEF Values, Scalars, Numbers, Integral, Floating
<1>2. \/ v.class \in {"int", "int64"} \/ v.class \in {"uint", "uint64"} \/ v.class \in Floating
      \/ v.class \in {"bool", "string", "base64", "bytes", "nil"}
      \/ v.class \notin Scalars \cup {"nil"}
  BY DEF Scalars, Numbers, Integral
<1> QED
  BY <1>1, <1>2, LoggedIs, JsonTyped

\* The types that the log and JSON keep as they are, or make maps of.
LEMMA FaithfulIs ==
  ASSUME NEW t \in Faithful
  PROVE  \/ \E c \in {"string", "bool", "float64"} : t = Scalar(c)
         \/ \E m \in {"string", "bool", "float64"} : t = [class |-> "map", of |-> m]
         \/ \E m \in Numbers \cup {"string", "bool", "[]string"} :
              t = [class |-> "struct", of |-> m]
  BY DEF Faithful

\* What is neither a struct nor the like stays itself on every way.
LEMMA PlainStays ==
  ASSUME NEW t,
         \/ \E c \in {"string", "bool", "float64"} : t = Scalar(c)
         \/ \E m \in {"string", "bool", "float64"} : t = [class |-> "map", of |-> m]
  PROVE  Json(t) = t /\ Logged(t) = t /\ Copied(t) = t
<1>1. \A m \in {"string", "bool", "float64", "none"} : JsonMember(m) = m
  <2>1. \A m \in {"string", "bool", "none"} : m \notin Numbers \cup {"bytes", "[]int", "[]string"}
    BY DEF Numbers, Integral, Floating
  <2>2. "float64" \in Numbers
    BY DEF Numbers, Floating
  <2> QED
    BY <2>1, <2>2, JsonMemberIs
<1>2. ASSUME NEW c \in {"string", "bool", "float64"}, t = Scalar(c)
      PROVE  Json(t) = t /\ Logged(t) = t /\ Copied(t) = t
  <2>1. c \notin Composites /\ c \in Scalars
    BY DEF Composites, Scalars, Numbers, Floating
  <2>2. Json(t) = t
    BY <1>1, <1>2, <2>1, JsonClassIs DEF Json, Scalar
  <2>3. Logged(t) = t
    <3>1. t.class = c /\ (c = "float64" => c \in Floating)
      BY <1>2 DEF Scalar, Floating
    <3> QED
      BY <1>2, <3>1, LoggedIs
  <2>4. Copied(t) = t
    <3>1. t.class \in Scalars \cup {"nil"} /\ t.class \notin {"map", "list"}
      BY <1>2, <2>1 DEF Scalar
    <3> QED
      BY <3>1, Zenon DEF Copied
  <2> QED
    BY <2>2, <2>3, <2>4
<1>3. ASSUME NEW m \in {"string", "bool", "float64"}, t = [class |-> "map", of |-> m]
      PROVE  Json(t) = t /\ Logged(t) = t /\ Copied(t) = t
  <2>1. Json(t) = t
    BY <1>1, <1>3, JsonClassIs DEF Json, Composites
  <2>2. "map" \notin Scalars \cup {"nil"} /\ m \notin Slices
    BY DEF Scalars, Numbers, Integral, Floating, Slices
  <2>3. Logged(t) = t
    BY <1>3, <2>1, <2>2, LoggedIs
  <2>4. Copied(t) = [t EXCEPT !.of = CopiedMember(@)]
    <3>1. t.class \notin Scalars \cup {"nil"} /\ t.class \in {"map", "list"}
      BY <1>3, <2>2
    <3> QED
      BY <3>1, Zenon DEF Copied
  <2>5. Copied(t) = t
    BY <1>3, <2>2, <2>4 DEF CopiedMember
  <2> QED
    BY <2>1, <2>3, <2>5
<1> QED
  BY <1>2, <1>3

\* What a struct becomes: a map of its members, and that is what it stays.
LEMMA StructBecomes ==
  ASSUME NEW m \in Numbers \cup {"string", "bool", "[]string"}, NEW t,
         t = [class |-> "struct", of |-> m]
  PROVE  /\ Json(t) = [class |-> "map", of |-> JsonMember(m)]
         /\ Logged(t) = Json(t) /\ Copied(t) = Json(t)
         /\ Json(Json(t)) = Json(t) /\ Copied(Json(t)) = Json(t)
         /\ Field(JsonMember(m), m) = m
<1>1. "struct" \notin Scalars \cup {"nil"} /\ "map" \notin Scalars \cup {"nil"}
  BY DEF Scalars, Numbers, Integral, Floating
<1>2. Json(t) = [class |-> "map", of |-> JsonMember(m)]
  BY JsonClassIs DEF Json, Composites
<1>3. Logged(t) = Json(t)
  BY <1>1, LoggedIs
<1>4. Copied(t) = Json(t)
  <2>1. t.class \notin Scalars \cup {"nil"} /\ t.class \notin {"map", "list"}
    BY <1>1
  <2> QED
    BY <2>1, Zenon DEF Copied
<1>5. /\ m \in Numbers => JsonMember(m) = "float64"
      /\ m \in {"string", "bool"} => JsonMember(m) = m
      /\ m = "[]string" => JsonMember(m) = "[]any of string"
  <2>1. \A s \in {"string", "bool"} : s \notin Numbers \cup {"bytes", "[]int", "[]string"}
    BY DEF Numbers, Integral, Floating
  <2> QED
    BY <2>1, JsonMemberIs
<1>6. \A s \in {"float64", "string", "bool", "[]any of string"} : JsonMember(s) = s
  <2>1. \A s \in {"string", "bool", "[]any of string"} :
          s \notin Numbers \cup {"bytes", "[]int", "[]string"}
    BY DEF Numbers, Integral, Floating
  <2>2. "float64" \in Numbers
    BY DEF Numbers, Floating
  <2> QED
    BY <2>1, <2>2, JsonMemberIs
<1>7. JsonMember(JsonMember(m)) = JsonMember(m)
  <2>1. JsonMember(m) \in {"float64", "string", "bool", "[]any of string"}
    BY <1>5
  <2> QED
    BY <1>6, <2>1, Zenon
<1>8. Json(Json(t)) = Json(t)
  BY <1>2, <1>7, JsonClassIs DEF Json, Composites
<1>9. Copied(Json(t)) = Json(t)
  <2> DEFINE j == Json(t)
  <2>1. j.class \notin Scalars \cup {"nil"} /\ j.class \in {"map", "list"}
    BY <1>1, <1>2
  <2>2. Copied(j) = [j EXCEPT !.of = CopiedMember(@)]
    BY <2>1, Zenon DEF Copied
  <2>3. CopiedMember(JsonMember(m)) = JsonMember(m)
    BY <1>7 DEF CopiedMember
  <2> QED
    BY <1>2, <2>2, <2>3
<1>10. Field(JsonMember(m), m) = m
  <2>1. CASE JsonMember(m) = m
    <3>1. /\ JsonMember(m) # "base64" /\ ~(m # m)
      <4>1. \A s \in {"float64", "[]any of string", "string", "bool"} : s # "base64"
        OBVIOUS
      <4> QED
        BY <1>5, <4>1
    <3> QED
      BY <2>1, <3>1, Zenon DEF Field
  <2>2. CASE m \in Numbers /\ JsonMember(m) # m
    <3>1. /\ JsonMember(m) = "float64" /\ m # "float64" /\ "float64" \in Numbers
          /\ m # "string" /\ m # "bytes" /\ m \notin Slices
      BY <1>5, <2>2 DEF Numbers, Integral, Floating, Slices
    <3>2. NumberField("float64", m) = m
      BY <3>1 DEF NumberField
    <3> QED
      BY <2>2, <3>1, <3>2, Zenon DEF Field
  <2>3. CASE m = "[]string"
    <3>1. /\ JsonMember(m) = "[]any of string" /\ "[]string" # "[]any of string"
          /\ "[]string" # "string" /\ "[]string" \notin Numbers /\ "[]string" # "bytes"
          /\ "[]string" \in Slices /\ "[]string" # "[]int" /\ "[]any of string" # "[]any of float64"
      BY <1>5, <2>3 DEF Numbers, Integral, Floating, Slices
    <3>2. SliceField("[]any of string", "[]string") = "[]string"
      BY <3>1, Zenon DEF SliceField
    <3> QED
      BY <2>3, <3>1, <3>2, Zenon DEF Field
  <2> QED
    BY <1>5, <2>1, <2>2, <2>3
<1> QED
  BY <1>2, <1>3, <1>4, <1>8, <1>9, <1>10

\* Reading a struct back, or the map that it became.
LEMMA StructIsRead ==
  ASSUME NEW m \in Numbers \cup {"string", "bool", "[]string"}, NEW t, NEW j,
         t = [class |-> "struct", of |-> m], j = [class |-> "map", of |-> JsonMember(m)]
  PROVE  ReadInto(t, t) = Ok(t) /\ ReadInto(j, t) = Ok(t)
<1>1. Copied(t) = j /\ Copied(j) = j /\ Field(j.of, t.of) = t.of
  BY StructBecomes
<1>2. TypeOf(t) = t /\ TypeOf(j) = Scalar("map")
  <2>1. /\ "struct" # "base64" /\ "map" # "base64" /\ "struct" \notin {"map", "list"}
        /\ t.class = "struct" /\ j.class = "map"
    OBVIOUS
  <2> QED
    BY <2>1, Zenon DEF TypeOf
<1>3. t # Nil /\ j # Nil /\ TypeOf(j) # TypeOf(t) /\ t.class # "map"
  BY <1>2 DEF Nil, Scalar
<1>4. ReadInto(t, t) = Ok(t)
  BY <1>1, <1>2, <1>3 DEF ReadInto
<1>5. [t EXCEPT !.of = t.of] = t
  OBVIOUS
<1>6. ReadInto(j, t) = Ok(t)
  BY <1>1, <1>3, <1>5 DEF ReadInto
<1> QED
  BY <1>4, <1>6

\* A faithful value is read as it was written, whatever has become of it.
LEMMA FormsAreRead ==
  ASSUME NEW t \in Faithful, NEW v \in Forms(t)
  PROVE  /\ Json(v) \in Forms(t) /\ Copied(v) \in Forms(t) /\ Logged(t) \in Forms(t)
         /\ ReadInto(v, t) = ReadInto(t, t)
<1>1. CASE Json(t) = t /\ Logged(t) = t /\ Copied(t) = t
  BY <1>1 DEF Forms
<1>2. ASSUME NEW m \in Numbers \cup {"string", "bool", "[]string"},
             t = [class |-> "struct", of |-> m]
      PROVE  /\ Json(v) \in Forms(t) /\ Copied(v) \in Forms(t) /\ Logged(t) \in Forms(t)
             /\ ReadInto(v, t) = ReadInto(t, t)
  <2>1. /\ Json(t) = [class |-> "map", of |-> JsonMember(m)]
        /\ Logged(t) = Json(t) /\ Copied(t) = Json(t)
        /\ Json(Json(t)) = Json(t) /\ Copied(Json(t)) = Json(t)
    BY <1>2, StructBecomes
  <2>2. ReadInto(t, t) = Ok(t) /\ ReadInto(Json(t), t) = Ok(t)
    BY <1>2, <2>1, StructIsRead
  <2> QED
    BY <2>1, <2>2 DEF Forms
<1> QED
  BY <1>1, <1>2, FaithfulIs, PlainStays

-----------------------------------------------------------------------------
(***************************************************************************)
(* The units of the file.                                                  *)
(***************************************************************************)

\* An entry has a header and some data.
LEMMA SizeIs ==
  ASSUME TypeOK, NEW id \in Ids
  PROVE  Size(id) \in 3 .. HeaderUnits + MaxBody
<1>1. sizes[id] \in 1 .. MaxBody /\ MaxBody \in Nat
  BY DEF TypeOK
<1> QED
  BY <1>1 DEF Size, HeaderUnits

\* What writeEntry writes.
LEMMA FrameIs ==
  ASSUME TypeOK, NEW id \in Ids
  PROVE  /\ Frame(id) \in Seq(Units) /\ Len(Frame(id)) = Size(id)
         /\ \A u \in 1 .. Size(id) : Frame(id)[u] = [id |-> id, unit |-> u]
<1>1. Size(id) \in 3 .. HeaderUnits + MaxBody /\ MaxBody \in Nat
  BY SizeIs
<1>2. \A u \in 1 .. Size(id) : [id |-> id, unit |-> u] \in Units
  BY <1>1 DEF Units, HeaderUnits
<1>3. Frame(id) \in [1 .. Size(id) -> Units]
  BY <1>2 DEF Frame, Size
<1>4. Frame(id) \in Seq(Units) /\ Len(Frame(id)) = Size(id)
  BY <1>1, <1>3, SeqDef
<1> QED
  BY <1>4 DEF Frame, Size

\* Two pieces are the same if they are so unit by unit.
LEMMA PieceIs ==
  ASSUME NEW f \in Seq(Units), NEW i \in 1 .. Len(f), NEW g \in Seq(Units),
         i + Len(g) - 1 <= Len(f)
  PROVE  SubSeq(f, i, i + Len(g) - 1) = g <=> \A u \in 1 .. Len(g) : f[i + u - 1] = g[u]
<1>1. Len(g) \in Nat /\ Len(f) \in Nat
  BY LenProperties
<1>2. \A k \in i .. i + Len(g) - 1 : f[k] \in Units
  BY <1>1, ElementOfSeq
<1>3. /\ SubSeq(f, i, i + Len(g) - 1) \in Seq(Units)
      /\ Len(SubSeq(f, i, i + Len(g) - 1))
           = IF i <= i + Len(g) - 1 THEN (i + Len(g) - 1) - i + 1 ELSE 0
      /\ \A u \in 1 .. (i + Len(g) - 1) - i + 1 :
           SubSeq(f, i, i + Len(g) - 1)[u] = f[i + u - 1]
  <2>1. i \in Int /\ i + Len(g) - 1 \in Int
    BY <1>1
  <2> HIDE DEF Units
  <2> QED
    BY <1>2, <2>1, SubSeqProperties
<1>4. Len(SubSeq(f, i, i + Len(g) - 1)) = Len(g)
  BY <1>1, <1>3
<1>5. \A u \in 1 .. Len(g) : SubSeq(f, i, i + Len(g) - 1)[u] = f[i + u - 1]
  BY <1>1, <1>3
<1> QED
  BY <1>3, <1>4, <1>5, SeqEqual

\* An entry that is whole at a place.
LEMMA WholeIs ==
  ASSUME TypeOK, NEW i \in 1 .. Len(file)
  PROVE  WholeAt(i) <=>
           /\ file[i].unit = 1 /\ i + Size(file[i].id) - 1 <= Len(file)
           /\ zeros \cap i .. i + Size(file[i].id) - 1 = {}
           /\ \A u \in 1 .. Size(file[i].id) :
                file[i + u - 1] = [id |-> file[i].id, unit |-> u]
<1> DEFINE id == file[i].id
<1>1. id \in Ids
  <2>1. file \in Seq(Units)
    BY DEF TypeOK
  <2>2. file[i] \in Units
    BY <2>1, ElementOfSeq
  <2> QED
    BY <2>2 DEF Units
<1>2. /\ Frame(id) \in Seq(Units) /\ Len(Frame(id)) = Size(id)
      /\ \A u \in 1 .. Size(id) : Frame(id)[u] = [id |-> id, unit |-> u]
  BY <1>1, FrameIs
<1>3. WholeAt(i) <=> /\ file[i].unit = 1 /\ i + Size(id) - 1 <= Len(file)
                     /\ zeros \cap i .. i + Size(id) - 1 = {}
                     /\ SubSeq(file, i, i + Size(id) - 1) = Frame(id)
  BY DEF WholeAt, Size
<1>4. ASSUME i + Size(id) - 1 <= Len(file)
      PROVE  SubSeq(file, i, i + Size(id) - 1) = Frame(id)
               <=> \A u \in 1 .. Size(id) : file[i + u - 1] = [id |-> id, unit |-> u]
  <2>1. file \in Seq(Units)
    BY DEF TypeOK
  <2> DEFINE g == Frame(id)
  <2>2. g \in Seq(Units) /\ i + Len(g) - 1 <= Len(file) /\ Len(g) = Size(id)
    BY <1>2, <1>4
  <2>3. \A u \in 1 .. Size(id) : g[u] = [id |-> id, unit |-> u]
    BY <1>2
  <2> HIDE DEF g, id
  <2>4. SubSeq(file, i, i + Len(g) - 1) = g <=> \A u \in 1 .. Len(g) : file[i + u - 1] = g[u]
    BY <2>1, <2>2, PieceIs
  <2>5. SubSeq(file, i, i + Size(id) - 1) = g
          <=> \A u \in 1 .. Size(id) : file[i + u - 1] = [id |-> id, unit |-> u]
    BY <2>2, <2>3, <2>4
  <2> QED
    BY <2>5 DEF g
<1> QED
  BY <1>3, <1>4

\* What is in the file.
LEMMA UnitIs ==
  ASSUME TypeOK, NEW i \in DOMAIN file
  PROVE  /\ i \in 1 .. Len(file) /\ file[i] \in Units
         /\ file[i].id \in Ids /\ file[i].unit \in Nat
<1>1. file \in Seq(Units)
  BY DEF TypeOK
<1>2. i \in 1 .. Len(file)
  BY <1>1, LenProperties
<1>3. file[i] \in Units
  BY <1>1, <1>2, ElementOfSeq
<1> QED
  BY <1>2, <1>3 DEF Units

-----------------------------------------------------------------------------
(***************************************************************************)
(* What is appended, and what a crash cuts off.                            *)
(***************************************************************************)

\* A part of an entry that was written later than all that is in the file.
LEMMA Extended ==
  ASSUME TypeOK, Framed, Sorted,
         NEW h \in Ids, NEW n \in 0 .. Size(h), NEW part \in Seq(Units), Len(part) = n,
         \A u \in 1 .. n : part[u] = [id |-> h, unit |-> u],
         \A i \in DOMAIN file : file[i].id < h,
         file' = file \o part, sizes' = sizes
  PROVE  /\ file' \in Seq(Units) /\ Len(file') = Len(file) + n
         /\ \A i \in 1 .. Len(file) : file'[i] = file[i]
         /\ \A i \in DOMAIN file' : file'[i].id <= h
         /\ Framed' /\ Sorted'
<1>1. Size(h) \in Nat /\ file \in Seq(Units) /\ Len(file) \in Nat /\ DOMAIN file = 1 .. Len(file)
  <2>1. file \in Seq(Units)
    BY DEF TypeOK
  <2>2. Size(h) \in Nat
    BY SizeIs
  <2> QED
    BY <2>1, <2>2, LenProperties
<1>2. /\ file' \in Seq(Units) /\ Len(file') = Len(file) + n
      /\ \A i \in 1 .. Len(file) + n :
           file'[i] = IF i <= Len(file) THEN file[i] ELSE part[i - Len(file)]
  BY <1>1, ConcatProperties
<1>3. DOMAIN file' = 1 .. Len(file) + n
  BY <1>2, LenProperties
<1>4. \A i \in 1 .. Len(file) : file'[i] = file[i]
  BY <1>1, <1>2
<1>5. \A i \in Len(file) + 1 .. Len(file) + n :
        file'[i] = [id |-> h, unit |-> i - Len(file)]
  BY <1>1, <1>2
<1>6. \A i \in 1 .. Len(file) : file[i].id \in Nat /\ file[i].id < h /\ file[i].unit \in Nat
  <2>1. \A i \in 1 .. Len(file) : file[i].id \in Ids /\ file[i].unit \in Nat
    BY <1>1, UnitIs
  <2> QED
    BY <1>1, <2>1 DEF Ids
<1>7. \A i \in DOMAIN file' : file'[i].id <= h
  BY <1>1, <1>3, <1>4, <1>5, <1>6 DEF Ids
<1>8. \A id : Size(id)' = Size(id)
  BY DEF Size
<1>9. Framed'
  <2> SUFFICES ASSUME NEW i \in DOMAIN file'
               PROVE  /\ file'[i].unit \in 1 .. Size(file'[i].id) /\ file'[i].unit <= i
                      /\ \A u \in 1 .. file'[i].unit :
                           file'[i - file'[i].unit + u] = [id |-> file'[i].id, unit |-> u]
    BY <1>8 DEF Framed
  <2>1. CASE i \in 1 .. Len(file)
    <3>1. /\ file[i].unit \in 1 .. Size(file[i].id) /\ file[i].unit <= i
          /\ \A u \in 1 .. file[i].unit :
               file[i - file[i].unit + u] = [id |-> file[i].id, unit |-> u]
      BY <1>1, <2>1 DEF Framed
    <3>2. \A u \in 1 .. file[i].unit : i - file[i].unit + u \in 1 .. Len(file)
      BY <1>1, <1>6, <2>1, <3>1
    <3> QED
      BY <1>4, <2>1, <3>1, <3>2
  <2>2. CASE i \in Len(file) + 1 .. Len(file) + n
    <3>1. file'[i].id = h /\ file'[i].unit = i - Len(file)
      BY <1>5, <2>2
    <3>2. i - Len(file) \in 1 .. Size(h) /\ i - Len(file) <= i
      BY <1>1, <2>2
    <3>3. ASSUME NEW u \in 1 .. i - Len(file)
          PROVE  file'[i - (i - Len(file)) + u] = [id |-> h, unit |-> u]
      <4>1. /\ Len(file) + u \in Len(file) + 1 .. Len(file) + n
            /\ i - (i - Len(file)) + u = Len(file) + u /\ Len(file) + u - Len(file) = u
        BY <1>1, <2>2
      <4> QED
        BY <1>5, <4>1
    <3> QED
      BY <3>1, <3>2, <3>3
  <2>3. i \in 1 .. Len(file) \/ i \in Len(file) + 1 .. Len(file) + n
    BY <1>1, <1>3
  <2> QED
    BY <2>1, <2>2, <2>3
<1>10. Sorted'
  <2> SUFFICES ASSUME NEW i \in DOMAIN file', NEW j \in DOMAIN file', i < j
               PROVE  \/ file'[i].id < file'[j].id
                      \/ file'[i].id = file'[j].id /\ file'[j].unit = file'[i].unit + (j - i)
    BY DEF Sorted
  <2>1. CASE j \in 1 .. Len(file)
    <3>1. i \in 1 .. Len(file)
      BY <1>1, <1>3, <2>1
    <3>2. \/ file[i].id < file[j].id
          \/ file[i].id = file[j].id /\ file[j].unit = file[i].unit + (j - i)
      BY <1>1, <2>1, <3>1 DEF Sorted
    <3> QED
      BY <1>4, <2>1, <3>1, <3>2
  <2>2. CASE i \in 1 .. Len(file) /\ j \in Len(file) + 1 .. Len(file) + n
    BY <1>4, <1>5, <1>6, <2>2
  <2>3. CASE i \in Len(file) + 1 .. Len(file) + n /\ j \in Len(file) + 1 .. Len(file) + n
    BY <1>1, <1>5, <2>3
  <2> QED
    BY <1>1, <1>3, <2>1, <2>2, <2>3
<1> QED
  BY <1>2, <1>4, <1>7, <1>9, <1>10

\* What is left after a crash.
LEMMA CutOff ==
  ASSUME TypeOK, Framed, Sorted, NEW n \in 0 .. Len(file),
         file' = SubSeq(file, 1, n), sizes' = sizes
  PROVE  /\ file' \in Seq(Units) /\ Len(file') = n /\ DOMAIN file' = 1 .. n
         /\ 1 .. n \subseteq DOMAIN file /\ \A i \in 1 .. n : file'[i] = file[i]
         /\ Framed' /\ Sorted'
<1>1. file \in Seq(Units) /\ Len(file) \in Nat /\ DOMAIN file = 1 .. Len(file)
  <2>1. file \in Seq(Units)
    BY DEF TypeOK
  <2> QED
    BY <2>1, LenProperties
<1>2. /\ file' \in Seq(Units) /\ Len(file') = n
      /\ \A i \in 1 .. n : file'[i] = file[i]
  <2>1. \A i \in 1 .. n : file[i] \in Units
    BY <1>1, ElementOfSeq
  <2>2. /\ SubSeq(file, 1, n) \in Seq(Units)
        /\ Len(SubSeq(file, 1, n)) = IF 1 <= n THEN n - 1 + 1 ELSE 0
        /\ \A i \in 1 .. n - 1 + 1 : SubSeq(file, 1, n)[i] = file[1 + i - 1]
    BY <2>1, SubSeqProperties
  <2>3. \A i \in 1 .. n : i \in 1 .. n - 1 + 1 /\ 1 + i - 1 = i
    BY <1>1
  <2> QED
    BY <1>1, <2>2, <2>3
<1>3. DOMAIN file' = 1 .. n
  BY <1>2, LenProperties
<1>4. Framed'
  <2> SUFFICES ASSUME NEW i \in 1 .. n
               PROVE  /\ file'[i].unit \in 1 .. Size(file'[i].id) /\ file'[i].unit <= i
                      /\ \A u \in 1 .. file'[i].unit :
                           file'[i - file'[i].unit + u] = [id |-> file'[i].id, unit |-> u]
    BY <1>3 DEF Framed, Size
  <2>1. i \in DOMAIN file /\ file[i].unit \in Nat
    BY <1>1, UnitIs
  <2>2. /\ file[i].unit \in 1 .. Size(file[i].id) /\ file[i].unit <= i
        /\ \A u \in 1 .. file[i].unit :
             file[i - file[i].unit + u] = [id |-> file[i].id, unit |-> u]
    BY <2>1 DEF Framed
  <2>3. \A u \in 1 .. file[i].unit : i - file[i].unit + u \in 1 .. n
    BY <2>1, <2>2
  <2> QED
    BY <1>2, <2>2, <2>3
<1>5. Sorted'
  BY <1>1, <1>2, <1>3 DEF Sorted
<1> QED
  BY <1>1, <1>2, <1>3, <1>4, <1>5

\* An entry stays whole when the file grows.
LEMMA StaysWhole ==
  ASSUME TypeOK, file' \in Seq(Units), Len(file') >= Len(file),
         sizes' = sizes, zeros' = zeros,
         \A i \in 1 .. Len(file) : file'[i] = file[i],
         NEW i \in 1 .. Len(file), WholeAt(i)
  PROVE  WholeAt(i)' /\ file'[i] = file[i]
<1> DEFINE id == file[i].id
           g  == Frame(id)
<1>1. /\ file[i] \in Units /\ id \in Ids /\ file \in Seq(Units)
      /\ Len(file) \in Nat /\ DOMAIN file = 1 .. Len(file)
  <2>1. file \in Seq(Units)
    BY DEF TypeOK
  <2> QED
    BY <2>1, LenProperties, UnitIs
<1>2. g \in Seq(Units) /\ Len(g) = Size(id) /\ Size(id) \in 3 .. HeaderUnits + MaxBody
  BY <1>1, FrameIs, SizeIs
<1>3. /\ file[i].unit = 1 /\ i + Len(g) - 1 <= Len(file) /\ SubSeq(file, i, i + Len(g) - 1) = g
      /\ zeros \cap i .. i + Len(g) - 1 = {}
  BY <1>2 DEF WholeAt, Size
<1>4. Len(file') \in Nat
  BY LenProperties
<1>5. Size(id) \in Nat
  BY <1>2 DEF HeaderUnits
<1>6. SubSeq(file', i, i + Len(g) - 1) = g
  <2> HIDE DEF g, id
  <2>1. \A u \in 1 .. Len(g) : file[i + u - 1] = g[u]
    BY <1>1, <1>2, <1>3, PieceIs
  <2>2. \A u \in 1 .. Len(g) : i + u - 1 \in 1 .. Len(file)
    BY <1>1, <1>2, <1>3, <1>5
  <2>3. \A u \in 1 .. Len(g) : file'[i + u - 1] = g[u]
    BY <2>1, <2>2
  <2>4. i \in 1 .. Len(file') /\ i + Len(g) - 1 <= Len(file')
    BY <1>1, <1>2, <1>3, <1>4, <1>5
  <2> QED
    BY <1>2, <2>3, <2>4, PieceIs
<1>7. i + Len(g) - 1 <= Len(file')
  BY <1>1, <1>2, <1>3, <1>4, <1>5
<1>8. /\ file'[i] = file[i] /\ Frame(id)' = g
      /\ Len(g) = HeaderUnits + sizes[id]
  BY <1>2 DEF Size, Frame
<1>9. i + (HeaderUnits + sizes[id]) - 1 <= Len(file')
  BY <1>7, <1>8
<1>10. /\ SubSeq(file', i, i + (HeaderUnits + sizes[id]) - 1) = Frame(id)'
       /\ zeros' \cap i .. i + (HeaderUnits + sizes[id]) - 1 = {}
  BY <1>3, <1>6, <1>8
<1> QED
  BY <1>3, <1>8, <1>9, <1>10 DEF WholeAt

\* What does not touch the file leaves entries where they are.
LEMMA Untouched ==
  ASSUME file' = file, sizes' = sizes, zeros' = zeros
  PROVE  /\ Framed' <=> Framed
         /\ Sorted' <=> Sorted
         /\ \A i : WholeAt(i)' <=> WholeAt(i)
         /\ \A id : Size(id)' = Size(id)
  BY DEF Framed, Sorted, WholeAt, Size, Frame

-----------------------------------------------------------------------------
(***************************************************************************)
(* The steps of a running process.                                         *)
(***************************************************************************)

\* A write comes after all others.
LEMMA WriteKeeps == ASSUME FileIInv, Write PROVE FileIInv'
<1>1. PICK v \in Written : /\ entries' = Append(entries, v)
                            /\ mem' = [id |-> Len(entries'), value |-> v]
  BY DEF Write
<1>2. /\ entries' \in Seq(Written) /\ Len(entries') = Len(entries) + 1 /\ Len(entries) \in Nat
      /\ Len(entries) < MaxWrites
  BY <1>1, AppendProperties, LenProperties DEF FileIInv, TypeOK, Write
<1>3. queue \in Seq(1 .. Len(entries')) /\ queue \in Seq(1 .. Len(entries))
      /\ \A k \in DOMAIN queue : queue[k] <= Len(entries)
  <2>1. queue \in Seq(1 .. Len(entries))
    BY DEF FileIInv, TypeOK
  <2>2. \A k \in 1 .. Len(queue) : queue[k] \in 1 .. Len(entries)
    BY <2>1, ElementOfSeq
  <2> QED
    BY <1>2, <2>1, <2>2, LenProperties
<1>4. /\ queue' \in Seq(1 .. Len(entries')) /\ Len(queue') = Len(queue) + 1
      /\ \A k \in 1 .. Len(queue) : queue'[k] = queue[k]
      /\ queue'[Len(queue) + 1] = Len(entries) + 1
  <2>1. Len(entries') \in 1 .. Len(entries')
    BY <1>2
  <2>2. queue' = Append(queue, Len(entries'))
    BY DEF Write
  <2>3. /\ Append(queue, Len(entries')) \in Seq(1 .. Len(entries'))
        /\ Len(Append(queue, Len(entries'))) = Len(queue) + 1
        /\ \A k \in 1 .. Len(queue) : Append(queue, Len(entries'))[k] = queue[k]
        /\ Append(queue, Len(entries'))[Len(queue) + 1] = Len(entries')
    BY <1>3, <2>1, AppendProperties
  <2> QED
    BY <1>2, <2>2, <2>3
<1>5. /\ DOMAIN queue' = 1 .. Len(queue) + 1 /\ DOMAIN queue = 1 .. Len(queue)
      /\ Len(queue) \in Nat
  BY <1>3, <1>4, LenProperties
<1>6. TypeOK'
  <2>1. mem' \in [id : 0 .. Len(entries'), value : Values]
    BY <1>1, <1>2
  <2>2. saved' \in [id : 0 .. Len(entries'), value : Values]
    BY <1>2 DEF FileIInv, TypeOK, Write
  <2>3. Len(entries') <= MaxWrites
    BY <1>2
  <2> QED
    BY <1>2, <1>4, <2>1, <2>2, <2>3 DEF FileIInv, TypeOK, Write
<1>7. /\ file' = file /\ zeros' = zeros /\ sizes' = sizes /\ pos' = pos /\ got' = got
      /\ phase' = "run" /\ starts' = starts
  BY DEF Write
<1>8. Framed' /\ Sorted'
  BY <1>7, Untouched DEF FileIInv
<1>9. Queued'
  <2>1. ASSUME NEW k \in DOMAIN queue', NEW i \in DOMAIN file' PROVE file'[i].id < queue'[k]
    <3>1. i \in DOMAIN file /\ file[i].id <= Len(entries)
      BY <1>7 DEF FileIInv, Queued
    <3>2. file[i].id \in Nat
      BY <3>1, UnitIs DEF FileIInv, Ids
    <3>3. CASE k \in 1 .. Len(queue)
      BY <1>4, <1>5, <1>7, <3>1, <3>3 DEF FileIInv, Queued
    <3>4. CASE k = Len(queue) + 1
      BY <1>2, <1>4, <1>7, <3>1, <3>2, <3>4
    <3> QED
      BY <1>5, <3>3, <3>4
  <2>2. ASSUME NEW k \in DOMAIN queue', NEW l \in DOMAIN queue', k < l PROVE queue'[k] < queue'[l]
    <3>1. CASE l \in 1 .. Len(queue)
      BY <1>4, <1>5, <2>2, <3>1 DEF FileIInv, Queued
    <3>2. CASE l = Len(queue) + 1
      <4>1. k \in 1 .. Len(queue)
        BY <1>5, <2>2, <3>2
      <4>2. queue'[k] \in 1 .. Len(entries)
        BY <1>3, <1>4, <4>1, ElementOfSeq
      <4> QED
        BY <1>2, <1>4, <3>2, <4>2
    <3> QED
      BY <1>5, <3>1, <3>2
  <2>3. \A i \in DOMAIN file' : file'[i].id <= Len(entries')
    <3>1. \A i \in DOMAIN file : file[i].id \in Nat /\ file[i].id <= Len(entries)
      BY UnitIs DEF FileIInv, Queued, Ids
    <3> QED
      BY <1>2, <1>7, <3>1
  <2>4. mem'.id = Len(entries')
    BY <1>1
  <2> QED
    BY <1>7, <2>1, <2>2, <2>3, <2>4 DEF Queued
<1>10. ReadBefore'
  BY <1>7, Untouched DEF FileIInv, ReadBefore
<1> QED
  BY <1>6, <1>7, <1>8, <1>9, <1>10 DEF FileIInv, Reading, PrefixRecovered

\* What does not touch the log either.
LEMMA RestKeeps ==
  ASSUME FileIInv, TypeOK', UNCHANGED <<phase, file, zeros, sizes, queue, entries, pos, got, starts>>,
         phase = "run", mem' = mem
  PROVE  FileIInv'
<1>1. Framed' /\ Sorted'
  BY Untouched DEF FileIInv
<1>2. Queued'
  BY DEF FileIInv, Queued
<1>3. ReadBefore'
  BY Untouched DEF FileIInv, ReadBefore
<1> QED
  BY <1>1, <1>2, <1>3 DEF FileIInv, Reading, PrefixRecovered

\* A part of an entry, or all of it, gets into the file.
LEMMA FlushKeeps ==
  ASSUME FileIInv, phase = "run", queue # <<>>,
         NEW n \in 0 .. Size(Head(queue)), NEW part \in Seq(Units), Len(part) = n,
         \A u \in 1 .. n : part[u] = [id |-> Head(queue), unit |-> u],
         file' = file \o part, queue' = Tail(queue), broken' \in BOOLEAN,
         UNCHANGED <<phase, zeros, synced, sizes, entries, mem, saved, pos, got, starts>>
  PROVE  FileIInv'
<1> DEFINE h == Head(queue)
<1>1. /\ queue \in Seq(1 .. Len(entries)) /\ Len(entries) \in Nat /\ Len(entries) <= MaxWrites
      /\ file \in Seq(Units) /\ Len(file) \in Nat /\ DOMAIN file = 1 .. Len(file)
  BY LenProperties DEF FileIInv, TypeOK
<1>2. /\ h \in 1 .. Len(entries) /\ queue' \in Seq(1 .. Len(entries)) /\ Len(queue) \in Nat
      /\ Len(queue') = Len(queue) - 1 /\ \A k \in 1 .. Len(queue') : queue'[k] = queue[k + 1]
      /\ DOMAIN queue = 1 .. Len(queue) /\ DOMAIN queue' = 1 .. Len(queue') /\ h = queue[1]
      /\ 1 \in DOMAIN queue
  <2>1. /\ h \in 1 .. Len(entries) /\ queue' \in Seq(1 .. Len(entries))
        /\ Len(queue') = Len(queue) - 1 /\ \A k \in 1 .. Len(queue') : queue'[k] = queue[k + 1]
    BY <1>1, HeadTailProperties
  <2>2. Len(queue) \in Nat /\ DOMAIN queue = 1 .. Len(queue) /\ DOMAIN queue' = 1 .. Len(queue')
    BY <1>1, <2>1, LenProperties
  <2>3. h = queue[1] /\ Len(queue) # 0
    BY <1>1
  <2> QED
    BY <2>1, <2>2, <2>3
<1>3. h \in Ids /\ \A i \in DOMAIN file : file[i].id < h
  <2>1. MaxWrites \in Nat
    BY SMT
  <2>2. h \in Ids
    BY <1>1, <1>2, <2>1 DEF Ids
  <2>3. \A i \in DOMAIN file : file[i].id < queue[1]
    BY <1>2 DEF FileIInv, Queued
  <2> QED
    BY <1>2, <2>2, <2>3
<1>4. /\ file' \in Seq(Units) /\ Len(file') = Len(file) + n
      /\ \A i \in 1 .. Len(file) : file'[i] = file[i]
      /\ \A i \in DOMAIN file' : file'[i].id <= h
      /\ Framed' /\ Sorted'
  <2> HIDE DEF h
  <2>1. n \in 0 .. Size(h) /\ \A u \in 1 .. n : part[u] = [id |-> h, unit |-> u]
    BY DEF h
  <2> QED
    BY <1>3, <2>1, Extended DEF FileIInv
<1>5. Size(h) \in Nat /\ DOMAIN file' = 1 .. Len(file')
  BY <1>3, <1>4, SizeIs, LenProperties DEF FileIInv, HeaderUnits
<1>6. Len(file') \in Nat /\ Len(file') >= Len(file)
  BY <1>1, <1>4, <1>5
<1>7. TypeOK'
  <2>1. synced' \in 0 .. Len(file') /\ pos' \in 0 .. Len(file')
    BY <1>1, <1>6 DEF FileIInv, TypeOK
  <2>2. zeros' \subseteq 1 .. Len(file')
    BY <1>1, <1>6 DEF FileIInv, TypeOK
  <2> QED
    BY <1>2, <1>4, <2>1, <2>2 DEF FileIInv, TypeOK
<1>8. Queued'
  <2>0. \A i \in DOMAIN file' : file'[i].id \in Nat /\ file'[i].id <= h
    <3> SUFFICES ASSUME NEW i \in DOMAIN file' PROVE file'[i].id \in Nat /\ file'[i].id <= h
      OBVIOUS
    <3>1. file'[i].id <= h
      BY <1>4
    <3>2. file'[i] \in Units
      BY <1>4, <1>5, ElementOfSeq
    <3>3. file'[i].id \in Nat
      BY <3>2 DEF Units, Ids
    <3> QED
      BY <3>1, <3>3
  <2>1. \A k \in DOMAIN queue' : k \in 1 .. Len(queue') /\ k + 1 \in DOMAIN queue /\ k \in Nat
    BY <1>2
  <2>2. \A k \in DOMAIN queue' : h < queue'[k] /\ queue'[k] \in Nat
    <3> SUFFICES ASSUME NEW k \in DOMAIN queue' PROVE h < queue'[k] /\ queue'[k] \in Nat
      OBVIOUS
    <3>1. 1 < k + 1 /\ queue'[k] = queue[k + 1] /\ k + 1 \in DOMAIN queue
      BY <1>2, <2>1
    <3>2. queue[k + 1] \in 1 .. Len(entries)
      BY <1>1, <1>2, <3>1, ElementOfSeq
    <3>3. queue[1] < queue[k + 1]
      BY <1>2, <3>1 DEF FileIInv, Queued
    <3> QED
      BY <1>1, <1>2, <3>1, <3>2, <3>3
  <2>3. \A k \in DOMAIN queue' : \A i \in DOMAIN file' : file'[i].id < queue'[k]
    <3>1. h \in Nat
      BY <1>1, <1>2
    <3> HIDE DEF h
    <3> QED
      BY <2>0, <2>2, <3>1
  <2>4. \A k, l \in DOMAIN queue' : k < l => queue'[k] < queue'[l]
    BY <1>2, <2>1 DEF FileIInv, Queued
  <2>5. \A i \in DOMAIN file' : file'[i].id <= Len(entries')
    <3>1. h \in Nat /\ h <= Len(entries) /\ entries' = entries
      BY <1>1, <1>2
    <3> HIDE DEF h
    <3> QED
      BY <1>1, <2>0, <3>1
  <2> QED
    BY <2>3, <2>4, <2>5 DEF FileIInv, Queued
<1>9. ReadBefore'
  <2>1. ASSUME NEW i \in 1 .. pos, WholeAt(i) PROVE WholeAt(i)' /\ file'[i] = file[i]
    <3>1. i \in 1 .. Len(file)
      BY <1>1 DEF FileIInv, TypeOK
    <3> QED
      BY <1>4, <1>6, <2>1, <3>1, StaysWhole DEF FileIInv
  <2>2. \A id : Size(id)' = Size(id)
    BY DEF Size
  <2> QED
    BY <2>1, <2>2 DEF FileIInv, ReadBefore
<1> QED
  BY <1>4, <1>7, <1>8, <1>9 DEF FileIInv, Reading, PrefixRecovered

\* An entry that gets into the file is a whole one, or the last for now.
LEMMA FlushEntryKeeps == ASSUME FileIInv, FlushEntry \/ FlushFails PROVE FileIInv'
<1> DEFINE h == Head(queue)
<1>1. h \in Ids
  <2>1. queue \in Seq(1 .. Len(entries)) /\ queue # <<>> /\ Len(entries) \in Nat
        /\ Len(entries) <= MaxWrites
    BY LenProperties DEF FileIInv, TypeOK, FlushEntry, FlushFails
  <2>2. Head(queue) \in 1 .. Len(entries)
    BY <2>1, HeadTailProperties
  <2>3. MaxWrites \in Nat
    BY SMT
  <2> QED
    BY <2>1, <2>2, <2>3 DEF Ids
<1>2. /\ Frame(h) \in Seq(Units) /\ Len(Frame(h)) = Size(h)
      /\ \A u \in 1 .. Size(h) : Frame(h)[u] = [id |-> h, unit |-> u]
      /\ Size(h) \in Nat
  <2> HIDE DEF h
  <2> QED
    BY <1>1, FrameIs, SizeIs DEF FileIInv, HeaderUnits
<1>3. \E n \in 0 .. Size(h) : \E part \in Seq(Units) :
        /\ Len(part) = n /\ file' = file \o part
        /\ \A u \in 1 .. n : part[u] = [id |-> h, unit |-> u]
  <2>1. CASE FlushEntry
    <3>1. file' = file \o Frame(h)
      BY <2>1 DEF FlushEntry
    <3> HIDE DEF h
    <3> Size(h) \in 0 .. Size(h) /\ Frame(h) \in Seq(Units)
      BY <1>2
    <3> WITNESS Size(h) \in 0 .. Size(h)
    <3> WITNESS Frame(h) \in Seq(Units)
    <3> QED
      BY <1>2, <3>1
  <2>2. CASE FlushFails
    <3>0. \E n \in 0 .. HeaderUnits + sizes[Head(queue)] - 1 :
            file' = file \o SubSeq(Frame(Head(queue)), 1, n)
      BY <2>2, Zenon DEF FlushFails
    <3>1. PICK n \in 0 .. Size(h) - 1 : file' = file \o SubSeq(Frame(h), 1, n)
      <4>1. PICK n \in 0 .. HeaderUnits + sizes[Head(queue)] - 1 :
              file' = file \o SubSeq(Frame(Head(queue)), 1, n)
        BY <3>0
      <4>2. n \in 0 .. Size(h) - 1
        <5>1. Size(h) = HeaderUnits + sizes[Head(queue)]
          BY DEF Size
        <5>2. sizes[Head(queue)] \in Int
          BY <1>1 DEF FileIInv, TypeOK
        <5> QED
          BY <5>1, <5>2 DEF HeaderUnits
      <4>3. file' = file \o SubSeq(Frame(h), 1, n)
        BY <4>1
      <4> HIDE DEF h
      <4> QED
        BY <4>2, <4>3
    <3> HIDE DEF h
    <3>2. \A u \in 1 .. n : Frame(h)[u] \in Units /\ Frame(h)[u] = [id |-> h, unit |-> u]
      BY <1>2, <3>1, ElementOfSeq
    <3>3. /\ SubSeq(Frame(h), 1, n) \in Seq(Units)
          /\ Len(SubSeq(Frame(h), 1, n)) = IF 1 <= n THEN n - 1 + 1 ELSE 0
          /\ \A u \in 1 .. n - 1 + 1 : SubSeq(Frame(h), 1, n)[u] = Frame(h)[1 + u - 1]
      <4>1. n \in Int /\ 1 \in Int
        BY <1>2
      <4>2. \A u \in 1 .. n : Frame(h)[u] \in Units
        BY <3>2
      <4> QED
        BY <4>1, <4>2, SubSeqProperties
    <3>4. \A u \in 1 .. n : SubSeq(Frame(h), 1, n)[u] = Frame(h)[u]
      BY <1>2, <3>3
    <3>5. n \in 0 .. Size(h) /\ Len(SubSeq(Frame(h), 1, n)) = n
      BY <1>2, <3>3
    <3> DEFINE part == SubSeq(Frame(h), 1, n)
    <3>6. /\ part \in Seq(Units) /\ Len(part) = n /\ file' = file \o part
          /\ \A u \in 1 .. n : part[u] = [id |-> h, unit |-> u]
      BY <3>1, <3>2, <3>3, <3>4, <3>5
    <3> HIDE DEF part
    <3> QED
      BY <3>5, <3>6
  <2> QED
    BY <2>1, <2>2
<1> HIDE DEF h
<1>4. PICK n \in 0 .. Size(h) : \E part \in Seq(Units) :
        /\ Len(part) = n /\ file' = file \o part
        /\ \A u \in 1 .. n : part[u] = [id |-> h, unit |-> u]
  BY <1>3
<1>5. PICK part \in Seq(Units) :
        /\ Len(part) = n /\ file' = file \o part
        /\ \A u \in 1 .. n : part[u] = [id |-> h, unit |-> u]
  BY <1>4
<1>6. /\ phase = "run" /\ queue # <<>> /\ queue' = Tail(queue) /\ broken' \in BOOLEAN
      /\ UNCHANGED <<phase, zeros, synced, sizes, entries, mem, saved, pos, got, starts>>
  BY DEF FlushEntry, FlushFails, FileIInv, TypeOK
<1> QED
  BY <1>5, <1>6, FlushKeeps DEF h

\* Neither fsync nor a save of the state file changes what is in the log.
LEMMA SaveKeeps == ASSUME FileIInv, Sync \/ Save PROVE FileIInv'
<1>1. CASE Sync
  <2>1. Len(file) \in Nat
    BY LenProperties DEF FileIInv, TypeOK
  <2>2. TypeOK'
    BY <1>1, <2>1 DEF Sync, FileIInv, TypeOK
  <2> QED
    BY <1>1, <2>2, RestKeeps DEF Sync
<1>2. CASE Save
  <2>1. Json(mem.value) \in Values
    BY JsonTyped DEF FileIInv, TypeOK
  <2>2. saved' \in [id : 0 .. Len(entries), value : Values]
    BY <1>2, <2>1 DEF Save, FileIInv, TypeOK
  <2>3. TypeOK'
    BY <1>2, <2>2 DEF Save, logVars, FileIInv, TypeOK
  <2> QED
    BY <1>2, <2>3, RestKeeps DEF Save, logVars
<1> QED
  BY <1>1, <1>2

-----------------------------------------------------------------------------
(***************************************************************************)
(* The end of the process, and the next start.                             *)
(***************************************************************************)

\* A crash leaves the first entries, the last of them perhaps torn.
LEMMA CrashKeeps == ASSUME FileIInv, Crash PROVE FileIInv'
<1>1. /\ file \in Seq(Units) /\ Len(file) \in Nat /\ synced \in 0 .. Len(file)
      /\ entries \in Seq(Written) /\ Len(entries) \in Nat
  BY LenProperties DEF FileIInv, TypeOK
<1>2. PICK n \in (IF "powerCut" \in Features THEN synced ELSE Len(file)) .. Len(file) :
        file' = SubSeq(file, 1, n)
  BY DEF Crash
<1>3. n \in 0 .. Len(file) /\ ("powerCut" \in Features \/ n = Len(file)) /\ sizes' = sizes
  BY <1>1, <1>2 DEF Crash
<1>4. /\ file' \in Seq(Units) /\ Len(file') = n /\ DOMAIN file' = 1 .. n
      /\ 1 .. n \subseteq DOMAIN file /\ \A i \in 1 .. n : file'[i] = file[i]
      /\ Framed' /\ Sorted'
  BY <1>2, <1>3, CutOff DEF FileIInv
<1>5. TypeOK'
  <2>1. synced' \in 0 .. Len(file') /\ pos' \in 0 .. Len(file')
    BY <1>1, <1>3, <1>4 DEF Crash
  <2>2. /\ queue' \in Seq(1 .. Len(entries')) /\ broken' \in BOOLEAN /\ got' \in Seq(Ids)
        /\ phase' = "down" /\ entries' = entries
    <3>1. queue' = <<>> /\ got' = <<>> /\ phase' = "down" /\ entries' = entries
      BY DEF Crash
    <3>2. broken' \in BOOLEAN
      BY DEF Crash
    <3>3. queue' \in Seq(1 .. Len(entries')) /\ got' \in Seq(Ids)
      BY <3>1, EmptySeq, Zenon
    <3> QED
      BY <3>1, <3>2, <3>3
  <2>3. mem' \in [id : 0 .. Len(entries), value : Values]
    <3>1. mem' = [id |-> 0, value |-> Nil] /\ 0 \in 0 .. Len(entries) /\ Nil \in Values
      BY <1>1 DEF Crash, Nothing, Values
    <3> QED
      BY <3>1
  <2> QED
    BY <1>4, <2>1, <2>2, <2>3 DEF Crash, FileIInv, TypeOK
<1>6. Queued'
  BY <1>4 DEF Crash, FileIInv, Queued
<1>7. ReadBefore'
  BY DEF Crash, FileIInv, ReadBefore
<1> QED
  BY <1>4, <1>5, <1>6, <1>7 DEF Crash, FileIInv, Reading, PrefixRecovered

\* A reader begins at the start of the file.
LEMMA StartKeeps == ASSUME FileIInv, Start PROVE FileIInv'
<1>1. /\ file' = file /\ zeros' = zeros /\ sizes' = sizes
      /\ queue' = queue /\ entries' = entries
      /\ phase = "down" /\ phase' = "read" /\ pos' = 0 /\ got' = <<>> /\ pos = 0 /\ got = <<>>
      /\ mem' = saved /\ saved' = saved /\ starts' = starts + 1 /\ starts < MaxStarts
  BY DEF Start, logVars, FileIInv, ReadBefore
<1>2. TypeOK'
  <2>1. starts' \in 0 .. MaxStarts
    <3>1. MaxStarts \in Nat
      BY SMT
    <3> QED
      BY <1>1, <3>1 DEF FileIInv, TypeOK
  <2> QED
    BY <1>1, <2>1 DEF Start, logVars, FileIInv, TypeOK
<1>3. Framed' /\ Sorted'
  BY <1>1, Untouched DEF FileIInv
<1>4. Queued'
  BY <1>1 DEF FileIInv, Queued
<1>5. ReadBefore'
  BY <1>1 DEF ReadBefore
<1>6. AtEntry'
  <2>1. ASSUME 0 < Len(file) PROVE file[1].unit = 1
    <3>1. 1 \in DOMAIN file
      <4>1. file \in Seq(Units)
        BY DEF FileIInv, TypeOK
      <4> QED
        BY <2>1, <4>1, LenProperties
    <3> QED
      BY <3>1, UnitIs DEF FileIInv, Framed
  <2> QED
    BY <1>1, <2>1 DEF AtEntry
<1> QED
  BY <1>1, <1>2, <1>3, <1>4, <1>5, <1>6 DEF FileIInv, Reading, PrefixRecovered

-----------------------------------------------------------------------------
(***************************************************************************)
(* The reader.                                                             *)
(***************************************************************************)

\* An entry begins at one place only.
LEMMA BeginsOnce ==
  ASSUME TypeOK, Sorted, NEW i \in DOMAIN file, NEW j \in DOMAIN file,
         file[i].unit = 1, file[j].unit = 1, file[i].id = file[j].id
  PROVE  i = j
<1>1. i \in Nat /\ j \in Nat /\ file[i].id \in Nat
  BY UnitIs DEF Ids
<1>2. ~(i < j)
  BY <1>1 DEF Sorted
<1>3. ~(j < i)
  BY <1>1 DEF Sorted
<1> QED
  BY <1>1, <1>2, <1>3

\* A reader at the start of an entry that is torn has all that is before it.
LEMMA TornIsEnd ==
  ASSUME TypeOK, Sorted, AtEntry, pos < Len(file), ~WholeAt(pos + 1)
  PROVE  BeforeTear \subseteq ToSet(got)
<1> DEFINE t == file[pos + 1].id
<1>1. /\ pos \in Nat /\ Len(file) \in Nat /\ DOMAIN file = 1 .. Len(file) /\ pos + 1 \in DOMAIN file
  <2>1. file \in Seq(Units) /\ pos \in 0 .. Len(file)
    BY DEF TypeOK
  <2> QED
    BY <2>1, LenProperties
<1>2. t \notin Whole
  <2> SUFFICES ASSUME NEW i \in 1 .. Len(file), WholeAt(i), file[i].id = t PROVE FALSE
    BY DEF Whole
  <2>1. file[i].unit = 1 /\ file[pos + 1].unit = 1
    BY DEF WholeAt, AtEntry
  <2>2. i = pos + 1
    BY <1>1, <2>1, BeginsOnce
  <2> QED
    BY <2>2
<1>3. t \in Torn
  BY <1>1, <1>2 DEF Torn
<1> SUFFICES ASSUME NEW id \in BeforeTear PROVE id \in ToSet(got)
  OBVIOUS
<1>4. id \in Whole /\ id < t
  BY <1>3 DEF BeforeTear
<1>5. PICK i \in 1 .. Len(file) : file[i].id = id
  BY <1>4 DEF Whole
<1>6. id \in Nat /\ t \in Nat /\ i \in Nat
  BY <1>1, <1>5, UnitIs DEF Ids
<1>7. ~(pos + 1 < i)
  BY <1>1, <1>4, <1>5, <1>6 DEF Sorted
<1>8. i # pos + 1
  BY <1>4, <1>5, <1>6
<1>9. i \in 1 .. pos
  BY <1>1, <1>5, <1>6, <1>7, <1>8
<1> QED
  BY <1>5, <1>9 DEF AtEntry

\* At the end of the file everything has been read.
LEMMA EndIsAll ==
  ASSUME TypeOK, AtEntry, pos = Len(file) PROVE BeforeTear \subseteq ToSet(got)
  BY DEF AtEntry, BeforeTear, Whole

\* Where the reader finds an entry intact, it is a whole one.
LEMMA IntactIs ==
  ASSUME TypeOK, NEW length \in Lengths, pos < Len(file),
         Len(file) - pos >= HeaderUnits + length, Intact(length)
  PROVE  /\ WholeAt(pos + 1) /\ length = sizes[file[pos + 1].id]
         /\ pos + HeaderUnits + length = pos + Size(file[pos + 1].id)
<1>2. pos \in Nat /\ Len(file) \in Nat /\ length \in Nat
  <2>1. file \in Seq(Units) /\ pos \in 0 .. Len(file) /\ MaxBody \in Nat
    BY DEF TypeOK
  <2>2. pos + 1 \in DOMAIN file
    BY <2>1, LenProperties
  <2>3. sizes[file[pos + 1].id] \in 1 .. MaxBody
    BY <2>2, UnitIs DEF TypeOK
  <2> QED
    BY <2>1, <2>3, LenProperties DEF Lengths, TooLarge
<1>1. file[pos + 1].unit = 1 /\ length = sizes[file[pos + 1].id]
  <2>1. pos + 1 \in pos + 1 .. pos + HeaderUnits + length
    BY <1>2 DEF HeaderUnits
  <2> QED
    BY <2>1 DEF Intact, Lengths
<1>3. pos + 1 + (HeaderUnits + length) - 1 = pos + HeaderUnits + length
  BY <1>2 DEF HeaderUnits
<1>4. pos + HeaderUnits + length <= Len(file)
  BY <1>2 DEF HeaderUnits
<1>5. /\ SubSeq(file, pos + 1, pos + HeaderUnits + length) = Frame(file[pos + 1].id)
      /\ zeros \cap pos + 1 .. pos + HeaderUnits + length = {}
  BY DEF Intact
<1>6. /\ pos + 1 + (HeaderUnits + length) - 1 <= Len(file)
      /\ SubSeq(file, pos + 1, pos + 1 + (HeaderUnits + length) - 1) = Frame(file[pos + 1].id)
      /\ zeros \cap pos + 1 .. pos + 1 + (HeaderUnits + length) - 1 = {}
  BY <1>3, <1>4, <1>5
<1>7. WholeAt(pos + 1)
  BY <1>1, <1>6, Zenon DEF WholeAt
<1>8. pos + HeaderUnits + length = pos + Size(file[pos + 1].id)
  BY <1>1, <1>2 DEF Size, HeaderUnits
<1> QED
  BY <1>1, <1>7, <1>8

\* A whole entry begins with its header.
LEMMA WholeBegins ==
  ASSUME TypeOK, pos < Len(file), WholeAt(pos + 1)
  PROVE  file[pos + 1].unit = 1 /\ pos + 1 \notin zeros
<1>1. pos \in 0 .. Len(file) /\ Len(file) \in Nat /\ pos + 1 \in 1 .. Len(file)
  BY LenProperties DEF TypeOK
<1>2. Size(file[pos + 1].id) \in Nat /\ Size(file[pos + 1].id) >= 3
  <2>1. pos + 1 \in DOMAIN file
    BY <1>1, LenProperties DEF TypeOK
  <2>2. file[pos + 1].id \in Ids /\ MaxBody \in Nat
    BY <2>1, UnitIs
  <2> QED
    BY <2>2, SizeIs DEF HeaderUnits
<1>3. pos + 1 \in pos + 1 .. pos + 1 + Size(file[pos + 1].id) - 1
  BY <1>1, <1>2
<1> QED
  BY <1>1, <1>3, WholeIs

\* A reader at the start of a whole entry finds it intact.
LEMMA WholeIsIntact ==
  ASSUME TypeOK, pos < Len(file), WholeAt(pos + 1), NEW length \in Lengths
  PROVE  /\ length = sizes[file[pos + 1].id] /\ Intact(length)
         /\ Len(file) - pos >= HeaderUnits + length
         /\ length \in 1 .. MaxBody
<1>0. file[pos + 1].unit = 1 /\ pos + 1 \notin zeros
  BY WholeBegins
<1>1. length = sizes[file[pos + 1].id]
  BY <1>0 DEF Lengths
<1>2. pos \in Nat /\ Len(file) \in Nat /\ length \in 1 .. MaxBody
  <2>1. file \in Seq(Units) /\ pos \in 0 .. Len(file)
    BY DEF TypeOK
  <2>2. pos + 1 \in DOMAIN file
    BY <2>1, LenProperties
  <2>3. sizes[file[pos + 1].id] \in 1 .. MaxBody
    BY <2>2, UnitIs DEF TypeOK
  <2> QED
    BY <1>1, <2>1, <2>3, LenProperties
<1>3. pos + 1 + (HeaderUnits + length) - 1 = pos + HeaderUnits + length
  BY <1>2 DEF HeaderUnits
<1>4. /\ pos + 1 + (HeaderUnits + length) - 1 <= Len(file)
      /\ SubSeq(file, pos + 1, pos + 1 + (HeaderUnits + length) - 1) = Frame(file[pos + 1].id)
      /\ zeros \cap pos + 1 .. pos + 1 + (HeaderUnits + length) - 1 = {}
  BY <1>1, Zenon DEF WholeAt
<1>5. Intact(length)
  BY <1>0, <1>3, <1>4 DEF Intact
<1>6. Len(file) - pos >= HeaderUnits + length
  BY <1>2, <1>3, <1>4 DEF HeaderUnits
<1> QED
  BY <1>1, <1>2, <1>5, <1>6

\* Behind a whole entry another one starts, and all before it is that entry.
LEMMA NextEntry ==
  ASSUME TypeOK, Framed, pos < Len(file), WholeAt(pos + 1),
         NEW next, next = pos + Size(file[pos + 1].id)
  PROVE  /\ next \in 1 .. Len(file) /\ pos < next
         /\ \A i \in pos + 1 .. next : file[i].id = file[pos + 1].id
         /\ next < Len(file) => file[next + 1].unit = 1
<1> DEFINE id == file[pos + 1].id
<1>1. /\ pos \in Nat /\ Len(file) \in Nat /\ DOMAIN file = 1 .. Len(file)
      /\ pos + 1 \in 1 .. Len(file)
  <2>1. file \in Seq(Units) /\ pos \in 0 .. Len(file)
    BY DEF TypeOK
  <2> QED
    BY <2>1, LenProperties
<1>2. id \in Ids /\ Size(id) \in 3 .. HeaderUnits + MaxBody
  BY <1>1, UnitIs, SizeIs
<1>3. Size(id) \in Nat /\ Size(id) >= 3
  BY <1>2 DEF HeaderUnits
<1>4. /\ pos + 1 + Size(id) - 1 <= Len(file)
      /\ \A u \in 1 .. Size(id) : file[pos + 1 + u - 1] = [id |-> id, unit |-> u]
  BY <1>1, WholeIs
<1> HIDE DEF id
<1>5. next = pos + Size(id)
  BY DEF id
<1>6. \A i \in pos + 1 .. next : file[i] = [id |-> id, unit |-> i - pos]
  <2> SUFFICES ASSUME NEW i \in pos + 1 .. next PROVE file[i] = [id |-> id, unit |-> i - pos]
    OBVIOUS
  <2>1. i - pos \in 1 .. Size(id) /\ pos + 1 + (i - pos) - 1 = i
    BY <1>1, <1>3, <1>5
  <2> QED
    BY <1>4, <2>1
<1>7. next \in 1 .. Len(file) /\ pos < next /\ next \in Nat
  BY <1>1, <1>3, <1>4, <1>5
<1>8. ASSUME next < Len(file) PROVE file[next + 1].unit = 1
  <2> DEFINE k == file[next + 1].unit
  <2>1. next + 1 \in DOMAIN file
    BY <1>1, <1>7, <1>8
  <2>2. /\ k \in 1 .. Size(file[next + 1].id) /\ k <= next + 1 /\ k \in Nat
        /\ \A u \in 1 .. k : file[next + 1 - k + u] = [id |-> file[next + 1].id, unit |-> u]
    BY <2>1, UnitIs DEF Framed
  <2>3. CASE k = 1
    BY <2>3
  <2>4. CASE k > 1
    <3> HIDE DEF k
    <3>1. k - 1 \in 1 .. k /\ next + 1 - k + (k - 1) = next
      BY <1>7, <2>2, <2>4
    <3>2. file[next] = [id |-> file[next + 1].id, unit |-> k - 1]
      BY <2>2, <3>1
    <3>3. file[next] = [id |-> id, unit |-> next - pos]
      BY <1>1, <1>6, <1>7
    <3>4. file[next + 1].id = id /\ k - 1 = next - pos
      BY <3>2, <3>3
    <3>5. k - 1 = Size(id)
      BY <1>1, <1>3, <1>5, <3>4
    <3> QED
      BY <1>3, <2>2, <3>4, <3>5
  <2> QED
    BY <2>2, <2>3, <2>4
<1>9. \A i \in pos + 1 .. next : file[i].id = id
  <2> SUFFICES ASSUME NEW i \in pos + 1 .. next PROVE file[i].id = id
    OBVIOUS
  <2>1. file[i] = [id |-> id, unit |-> i - pos]
    BY <1>6
  <2> QED
    BY <2>1
<1> QED
  BY <1>7, <1>8, <1>9 DEF id

\* What a call of readEntry comes to: the end, a whole entry, or bytes that are
\* passed over.
LEMMA ReadCases ==
  ASSUME FileIInv, ReadEntry
  PROVE  \/ /\ phase' = "apply" /\ pos' = pos /\ got' = got
            /\ pos = Len(file) \/ (pos < Len(file) /\ ~WholeAt(pos + 1))
         \/ /\ phase' = "read" /\ pos' \in pos .. Len(file) /\ got' = got
            /\ pos < Len(file) /\ ~WholeAt(pos + 1)
         \/ /\ phase' = "read" /\ pos < Len(file) /\ WholeAt(pos + 1)
            /\ pos' = pos + Size(file[pos + 1].id)
            /\ got' = Append(got, file[pos + 1].id)
<1> DEFINE rest == Len(file) - pos
<1>0. DOMAIN file = 1 .. Len(file) /\ Len(file) \in Nat
  BY LenProperties DEF FileIInv, TypeOK
<1>1. pos \in Int /\ Len(file) \in Int /\ rest >= 0 /\ pos >= 0 /\ MaxBody \in Nat
  BY <1>0 DEF FileIInv, TypeOK
<1>2. ASSUME pos < Len(file), WholeAt(pos + 1)
      PROVE  \A length \in Lengths :
               /\ length = sizes[file[pos + 1].id] /\ Intact(length)
               /\ rest >= HeaderUnits + length /\ length \in 1 .. MaxBody
  BY <1>2, WholeIsIntact DEF FileIInv
<1>3. ASSUME pos < Len(file), WholeAt(pos + 1) PROVE sizes[file[pos + 1].id] \in Lengths
  BY <1>3, WholeBegins DEF FileIInv, Lengths
<1>4. \/ /\ rest = 0 /\ phase' = "apply" /\ pos' = pos /\ got' = got
      \/ /\ rest \in 1 .. HeaderUnits - 1 /\ pos' = Len(file) /\ phase' = phase /\ got' = got
      \/ /\ rest >= HeaderUnits
         /\ \E length \in Lengths :
              \/ /\ length = TooLarge
                 /\ pos' = pos + HeaderUnits /\ phase' = phase /\ got' = got
              \/ /\ length < TooLarge /\ rest = HeaderUnits /\ length > 0
                 /\ phase' = "apply" /\ pos' = pos /\ got' = got
              \/ /\ length < TooLarge /\ (rest > HeaderUnits \/ length = 0)
                 /\ pos' = IF rest < HeaderUnits + length THEN Len(file)
                           ELSE pos + HeaderUnits + length
                 /\ got' = IF rest >= HeaderUnits + length /\ Intact(length)
                           THEN Append(got, file[pos + 1].id) ELSE got
                 /\ phase' = phase
  BY Zenon DEF ReadEntry
<1>5. phase = "read"
  BY DEF ReadEntry
<1>6. CASE rest = 0 /\ phase' = "apply" /\ pos' = pos /\ got' = got
  <2>1. pos = Len(file)
    <3>1. Len(file) - pos = 0
      BY <1>6
    <3> QED
      BY <1>1, <3>1
  <2> QED
    BY <1>6, <2>1
<1>7. CASE rest \in 1 .. HeaderUnits - 1 /\ pos' = Len(file) /\ phase' = phase /\ got' = got
  <2>1. pos < Len(file) /\ rest = 1
    <3>1. rest \in 1 .. 1
      BY <1>7 DEF HeaderUnits
    <3>2. Len(file) - pos = 1
      BY <3>1
    <3> QED
      BY <1>1, <3>2
  <2>2. ~WholeAt(pos + 1)
    <3> SUFFICES ASSUME WholeAt(pos + 1) PROVE FALSE
      OBVIOUS
    <3> DEFINE n == sizes[file[pos + 1].id]
    <3>1. rest >= HeaderUnits + n /\ n \in 1 .. MaxBody
      BY <1>2, <1>3, <2>1
    <3> HIDE DEF n
    <3> QED
      BY <1>1, <2>1, <3>1 DEF HeaderUnits
  <2> QED
    BY <1>1, <1>5, <1>7, <2>1, <2>2
<1>8. ASSUME rest >= HeaderUnits, NEW length \in Lengths,
             length = TooLarge, pos' = pos + HeaderUnits, phase' = phase, got' = got
      PROVE  /\ phase' = "read" /\ pos' \in pos .. Len(file) /\ got' = got
             /\ pos < Len(file) /\ ~WholeAt(pos + 1)
  <2>1. pos < Len(file)
    BY <1>1, <1>8 DEF HeaderUnits
  <2>2. ~WholeAt(pos + 1)
    BY <1>1, <1>2, <1>8, <2>1 DEF TooLarge
  <2>3. pos' \in pos .. Len(file)
    BY <1>1, <1>8 DEF HeaderUnits
  <2> QED
    BY <1>5, <1>8, <2>1, <2>2, <2>3
<1>9. ASSUME rest >= HeaderUnits, NEW length \in Lengths,
             length < TooLarge, rest = HeaderUnits, length > 0,
             phase' = "apply", pos' = pos, got' = got
      PROVE  /\ phase' = "apply" /\ pos' = pos /\ got' = got
             /\ pos < Len(file) /\ ~WholeAt(pos + 1)
  <2>1. pos < Len(file)
    BY <1>1, <1>9 DEF HeaderUnits
  <2>2. ~WholeAt(pos + 1)
    <3> SUFFICES ASSUME WholeAt(pos + 1) PROVE FALSE
      OBVIOUS
    <3>1. HeaderUnits >= HeaderUnits + length /\ length \in 1 .. MaxBody
      BY <1>2, <1>9, <2>1
    <3> QED
      BY <3>1 DEF HeaderUnits
  <2> QED
    BY <1>9, <2>1, <2>2
<1>10. ASSUME rest >= HeaderUnits, NEW length \in Lengths,
              length < TooLarge, rest > HeaderUnits \/ length = 0,
              pos' = IF rest < HeaderUnits + length THEN Len(file)
                     ELSE pos + HeaderUnits + length,
              got' = IF rest >= HeaderUnits + length /\ Intact(length)
                     THEN Append(got, file[pos + 1].id) ELSE got,
              phase' = phase
       PROVE  \/ /\ phase' = "read" /\ pos' \in pos .. Len(file) /\ got' = got
                 /\ pos < Len(file) /\ ~WholeAt(pos + 1)
              \/ /\ phase' = "read" /\ pos < Len(file) /\ WholeAt(pos + 1)
                 /\ pos' = pos + Size(file[pos + 1].id)
                 /\ got' = Append(got, file[pos + 1].id)
  <2>1. pos < Len(file)
    BY <1>1, <1>10 DEF HeaderUnits
  <2>2. length \in Nat
    <3>1. pos + 1 \in DOMAIN file
      BY <1>0, <1>1, <2>1
    <3>2. sizes[file[pos + 1].id] \in 1 .. MaxBody
      BY <3>1, UnitIs DEF FileIInv, TypeOK
    <3> QED
      BY <1>1, <3>2 DEF Lengths, TooLarge
  <2>3. CASE rest >= HeaderUnits + length /\ Intact(length)
    <3>1. pos' = pos + HeaderUnits + length /\ got' = Append(got, file[pos + 1].id)
      BY <1>1, <1>10, <2>2, <2>3 DEF HeaderUnits
    <3>2. WholeAt(pos + 1) /\ pos + HeaderUnits + length = pos + Size(file[pos + 1].id)
      BY <2>1, <2>3, IntactIs DEF FileIInv
    <3> QED
      BY <1>5, <1>10, <2>1, <3>1, <3>2
  <2>4. CASE ~(rest >= HeaderUnits + length /\ Intact(length))
    <3>1. got' = got
      BY <1>10, <2>4
    <3>2. ~WholeAt(pos + 1)
      BY <1>2, <2>1, <2>4
    <3>3. pos' \in pos .. Len(file)
      BY <1>1, <1>10, <2>2 DEF HeaderUnits
    <3> QED
      BY <1>5, <1>10, <2>1, <3>1, <3>2, <3>3
  <2> QED
    BY <2>3, <2>4
<1> HIDE DEF rest
<1> QED
  BY <1>4, <1>6, <1>7, <1>8, <1>9, <1>10

\* A whole entry that is read comes after all that were read.
LEMMA ReadIsLater ==
  ASSUME TypeOK, Sorted, ReadBefore, pos < Len(file), WholeAt(pos + 1),
         NEW k \in DOMAIN got
  PROVE  got[k] < file[pos + 1].id
<1>1. PICK i \in 1 .. pos : WholeAt(i) /\ file[i].id = got[k]
  BY DEF ReadBefore
<1>2. /\ pos \in Nat /\ i \in DOMAIN file /\ pos + 1 \in DOMAIN file /\ i < pos + 1
  <2>1. file \in Seq(Units) /\ pos \in 0 .. Len(file)
    BY DEF TypeOK
  <2>2. Len(file) \in Nat /\ DOMAIN file = 1 .. Len(file)
    BY <2>1, LenProperties
  <2> QED
    BY <1>1, <2>1, <2>2
<1>3. file[i].unit = 1 /\ file[pos + 1].unit = 1
  BY <1>1 DEF WholeAt
<1>4. file[i].id # file[pos + 1].id
  BY <1>2, <1>3, BeginsOnce
<1> QED
  BY <1>1, <1>2, <1>4 DEF Sorted

\* The reader passes over what is torn, and misses nothing before it.
LEMMA ReadKeeps == ASSUME FileIInv, ReadEntry PROVE FileIInv'
<1>1. /\ file' = file /\ zeros' = zeros /\ sizes' = sizes
      /\ queue' = queue /\ entries' = entries
      /\ phase = "read" /\ mem' = mem /\ saved' = saved /\ starts' = starts
      /\ synced' = synced /\ broken' = broken
  BY DEF ReadEntry, logVars
<1>2. /\ pos \in Nat /\ Len(file) \in Nat /\ pos \in 0 .. Len(file) /\ DOMAIN file = 1 .. Len(file)
      /\ got \in Seq(Ids) /\ Len(got) \in Nat /\ DOMAIN got = 1 .. Len(got)
  <2>1. file \in Seq(Units) /\ pos \in 0 .. Len(file) /\ got \in Seq(Ids)
    BY DEF FileIInv, TypeOK
  <2>2. /\ Len(file) \in Nat /\ DOMAIN file = 1 .. Len(file)
        /\ Len(got) \in Nat /\ DOMAIN got = 1 .. Len(got)
    BY <2>1, LenProperties
  <2> QED
    BY <2>1, <2>2
<1>3. Framed' /\ Sorted'
  BY <1>1, Untouched DEF FileIInv
<1>4. Queued'
  BY <1>1 DEF FileIInv, Queued
<1>5. BeforeTear' = BeforeTear
  BY <1>1, Untouched DEF BeforeTear, Torn, Whole
<1>6. \A i : WholeAt(i)' <=> WholeAt(i)
  BY <1>1, Untouched
<1>7. \A id : Size(id)' = Size(id)
  BY <1>1 DEF Size
<1>8. AtEntry \/ BeforeTear \subseteq ToSet(got)
  BY <1>1 DEF FileIInv, Reading
<1>9. CASE /\ phase' = "apply" /\ pos' = pos /\ got' = got
           /\ pos = Len(file) \/ (pos < Len(file) /\ ~WholeAt(pos + 1))
  <2>1. TypeOK'
    BY <1>1, <1>9 DEF FileIInv, TypeOK
  <2>2. ReadBefore'
    BY <1>1, <1>6, <1>7, <1>9 DEF FileIInv, ReadBefore
  <2>3. BeforeTear \subseteq ToSet(got)
    BY <1>8, <1>9, EndIsAll, TornIsEnd DEF FileIInv
  <2>4. Reading'
    BY <1>5, <1>9, <2>3 DEF Reading, PrefixRecovered
  <2> QED
    BY <1>3, <1>4, <2>1, <2>2, <2>4 DEF FileIInv
<1>10. CASE /\ phase' = "read" /\ pos' \in pos .. Len(file) /\ got' = got
            /\ pos < Len(file) /\ ~WholeAt(pos + 1)
  <2>1. TypeOK'
    <3>1. pos' \in 0 .. Len(file')
      BY <1>1, <1>2, <1>10
    <3> QED
      BY <1>1, <1>10, <3>1 DEF FileIInv, TypeOK
  <2>2. ReadBefore'
    <3>1. ASSUME NEW k \in DOMAIN got
          PROVE  \E i \in 1 .. pos' :
                   WholeAt(i)' /\ file'[i].id = got[k] /\ i + Size(got[k]) - 1 <= pos'
      <4>1. PICK i \in 1 .. pos : WholeAt(i) /\ file[i].id = got[k] /\ i + Size(got[k]) - 1 <= pos
        BY DEF FileIInv, ReadBefore
      <4>2. Size(got[k]) \in Nat
        <5>1. got[k] \in Ids
          BY <1>2, ElementOfSeq
        <5> QED
          BY <5>1, SizeIs DEF FileIInv, HeaderUnits
      <4>3. i \in 1 .. pos' /\ i + Size(got[k]) - 1 <= pos'
        BY <1>2, <1>10, <4>1, <4>2
      <4> QED
        BY <1>1, <1>6, <4>1, <4>3
    <3> QED
      BY <1>1, <1>7, <1>10, <3>1 DEF FileIInv, ReadBefore
  <2>3. BeforeTear \subseteq ToSet(got)
    BY <1>8, <1>10, TornIsEnd DEF FileIInv
  <2>4. Reading'
    BY <1>5, <1>10, <2>3 DEF Reading, PrefixRecovered
  <2> QED
    BY <1>3, <1>4, <2>1, <2>2, <2>4 DEF FileIInv
<1>11. CASE /\ phase' = "read" /\ pos < Len(file) /\ WholeAt(pos + 1)
            /\ pos' = pos + Size(file[pos + 1].id)
            /\ got' = Append(got, file[pos + 1].id)
  <2> DEFINE id == file[pos + 1].id
  <2>1. /\ pos' \in 1 .. Len(file) /\ pos < pos'
        /\ \A i \in pos + 1 .. pos' : file[i].id = file[pos + 1].id
        /\ pos' < Len(file) => file[pos' + 1].unit = 1
    BY <1>11, NextEntry DEF FileIInv
  <2>2. id \in Ids /\ Size(id) \in Nat
    <3>1. pos + 1 \in DOMAIN file
      BY <1>2, <1>11
    <3> QED
      BY <3>1, UnitIs, SizeIs DEF FileIInv, HeaderUnits
  <2>3. /\ got' \in Seq(Ids) /\ Len(got') = Len(got) + 1
        /\ \A k \in 1 .. Len(got) : got'[k] = got[k]
        /\ got'[Len(got) + 1] = id
    <3> HIDE DEF id
    <3>1. got' = Append(got, id)
      BY <1>11 DEF id
    <3> QED
      BY <1>2, <2>2, <3>1, AppendProperties
  <2>4. DOMAIN got' = 1 .. Len(got) + 1
    BY <2>3, LenProperties
  <2>5. TypeOK'
    <3>1. pos' \in 0 .. Len(file')
      BY <1>1, <1>2, <2>1
    <3> QED
      BY <1>1, <1>11, <2>3, <3>1 DEF FileIInv, TypeOK
  <2>6. ReadBefore'
    <3>1. ASSUME NEW k \in DOMAIN got'
          PROVE  \E i \in 1 .. pos' :
                   WholeAt(i)' /\ file'[i].id = got'[k] /\ i + Size(got'[k]) - 1 <= pos'
      <4>1. CASE k \in 1 .. Len(got)
        <5>1. PICK i \in 1 .. pos : WholeAt(i) /\ file[i].id = got[k] /\ i + Size(got[k]) - 1 <= pos
          BY <1>2, <4>1 DEF FileIInv, ReadBefore
        <5>2. Size(got[k]) \in Nat
          <6>1. got[k] \in Ids
            BY <1>2, <4>1, ElementOfSeq
          <6> QED
            BY <6>1, SizeIs DEF FileIInv, HeaderUnits
        <5>3. i \in 1 .. pos' /\ i + Size(got[k]) - 1 <= pos'
          BY <1>2, <2>1, <5>1, <5>2
        <5> QED
          BY <1>1, <1>6, <2>3, <4>1, <5>1, <5>3
      <4>2. CASE k = Len(got) + 1
        <5> PICK i : i = pos + 1
          OBVIOUS
        <5>1. got'[k] = id /\ file'[i].id = id /\ WholeAt(i)'
          BY <1>1, <1>6, <1>11, <2>3, <4>2
        <5>2. pos' = pos + Size(id)
          BY <1>11
        <5> HIDE DEF id
        <5>3. i \in 1 .. pos' /\ i + Size(id) - 1 <= pos'
          BY <1>2, <2>1, <2>2, <5>2
        <5> QED
          BY <5>1, <5>3
      <4> QED
        BY <1>2, <2>4, <4>1, <4>2
    <3>2. ASSUME NEW k \in DOMAIN got', NEW l \in DOMAIN got', k < l PROVE got'[k] < got'[l]
      <4>1. CASE l \in 1 .. Len(got)
        BY <1>2, <2>3, <2>4, <3>2, <4>1 DEF FileIInv, ReadBefore
      <4>2. CASE l = Len(got) + 1
        <5>1. k \in DOMAIN got /\ got'[k] = got[k] /\ got'[l] = id
          BY <1>2, <2>3, <2>4, <3>2, <4>2
        <5> QED
          BY <1>11, <5>1, ReadIsLater DEF FileIInv
      <4> QED
        BY <1>2, <2>4, <4>1, <4>2
    <3> QED
      BY <1>1, <1>7, <1>11, <3>1, <3>2 DEF FileIInv, ReadBefore
  <2>7. ToSet(got) \subseteq ToSet(got') /\ id \in ToSet(got')
    BY <1>2, <2>3, <2>4 DEF ToSet
  <2>8. AtEntry => AtEntry'
    <3> SUFFICES ASSUME AtEntry PROVE AtEntry'
      OBVIOUS
    <3>1. \A i \in 1 .. pos' : file'[i].id \in ToSet(got')
      <4>1. \A i \in 1 .. pos' : i \in 1 .. pos \/ i \in pos + 1 .. pos'
        BY <1>2, <2>1
      <4> QED
        BY <1>1, <2>1, <2>7, <4>1 DEF AtEntry
    <3> QED
      BY <1>1, <2>1, <3>1 DEF AtEntry
  <2>9. Reading'
    BY <1>5, <1>8, <1>11, <2>7, <2>8 DEF Reading, PrefixRecovered
  <2> QED
    BY <1>3, <1>4, <2>5, <2>6, <2>9 DEF FileIInv
<1> QED
  BY <1>9, <1>10, <1>11, ReadCases

\* What is read was written.
LEMMA ReadWasWritten ==
  ASSUME FileIInv, NEW k \in DOMAIN got
  PROVE  /\ got[k] \in 1 .. Len(entries) /\ entries[got[k]] \in Written
         /\ got[k] \in DOMAIN entries
<1>1. PICK i \in 1 .. pos : file[i].id = got[k]
  BY DEF FileIInv, ReadBefore
<1>2. i \in DOMAIN file
  <2>1. file \in Seq(Units) /\ pos \in 0 .. Len(file)
    BY DEF FileIInv, TypeOK
  <2>2. Len(file) \in Nat /\ DOMAIN file = 1 .. Len(file)
    BY <2>1, LenProperties
  <2> QED
    BY <2>1, <2>2
<1>3. file[i].id \in Ids /\ file[i].id <= Len(entries)
  BY <1>2, UnitIs DEF FileIInv, Queued
<1>4. entries \in Seq(Written) /\ Len(entries) \in Nat /\ DOMAIN entries = 1 .. Len(entries)
  BY LenProperties DEF FileIInv, TypeOK
<1>5. got[k] \in 1 .. Len(entries)
  BY <1>1, <1>3, <1>4 DEF Ids
<1> QED
  BY <1>4, <1>5, ElementOfSeq

\* The place of the last entry that was read.
LEMMA LastIs ==
  ASSUME FileIInv, got # <<>> PROVE Len(got) \in DOMAIN got /\ Last(got) = got[Len(got)]
<1>1. got \in Seq(Ids)
  BY DEF FileIInv, TypeOK
<1>2. Len(got) \in Nat /\ DOMAIN got = 1 .. Len(got) /\ Len(got) # 0
  BY <1>1, LenProperties, EmptySeq
<1> QED
  BY <1>2 DEF Last

\* What was read is applied.
LEMMA ApplyKeeps == ASSUME FileIInv, Apply PROVE FileIInv'
<1>1. /\ file' = file /\ zeros' = zeros /\ sizes' = sizes
      /\ queue' = queue /\ entries' = entries
      /\ phase = "apply" /\ phase' = "run" /\ saved' = saved /\ starts' = starts
      /\ synced' = synced /\ broken' = broken /\ pos' = pos /\ got' = got
      /\ mem' = IF got = <<>> THEN mem
                ELSE [id |-> Last(got), value |-> Logged(entries[Last(got)])]
  BY DEF Apply, logVars
<1>2. mem' \in [id : 0 .. Len(entries), value : Values]
  <2>1. CASE got = <<>>
    BY <1>1, <2>1 DEF FileIInv, TypeOK
  <2>2. CASE got # <<>>
    <3>1. Last(got) \in 1 .. Len(entries) /\ entries[Last(got)] \in Values
      BY <2>2, LastIs, ReadWasWritten
    <3>2. Logged(entries[Last(got)]) \in Values
      BY <3>1, LoggedTyped
    <3>3. Last(got) \in 0 .. Len(entries)
      <4>1. Len(entries) \in Nat
        BY LenProperties DEF FileIInv, TypeOK
      <4> QED
        BY <3>1, <4>1
    <3> QED
      BY <1>1, <2>2, <3>2, <3>3
  <2> QED
    BY <2>1, <2>2
<1>3. TypeOK'
  BY <1>1, <1>2 DEF FileIInv, TypeOK
<1>4. Framed' /\ Sorted'
  BY <1>1, Untouched DEF FileIInv
<1>5. Queued'
  BY <1>1 DEF FileIInv, Queued
<1>6. ReadBefore'
  BY <1>1, Untouched DEF FileIInv, ReadBefore
<1> QED
  BY <1>1, <1>3, <1>4, <1>5, <1>6 DEF FileIInv, Reading, PrefixRecovered

-----------------------------------------------------------------------------
(***************************************************************************)
(* What a start recovers.                                                  *)
(***************************************************************************)

\* The invariant holds at first.
LEMMA InitFile == Init => FileIInv
<1> SUFFICES ASSUME Init PROVE FileIInv
  OBVIOUS
<1>1. TypeOK
  <2>1. file \in Seq(Units) /\ queue \in Seq(1 .. Len(entries)) /\ entries \in Seq(Written)
        /\ got \in Seq(Ids) /\ Len(file) = 0 /\ Len(entries) = 0
    BY EmptySeq DEF Init
  <2>2. Nothing \in [id : 0 .. 0, value : Values]
    BY DEF Nothing, Values
  <2>3. MaxWrites \in Nat /\ MaxStarts \in Nat
    BY SMT
  <2>4. broken \in BOOLEAN
    BY DEF Init
  <2> QED
    BY <2>1, <2>2, <2>3, <2>4 DEF Init, TypeOK
<1>2. DOMAIN file = {} /\ DOMAIN queue = {} /\ DOMAIN got = {}
  BY DEF Init
<1> QED
  BY <1>1, <1>2 DEF Init, FileIInv, Framed, Sorted, Queued, ReadBefore, Reading, PrefixRecovered

\* Every step keeps it.
LEMMA NextFile == FileIInv /\ [Next]_vars => FileIInv'
<1> SUFFICES ASSUME FileIInv, [Next]_vars PROVE FileIInv'
  OBVIOUS
<1>1. CASE UNCHANGED vars
  <2>1. TypeOK' /\ Queued'
    BY <1>1 DEF vars, logVars, FileIInv, TypeOK, Queued
  <2>2. Framed' /\ Sorted'
    BY <1>1, Untouched DEF vars, logVars, FileIInv
  <2>3. ReadBefore'
    BY <1>1, Untouched DEF vars, logVars, FileIInv, ReadBefore
  <2>4. BeforeTear' = BeforeTear
    BY <1>1, Untouched DEF vars, logVars, BeforeTear, Torn, Whole
  <2>5. Reading'
    BY <1>1, <2>4 DEF vars, logVars, FileIInv, Reading, AtEntry, PrefixRecovered
  <2> QED
    BY <2>1, <2>2, <2>3, <2>5 DEF FileIInv
<1> QED
  BY <1>1, WriteKeeps, FlushEntryKeeps, SaveKeeps, CrashKeeps, StartKeeps, ReadKeeps, ApplyKeeps
  DEF Next

\* The invariant of the specification.
LEMMA FileInvariance == Spec => []FileIInv
  BY InitFile, NextFile, PTL DEF Spec

\* Type correctness of the log file, the reader and the state file: what is in
\* the file are units of entries, and the reader stays within it.
THEOREM LogFileTyped == Spec => []TypeOK
<1>1. FileIInv => TypeOK
  BY DEF FileIInv
<1> QED
  BY <1>1, FileInvariance, PTL

\* Whatever a crash, a power cut or a failed write has left of the log, and
\* wherever in an entry: ReadAll gives every entry before the first torn one.
THEOREM PrefixIsRecovered == Spec => []PrefixRecovered
<1>1. FileIInv => PrefixRecovered
  BY DEF FileIInv, Reading
<1> QED
  BY <1>1, FileInvariance, PTL

\* ReadAll gives only entries that are whole in the log, each once and in the
\* order they were written, also behind a tear.
THEOREM NothingIsInvented == Spec => []NothingInvented
<1>1. FileIInv => NothingInvented
  <2> SUFFICES ASSUME FileIInv PROVE NothingInvented
    OBVIOUS
  <2>1. \A i \in 1 .. pos : i \in 1 .. Len(file)
    <3>1. file \in Seq(Units) /\ pos \in 0 .. Len(file)
      BY DEF FileIInv, TypeOK
    <3>2. Len(file) \in Nat
      BY <3>1, LenProperties
    <3> QED
      BY <3>1, <3>2
  <2>2. \A k \in DOMAIN got : got[k] \in Whole
    BY <2>1 DEF FileIInv, ReadBefore, Whole
  <2> QED
    BY <2>2 DEF FileIInv, ReadBefore, NothingInvented, ToSet
<1> QED
  BY <1>1, FileInvariance, PTL

\* An entry that is still to be flushed is newer than what is saved; a reload
\* ends with the last entry read, which is no older than the saved one.
LEMMA NextNoStepBack == FileIInv /\ NoStepBack /\ [Next]_vars => NoStepBack'
<1> SUFFICES ASSUME FileIInv, NoStepBack, [Next]_vars PROVE NoStepBack'
  OBVIOUS
<1>1. /\ Len(entries) \in Nat /\ mem.id \in 0 .. Len(entries) /\ saved.id \in 0 .. Len(entries)
      /\ entries \in Seq(Written)
  BY LenProperties DEF FileIInv, TypeOK
<1>2. ASSUME file' = file, zeros' = zeros, sizes' = sizes PROVE BeforeTear' = BeforeTear
  BY <1>2, Untouched DEF BeforeTear, Torn, Whole
<1>3. CASE Write
  <2>1. Len(entries') = Len(entries) + 1 /\ mem'.id = Len(entries') /\ saved' = saved
    <3>1. PICK v \in Written : /\ entries' = Append(entries, v)
                                /\ mem' = [id |-> Len(entries'), value |-> v]
      BY <1>3 DEF Write
    <3>2. Len(Append(entries, v)) = Len(entries) + 1
      BY <1>1, AppendProperties
    <3> QED
      BY <1>3, <3>1, <3>2 DEF Write
  <2> QED
    BY <1>1, <2>1 DEF NoStepBack
<1>4. CASE FlushEntry \/ FlushFails
  <2>1. mem.id = Len(entries) /\ mem' = mem /\ saved' = saved
    BY <1>4 DEF FlushEntry, FlushFails, FileIInv, Queued
  <2> QED
    BY <1>1, <2>1 DEF NoStepBack
<1>5. CASE Sync \/ UNCHANGED vars
  <2>1. UNCHANGED <<phase, file, zeros, sizes, mem, saved, starts>>
    BY <1>5 DEF Sync, vars, logVars
  <2> QED
    BY <1>2, <2>1 DEF NoStepBack
<1>6. CASE Save
  <2>1. saved'.id = mem.id /\ mem' = mem
    BY <1>6 DEF Save, FileIInv, TypeOK
  <2> QED
    BY <1>1, <2>1 DEF NoStepBack
<1>7. CASE Crash \/ Start
  BY <1>7 DEF Crash, Start, NoStepBack
<1>8. CASE ReadEntry
  <2>1. phase' # "run"
    BY <1>8, ReadCases
  <2> QED
    BY <2>1 DEF NoStepBack
<1>9. CASE Apply
  <2>1. /\ file' = file /\ zeros' = zeros /\ sizes' = sizes /\ saved' = saved /\ phase = "apply"
        /\ mem' = IF got = <<>> THEN mem
                  ELSE [id |-> Last(got), value |-> Logged(entries[Last(got)])]
    BY <1>9 DEF Apply, logVars
  <2> SUFFICES ASSUME saved.id \in BeforeTear PROVE mem'.id >= saved.id
    BY <1>2, <2>1 DEF NoStepBack
  <2>2. saved.id \in ToSet(got)
    BY <2>1 DEF FileIInv, Reading, PrefixRecovered
  <2>3. PICK k \in DOMAIN got : got[k] = saved.id
    BY <2>2 DEF ToSet
  <2>4. got # <<>> /\ DOMAIN got = 1 .. Len(got)
    BY <2>3, LenProperties DEF FileIInv, TypeOK
  <2>5. Len(got) \in DOMAIN got /\ Last(got) = got[Len(got)] /\ got[Len(got)] \in 1 .. Len(entries)
    BY <2>4, LastIs, ReadWasWritten
  <2>6. k = Len(got) \/ got[k] < got[Len(got)]
    <3>1. k = Len(got) \/ k < Len(got)
      BY <2>4, <2>5
    <3> QED
      BY <2>5, <3>1 DEF FileIInv, ReadBefore
  <2>7. mem'.id = got[Len(got)]
    BY <2>1, <2>4, <2>5
  <2> QED
    BY <1>1, <2>3, <2>5, <2>6, <2>7
<1> QED
  BY <1>3, <1>4, <1>5, <1>6, <1>7, <1>8, <1>9 DEF Next

\* A start does not put an older value in the place of the saved one, where
\* the log can be read up to that one.
THEOREM NoStartStepsBack == Spec => []NoStepBack
<1>1. Init => NoStepBack
  BY DEF Init, NoStepBack
<1> QED
  BY <1>1, NextNoStepBack, FileInvariance, PTL DEF Spec

\* Where only faithful types are written, what is in memory and in the state
\* file is one of the forms of what was written.
LEMMA NextForms ==
  ASSUME Written \subseteq Faithful, FileIInv, FormsKept, [Next]_vars PROVE FormsKept'
<1>1. /\ entries \in Seq(Written) /\ Len(entries) \in Nat /\ DOMAIN entries = 1 .. Len(entries)
      /\ mem \in [id : 0 .. Len(entries), value : Values]
      /\ saved \in [id : 0 .. Len(entries), value : Values]
  BY LenProperties DEF FileIInv, TypeOK
<1>2. \A k \in DOMAIN entries : entries[k] \in Faithful
  BY <1>1, ElementOfSeq
<1>3. CASE Write
  <2>1. PICK v \in Written : /\ entries' = Append(entries, v)
                             /\ mem' = [id |-> Len(entries'), value |-> v]
    BY <1>3 DEF Write
  <2>2. /\ Len(entries') = Len(entries) + 1 /\ DOMAIN entries' = 1 .. Len(entries) + 1
        /\ \A k \in 1 .. Len(entries) : entries'[k] = entries[k]
        /\ entries'[Len(entries) + 1] = v
    <3>1. /\ Append(entries, v) \in Seq(Written) /\ Len(Append(entries, v)) = Len(entries) + 1
          /\ \A k \in 1 .. Len(entries) : Append(entries, v)[k] = entries[k]
          /\ Append(entries, v)[Len(entries) + 1] = v
      BY <1>1, AppendProperties
    <3>2. DOMAIN Append(entries, v) = 1 .. Len(Append(entries, v))
      BY <3>1, LenProperties
    <3> QED
      BY <2>1, <3>1, <3>2
  <2>3. Kept(mem)'
    <3>1. mem'.id = Len(entries) + 1 /\ mem'.value = v /\ Len(entries) + 1 \in DOMAIN entries'
      BY <1>1, <2>1, <2>2
    <3> QED
      BY <2>2, <3>1 DEF Kept, Forms
  <2>4. Kept(saved)'
    <3>1. saved' = saved
      BY <1>3 DEF Write
    <3>2. saved # Nothing => /\ saved.id \in 1 .. Len(entries) /\ saved.id \in DOMAIN entries'
                             /\ saved.value \in Forms(entries[saved.id])
      BY <1>1, <2>2 DEF FormsKept, Kept
    <3> QED
      BY <2>2, <3>1, <3>2 DEF Kept
  <2> QED
    BY <2>3, <2>4 DEF FormsKept
<1>4. CASE Save
  <2>1. /\ saved' = [id |-> mem.id, value |-> Json(mem.value)]
        /\ entries' = entries /\ mem' = mem /\ mem # Nothing
    BY <1>1, <1>4 DEF Save, logVars
  <2>2. mem.id \in DOMAIN entries /\ mem.value \in Forms(entries[mem.id])
    BY <2>1 DEF FormsKept, Kept
  <2>3. Json(mem.value) \in Forms(entries[mem.id])
    BY <1>2, <2>2, FormsAreRead
  <2>4. Kept(saved)'
    BY <2>1, <2>2, <2>3 DEF Kept
  <2> QED
    BY <2>1, <2>4 DEF FormsKept, Kept
<1>5. CASE Apply
  <2>1. /\ entries' = entries /\ saved' = saved
        /\ mem' = IF got = <<>> THEN mem
                  ELSE [id |-> Last(got), value |-> Logged(entries[Last(got)])]
    BY <1>5 DEF Apply, logVars
  <2>2. CASE got = <<>>
    BY <2>1, <2>2 DEF FormsKept, Kept
  <2>3. CASE got # <<>>
    <3>1. Last(got) \in DOMAIN entries
      BY <2>3, LastIs, ReadWasWritten
    <3>2. Logged(entries[Last(got)]) \in Forms(entries[Last(got)])
      <4>1. entries[Last(got)] \in Forms(entries[Last(got)])
        BY DEF Forms
      <4> QED
        BY <1>2, <3>1, <4>1, FormsAreRead
    <3>3. mem' = [id |-> Last(got), value |-> Logged(entries[Last(got)])]
      BY <2>1, <2>3
    <3>4. Kept(mem)'
      BY <2>1, <3>1, <3>2, <3>3 DEF Kept
    <3> QED
      BY <2>1, <3>4 DEF FormsKept, Kept
  <2> QED
    BY <2>2, <2>3
<1>6. CASE FlushEntry \/ FlushFails \/ Sync \/ ReadEntry \/ UNCHANGED vars
  <2>1. UNCHANGED <<entries, mem, saved>>
    BY <1>6 DEF FlushEntry, FlushFails, Sync, ReadEntry, vars, logVars
  <2> QED
    BY <2>1 DEF FormsKept, Kept
<1>7. CASE Crash \/ Start
  <2>1. entries' = entries /\ saved' = saved /\ (mem' = Nothing \/ mem' = saved)
    BY <1>7 DEF Crash, Start, logVars
  <2> QED
    BY <2>1 DEF FormsKept, Kept
<1> QED
  BY <1>3, <1>4, <1>5, <1>6, <1>7 DEF Next

\* Where the application writes strings, booleans, float64, maps of these, and
\* structs of numbers, strings, booleans and []string, a Read answers after any
\* number of starts, from the log or the state file, what it did at first.
THEOREM WrittenIsRead ==
  ASSUME Written \subseteq Faithful PROVE Spec => []ReadsWhatWasWritten
<1>1. Init => FormsKept
  BY DEF Init, FormsKept, Kept
<1>2. FileIInv /\ FormsKept /\ [Next]_vars => FormsKept'
  BY NextForms
<1>3. FileIInv /\ FormsKept => ReadsWhatWasWritten
  <2> SUFFICES ASSUME FileIInv, FormsKept, mem # Nothing,
                      NEW v \in {mem.value, Copied(mem.value)}
               PROVE  ReadInto(v, entries[mem.id]) = ReadInto(entries[mem.id], entries[mem.id])
    BY DEF ReadsWhatWasWritten
  <2>1. mem.id \in DOMAIN entries /\ mem.value \in Forms(entries[mem.id])
    BY DEF FormsKept, Kept
  <2>2. entries[mem.id] \in Faithful
    <3>1. entries \in Seq(Written)
      BY DEF FileIInv, TypeOK
    <3> QED
      BY <2>1, <3>1, LenProperties, ElementOfSeq
  <2>3. v \in Forms(entries[mem.id])
    BY <2>1, <2>2, FormsAreRead
  <2> QED
    BY <2>2, <2>3, FormsAreRead
<1> QED
  BY <1>1, <1>2, <1>3, FileInvariance, PTL DEF Spec

-----------------------------------------------------------------------------
(***************************************************************************)
(* Backups: what the cleaners may remove.                                  *)
(***************************************************************************)

HIDE RecoveryAssumption
USE BackupAssumption

\* The backups with later names than n.
Newer(n) == {m \in Present : m > n}

\* The invariant: what a cleaner has still to remove has KeepCount newer
\* backups beside it, whatever others have removed meanwhile.  Each removal has
\* the same premise, so the newest KeepCount never go.
ListsAreOld ==
  \A c \in Backups : \A n \in todo[c] : Cardinality(Newer(n)) >= KeepCount

\* The backup under way has no cleaner yet, nor have those to come.
Fresh ==
  /\ creator # "idle" => taken \in Backups
  /\ \A c \in Backups : c > taken \/ (c = taken /\ creator # "idle")
       => c \notin starting /\ todo[c] = {}

BackupIInv == BackupTypeOK /\ Fresh /\ ListsAreOld

\* The names are finitely many.
LEMMA NamesFinite == IsFiniteSet(Names)
<1>1. MaxTime \in Int
  OBVIOUS
<1> QED BY <1>1, FS_Interval DEF Names

\* So are the backups newer than one of them.
LEMMA NewerFinite ==
  ASSUME NEW n PROVE IsFiniteSet(Newer(n)) /\ Cardinality(Newer(n)) \in Nat
<1>1. Newer(n) \subseteq Names
  BY DEF Newer, Present
<1> QED BY <1>1, NamesFinite, FS_Subset, FS_CardinalityType

\* More files are newer than n if the files only become more.
LEMMA NewerGrows ==
  ASSUME ListsAreOld, Present \subseteq Present', UNCHANGED todo
  PROVE  \A c \in Backups : \A n \in todo'[c] : Cardinality(Newer(n)') >= KeepCount
<1> SUFFICES ASSUME NEW c \in Backups, NEW n \in todo[c]
             PROVE  Cardinality(Newer(n)') >= KeepCount
  OBVIOUS
<1>1. Newer(n) \subseteq Newer(n)' /\ Newer(n)' \subseteq Names
  BY DEF Newer, Present
<1>2. IsFiniteSet(Newer(n)')
  BY <1>1, NamesFinite, FS_Subset
<1>3. /\ Cardinality(Newer(n)) <= Cardinality(Newer(n)')
      /\ Cardinality(Newer(n)) \in Nat /\ Cardinality(Newer(n)') \in Nat
  BY <1>1, <1>2, NewerFinite, FS_Subset, FS_CardinalityType
<1> QED BY <1>3 DEF ListsAreOld

\* Removing a file with KeepCount newer ones leaves as many beside every other
\* file that had them: what is newer than n is newer than any m < n.
LEMMA RemovalKeeps ==
  ASSUME NEW n \in Names, NEW m \in Names,
         Cardinality(Newer(n)) >= KeepCount, Cardinality(Newer(m)) >= KeepCount,
         Present \ {n} \subseteq Present', Present' \subseteq Names
  PROVE  Cardinality(Newer(m)') >= KeepCount
<1>1. IsFiniteSet(Newer(m)')
  <2>1. Newer(m)' \subseteq Names
    BY DEF Newer
  <2> QED BY <2>1, NamesFinite, FS_Subset
<1>2. Newer(n) \subseteq Newer(m)' \/ Newer(m) \subseteq Newer(m)'
  <2>1. n \in Int /\ m \in Int /\ \A x \in Present : x \in Int
    BY DEF Names, Present
  <2>2. CASE m < n
    BY <2>1, <2>2 DEF Newer
  <2>3. CASE m >= n
    BY <2>1, <2>3 DEF Newer
  <2> QED BY <2>1, <2>2, <2>3
<1>3. /\ Cardinality(Newer(n)) \in Nat /\ Cardinality(Newer(m)) \in Nat
      /\ Cardinality(Newer(m)') \in Nat
  BY <1>1, NewerFinite, FS_CardinalityType
<1>4. \/ Cardinality(Newer(n)) <= Cardinality(Newer(m)')
      \/ Cardinality(Newer(m)) <= Cardinality(Newer(m)')
  BY <1>1, <1>2, FS_Subset
<1> QED BY <1>3, <1>4

\* The invariant holds at first.
LEMMA InitBackup == BackupInit => BackupIInv
<1> SUFFICES ASSUME BackupInit PROVE BackupIInv
  OBVIOUS
<1>1. 1 \in Names /\ 0 \in 0 .. MaxBackups /\ 0 \in 0 .. MaxCrashes /\ 0 \in 0 .. 0
  BY DEF Names
<1>2. BackupTypeOK
  BY <1>1 DEF BackupInit, BackupTypeOK
<1> QED BY <1>2 DEF BackupInit, BackupIInv, Fresh, ListsAreOld

\* Every step keeps the types, and cleaners belong to finished backups.
LEMMA StepTyped ==
  BackupTypeOK /\ Fresh /\ [BackupNext]_backupVars => BackupTypeOK' /\ Fresh'
<1> SUFFICES ASSUME BackupTypeOK, Fresh, [BackupNext]_backupVars
             PROVE  BackupTypeOK' /\ Fresh'
  OBVIOUS
<1>1. CASE Tick
  BY <1>1 DEF Tick, BackupTypeOK, Fresh, Names
<1>2. CASE Snapshot
  BY <1>2 DEF Snapshot, BackupTypeOK, Fresh, Backups
<1>3. CASE OpenFile
  BY <1>3 DEF OpenFile, BackupTypeOK, Fresh, Backups
<1>4. CASE WriteFile
  BY <1>4 DEF WriteFile, BackupTypeOK, Fresh, Backups
<1>5. CASE WriteFails
  BY <1>5 DEF WriteFails, BackupTypeOK, Fresh, Backups
<1>6. CASE ProcessEnds
  BY <1>6 DEF ProcessEnds, BackupTypeOK, Fresh, Backups
<1>7. ASSUME NEW c \in Backups, List(c) PROVE BackupTypeOK' /\ Fresh'
  BY <1>7 DEF List, BackupTypeOK, Fresh, Backups, Oldest, Present
<1>8. ASSUME NEW c \in Backups, RemoveBackup(c) PROVE BackupTypeOK' /\ Fresh'
  BY <1>8 DEF RemoveBackup, BackupTypeOK, Fresh, Backups
<1>9. CASE UNCHANGED backupVars
  BY <1>9 DEF backupVars, BackupTypeOK, Fresh
<1> QED BY <1>1, <1>2, <1>3, <1>4, <1>5, <1>6, <1>7, <1>8, <1>9 DEF BackupNext

\* Every step keeps the lists true enough: files are added, or one with enough
\* newer ones goes.
LEMMA StepListsAreOld == BackupIInv /\ BackupTypeOK' /\ [BackupNext]_backupVars => ListsAreOld'
<1> SUFFICES ASSUME BackupTypeOK, Fresh, ListsAreOld, BackupTypeOK', [BackupNext]_backupVars
             PROVE  ListsAreOld'
  BY DEF BackupIInv
<1>1. CASE Tick \/ Snapshot \/ WriteFails \/ UNCHANGED backupVars
  <2>1. UNCHANGED <<files, todo>>
    BY <1>1 DEF Tick, Snapshot, WriteFails, backupVars
  <2> QED BY <2>1 DEF ListsAreOld, Newer, Present
<1>2. CASE OpenFile
  <2>1. Present \subseteq Present' /\ UNCHANGED todo
    BY <1>2 DEF OpenFile, BackupTypeOK, Present, Missing, Partial
  <2> QED BY <2>1, NewerGrows DEF ListsAreOld
<1>3. CASE WriteFile
  <2>1. taken # Missing
    BY <1>3 DEF WriteFile, Fresh, Backups, Missing
  <2>2. Present \subseteq Present' /\ UNCHANGED todo
    BY <1>3, <2>1 DEF WriteFile, BackupTypeOK, Present
  <2> QED BY <2>2, NewerGrows DEF ListsAreOld
<1>4. CASE ProcessEnds
  BY <1>4 DEF ProcessEnds, ListsAreOld
<1>5. ASSUME NEW c \in Backups, List(c) PROVE ListsAreOld'
  <2>1. \A n : Newer(n)' = Newer(n)
    BY <1>5 DEF List, Newer, Present
  <2>2. \A n \in Oldest : Cardinality(Newer(n)) >= KeepCount
    BY DEF Oldest, Newer
  <2> QED BY <1>5, <2>1, <2>2 DEF List, ListsAreOld, BackupTypeOK
<1>6. ASSUME NEW c \in Backups, RemoveBackup(c) PROVE ListsAreOld'
  <2>1. PICK n \in todo[c] : /\ todo' = [todo EXCEPT ![c] = todo[c] \ {n}]
                             /\ files' = [files EXCEPT ![n] = Missing] \/ UNCHANGED files
    BY <1>6 DEF RemoveBackup
  <2>2. n \in Names /\ Cardinality(Newer(n)) >= KeepCount
    BY DEF ListsAreOld, BackupTypeOK
  <2>3. Present \ {n} \subseteq Present' /\ Present' \subseteq Names
    BY <2>1 DEF BackupTypeOK, Present
  <2>4. \A d \in Backups : todo'[d] \subseteq todo[d] /\ todo[d] \subseteq Names
    BY <2>1 DEF BackupTypeOK
  <2>5. ASSUME NEW d \in Backups, NEW m \in todo[d]
        PROVE  Cardinality(Newer(m)') >= KeepCount
    <3>1. m \in Names
      BY <2>4
    <3>2. Cardinality(Newer(m)) >= KeepCount
      BY DEF ListsAreOld
    <3> QED BY <2>2, <2>3, <3>1, <3>2, RemovalKeeps
  <2> QED BY <2>4, <2>5 DEF ListsAreOld
<1> QED BY <1>1, <1>2, <1>3, <1>4, <1>5, <1>6 DEF BackupNext

\* The invariant of the specification.
LEMMA BackupInvariance == BackupSpec => []BackupIInv
<1>1. BackupIInv /\ [BackupNext]_backupVars => BackupIInv'
  BY StepTyped, StepListsAreOld DEF BackupIInv
<1> QED BY <1>1, InitBackup, PTL DEF BackupSpec

\* Type correctness of the backup directory and of the lists of the cleaners.
THEOREM BackupTyped == BackupSpec => []BackupTypeOK
<1>1. BackupIInv => BackupTypeOK
  BY DEF BackupIInv
<1> QED BY <1>1, BackupInvariance, PTL

\* Only a backup with KeepCount newer ones beside it is ever removed: cleaners
\* at work together, from lists that are no longer true, never remove more.
THEOREM NewestAreKept == BackupSpec => NewestKept
<1>1. BackupIInv /\ [BackupNext]_backupVars
        => [\A n \in Present :
              files'[n] = Missing
                => Cardinality({m \in Present : m > n}) >= KeepCount]_backupVars
  <2> SUFFICES ASSUME BackupIInv, BackupNext, NEW n \in Present, files'[n] = Missing
               PROVE  Cardinality(Newer(n)) >= KeepCount
    BY DEF Newer
  <2>1. n \in Names /\ files[n] # Missing
    BY DEF Present
  <2>2. ~(OpenFile \/ WriteFile)
    BY <2>1 DEF OpenFile, WriteFile, BackupIInv, BackupTypeOK, Fresh, Backups, Missing, Partial
  <2>3. PICK c \in Backups : RemoveBackup(c)
    BY <2>1, <2>2 DEF BackupNext, Tick, Snapshot, WriteFails, ProcessEnds, List
  <2>4. n \in todo[c]
    BY <2>1, <2>3 DEF RemoveBackup, BackupIInv, BackupTypeOK
  <2> QED BY <2>4 DEF BackupIInv, ListsAreOld
<1> QED BY <1>1, BackupInvariance, PTL DEF BackupSpec, NewestKept

-----------------------------------------------------------------------------
(***************************************************************************)
(* That a whole backup stays, and that the cleaners get done.              *)
(***************************************************************************)

\* Where no write or removal failed, and no cleaner is to come for the last
\* backup, every file to remove is on somebody's list: a cleaner that starts
\* late lists what one before it has missed.
Listed ==
  ~trouble /\ creator = "idle" /\ starting = {}
    => \A n \in Oldest : \E c \in Backups : n \in todo[c]

\* The newer backups beside a file that a cleaner removes stay: either one of
\* them is whole, or there are KeepCount that are cut off.
LEMMA RemovalSpares ==
  ASSUME BackupIInv, NEW c \in Backups, RemoveBackup(c) PROVE OneIsWhole'
<1>1. PICK n \in todo[c] :
        files' = [files EXCEPT ![n] = Missing] \/ UNCHANGED files
  BY DEF RemoveBackup
<1>2. Cardinality(Newer(n)) >= KeepCount /\ n \in Names
  BY DEF BackupIInv, ListsAreOld, BackupTypeOK
<1>3. \A m \in Names : m # n => files'[m] = files[m]
  BY <1>1, <1>2 DEF BackupIInv, BackupTypeOK
<1>4. Newer(n) \subseteq Present'
  BY <1>2, <1>3 DEF Newer, Present, Names
<1>5. IsFiniteSet(Present')
  <2>1. Present' \subseteq Names
    BY DEF Present
  <2> QED BY <2>1, NamesFinite, FS_Subset
<1>6. /\ Cardinality(Present') \in Nat
      /\ Cardinality(Newer(n)) \in Nat
      /\ Cardinality(Newer(n)) <= Cardinality(Present')
  BY <1>4, <1>5, NewerFinite, FS_Subset, FS_CardinalityType
<1>7. CASE WholeFiles' = {}
  <2>1. (Present \ WholeFiles)' = Present'
    BY <1>7
  <2>2. ~(Cardinality((Present \ WholeFiles)') < KeepCount)
    BY <1>2, <1>6, <2>1
  <2> QED BY <2>2 DEF OneIsWhole
<1>8. CASE WholeFiles' # {}
  BY <1>8 DEF OneIsWhole
<1> QED BY <1>7, <1>8

\* Only a removal can take the last whole backup, and it does not.
LEMMA StepOneIsWhole == BackupIInv /\ OneIsWhole /\ [BackupNext]_backupVars => OneIsWhole'
<1> SUFFICES ASSUME BackupIInv, OneIsWhole, [BackupNext]_backupVars PROVE OneIsWhole'
  OBVIOUS
<1>1. CASE UNCHANGED <<files, lastDone, overwrote>>
  BY <1>1 DEF OneIsWhole, Present, WholeFiles
<1>2. CASE OpenFile
  <2>1. CASE files[now] # Missing
    BY <1>2, <2>1 DEF OpenFile, OneIsWhole
  <2>2. CASE files[now] = Missing
    <3>1. WholeFiles' = WholeFiles
      BY <1>2, <2>2 DEF OpenFile, WholeFiles, Backups, Missing, Partial, BackupIInv, BackupTypeOK
    <3>2. Present \ WholeFiles \subseteq (Present \ WholeFiles)'
      BY <1>2, <2>2, <3>1 DEF OpenFile, Present, Missing, Partial, BackupIInv, BackupTypeOK
    <3>3. IsFiniteSet((Present \ WholeFiles)')
      <4>1. (Present \ WholeFiles)' \subseteq Names
        BY DEF Present
      <4> QED BY <4>1, NamesFinite, FS_Subset
    <3>4. /\ Cardinality(Present \ WholeFiles) \in Nat
          /\ Cardinality((Present \ WholeFiles)') \in Nat
          /\ Cardinality(Present \ WholeFiles) <= Cardinality((Present \ WholeFiles)')
      BY <3>2, <3>3, FS_Subset, FS_CardinalityType
    <3>5. overwrote' = overwrote /\ lastDone' = lastDone
      BY <1>2, <2>2 DEF OpenFile, BackupIInv, BackupTypeOK
    <3> QED BY <3>1, <3>4, <3>5 DEF OneIsWhole
  <2> QED BY <2>1, <2>2
<1>3. CASE WriteFile
  <2>1. name \in WholeFiles'
    BY <1>3 DEF WriteFile, WholeFiles, BackupIInv, BackupTypeOK, Fresh
  <2> QED BY <2>1 DEF OneIsWhole
<1>4. ASSUME NEW c \in Backups, RemoveBackup(c) PROVE OneIsWhole'
  BY <1>4, RemovalSpares
<1>5. CASE Tick \/ Snapshot \/ WriteFails \/ ProcessEnds \/ UNCHANGED backupVars
  BY <1>1, <1>5 DEF Tick, Snapshot, WriteFails, ProcessEnds, backupVars
<1>6. ASSUME NEW c \in Backups, List(c) PROVE OneIsWhole'
  BY <1>1, <1>6 DEF List
<1> QED BY <1>2, <1>3, <1>4, <1>5, <1>6 DEF BackupNext

\* Once a backup was completed there is a complete one, whatever the cleaners
\* remove, unless as many as are kept were cut off or one was overwritten.
THEOREM OneStaysWhole == BackupSpec => []OneIsWhole
<1>1. BackupInit => OneIsWhole
  BY DEF BackupInit, OneIsWhole
<1> QED BY <1>1, StepOneIsWhole, BackupInvariance, PTL DEF BackupSpec

\* With fewer files, fewer are too old.
LEMMA OldestShrinks ==
  ASSUME Present' \subseteq Present PROVE Oldest' \subseteq Oldest
<1> SUFFICES ASSUME NEW n \in Oldest' PROVE n \in Oldest
  OBVIOUS
<1>1. n \in Present /\ Cardinality(Newer(n)') >= KeepCount
  BY DEF Oldest, Newer
<1>2. Newer(n)' \subseteq Newer(n)
  BY DEF Newer
<1>3. /\ Cardinality(Newer(n)') <= Cardinality(Newer(n))
      /\ Cardinality(Newer(n)) \in Nat /\ Cardinality(Newer(n)') \in Nat
  BY <1>2, NewerFinite, FS_Subset, FS_CardinalityType
<1> QED BY <1>1, <1>3 DEF Oldest, Newer

\* A new cleaner lists all there is to remove; a removed file is on no list.
LEMMA StepListed == BackupIInv /\ Listed /\ [BackupNext]_backupVars => Listed'
<1> SUFFICES ASSUME BackupTypeOK, Listed, [BackupNext]_backupVars PROVE Listed'
  BY DEF BackupIInv
<1>1. CASE Snapshot \/ OpenFile \/ WriteFile \/ WriteFails \/ ProcessEnds
  BY <1>1 DEF Snapshot, OpenFile, WriteFile, WriteFails, ProcessEnds, Listed
<1>2. CASE Tick \/ UNCHANGED backupVars
  BY <1>2 DEF Tick, backupVars, Listed, Oldest, Present
<1>3. ASSUME NEW c \in Backups, List(c) PROVE Listed'
  <2>1. Oldest' = Oldest /\ todo'[c] = Oldest
    BY <1>3 DEF List, Oldest, Present, BackupTypeOK
  <2> QED BY <2>1 DEF Listed
<1>4. ASSUME NEW c \in Backups, RemoveBackup(c) PROVE Listed'
  <2> SUFFICES ASSUME ~trouble', creator' = "idle", starting' = {}, NEW m \in Oldest'
               PROVE  \E d \in Backups : m \in todo'[d]
    BY DEF Listed
  <2>1. PICK n \in todo[c] : /\ todo' = [todo EXCEPT ![c] = todo[c] \ {n}]
                             /\ files' = [files EXCEPT ![n] = Missing]
                             /\ UNCHANGED trouble
    BY <1>4 DEF RemoveBackup
  <2>2. n \in Names
    BY DEF BackupTypeOK
  <2>3. Present' \subseteq Present \ {n}
    BY <2>1, <2>2 DEF Present, BackupTypeOK
  <2>4. m \in Oldest /\ m # n
    BY <2>3, OldestShrinks DEF Oldest
  <2>5. PICK d \in Backups : m \in todo[d]
    BY <1>4, <2>1, <2>4 DEF Listed, RemoveBackup
  <2> QED BY <2>1, <2>4, <2>5 DEF BackupTypeOK
<1> QED BY <1>1, <1>2, <1>3, <1>4 DEF BackupNext

\* Of some files one has the first name.
LEMMA LeastName ==
  ASSUME NEW S, S \subseteq Names, S # {}
  PROVE  \E n \in S : \A m \in S : n <= m
<1>1. S \subseteq Nat
  BY DEF Names
<1>2. IsWellFoundedOn(OpToRel(<, Nat), Nat)
  BY NatLessThanWellFounded
<1>3. PICK n \in S : \A m \in S : ~(<<m, n>> \in OpToRel(<, Nat))
  BY <1>1, <1>2, WFMin
<1>4. \A m \in S : m \in Nat /\ n \in Nat
  BY <1>1
<1>5. \A m \in S : ~(m < n)
  BY <1>3, <1>4 DEF OpToRel
<1> QED BY <1>4, <1>5

\* The oldest of more than KeepCount files is to be removed.
LEMMA SomeIsOld ==
  ASSUME ~(Cardinality(Present) <= KeepCount) PROVE Oldest # {}
<1>1. /\ Present \subseteq Names /\ IsFiniteSet(Present)
      /\ Cardinality(Present) \in Nat /\ KeepCount \in Nat
  <2>1. Present \subseteq Names
    BY DEF Present
  <2> QED BY <2>1, NamesFinite, FS_Subset, FS_CardinalityType
<1>2. Present # {}
  BY <1>1, FS_EmptySet
<1>3. PICK n \in Present : \A m \in Present : n <= m
  BY <1>1, <1>2, LeastName
<1>4. Newer(n) = Present \ {n}
  <2>1. \A m \in Present : m \in Int /\ n \in Int
    BY <1>1 DEF Names
  <2>2. \A m \in Present : m > n <=> m # n
    BY <1>3, <2>1
  <2> QED BY <2>2 DEF Newer
<1>5. Cardinality(Newer(n)) = Cardinality(Present) - 1
  BY <1>1, <1>3, <1>4, FS_RemoveElement
<1>6. n \in Oldest
  BY <1>1, <1>5 DEF Oldest, Newer
<1> QED BY <1>6

\* When the cleaners are done, and nothing failed, no more than KeepCount
\* backups are left, however many were at work and in whatever order.
THEOREM CleanersClean == BackupSpec => []Cleaned
<1>1. BackupInit => Listed
  BY DEF BackupInit, Listed, Oldest, Present
<1>2. Listed => Cleaned
  BY SomeIsOld DEF Listed, Cleaned
<1> QED BY <1>1, <1>2, StepListed, BackupInvariance, PTL DEF BackupSpec

=============================================================================
