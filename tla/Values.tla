------------------------------- MODULE Values -------------------------------
(***************************************************************************)
(* What becomes of a value of polarysdb on its way through the log         *)
(* (modules/encoding/serialize.go), through the state file (encoding/json  *)
(* into any), through a defensive copy (deepCopyValue of database.go) and  *)
(* into the destination of a Read (to of database.go, modules/mapper).     *)
(*                                                                         *)
(* A value is known by its Go type, and by that of the members of a        *)
(* composite one, which are all alike: [class, of].  "int" stands for int, *)
(* int8 .. int32, and "uint" for the like; numbers are below 2^53, beyond  *)
(* which JSON rounds them.  A composite member of a composite is a slice,  *)
(* and pointers, arrays and gonum numbers are left out.                    *)
(***************************************************************************)

Integral == {"int", "int64", "uint", "uint64"}
Floating == {"float32", "float64"}
Numbers  == Integral \cup Floating
\* "base64" is a string that holds the base64 text of bytes.
Scalars  == Numbers \cup {"bool", "string", "base64", "bytes"}
\* Slices as members: typed ones, and []any with members of one kind.
Slices   == {"[]int", "[]string", "[]any of float64", "[]any of string"}
Members  == Scalars \cup Slices
\* struct: a struct type; map: map[string]any; list: []any; slice: a typed slice.
Composites == {"struct", "map", "list", "slice"}

Scalar(c) == [class |-> c, of |-> "none"]
Nil == Scalar("nil")

Values == {Nil} \cup {Scalar(c) : c \in Scalars} \cup [class : Composites, of : Members]
\* Destinations of a Read: *any, or a variable of the type of a value.
Types  == {Scalar("any")} \cup (Values \ {Nil})

-----------------------------------------------------------------------------

\* json.Marshal, and json.Unmarshal into any.
JsonMember(m) ==
  CASE m \in Numbers  -> "float64"
    [] m = "bytes"    -> "base64"
    [] m = "[]int"    -> "[]any of float64"
    [] m = "[]string" -> "[]any of string"
    [] OTHER          -> m

JsonClass(c) ==
  CASE c \in Composites -> IF c \in {"struct", "map"} THEN "map" ELSE "list"
    [] OTHER            -> JsonMember(c)

Json(v) == [class |-> JsonClass(v.class), of |-> JsonMember(v.of)]

\* SerializeValue: a tag for each kind, decimal text for numbers of any width,
\* JSON for the rest.
Serialized(v) ==
  CASE v.class \in {"int", "int64"}         -> [tag |-> "tagInt", payload |-> v]
    [] v.class \in {"uint", "uint64"}       -> [tag |-> "tagUint", payload |-> v]
    [] v.class \in Floating                 -> [tag |-> "tagFloat", payload |-> v]
    [] v.class \in (Scalars \ Numbers) \cup {"nil"} -> [tag |-> "own", payload |-> v]
    [] OTHER                                -> [tag |-> "tagJSON", payload |-> v]

\* DeserializeValue: the widest type of the tag.
Deserialized(s) ==
  CASE s.tag = "tagInt"   -> Scalar("int64")
    [] s.tag = "tagUint"  -> Scalar("uint64")
    [] s.tag = "tagFloat" -> Scalar("float64")
    [] s.tag = "own"      -> s.payload
    [] s.tag = "tagJSON"  -> Json(s.payload)

Logged(v) == Deserialized(Serialized(v))

\* deepCopyValue: map[string]any and []any member by member, JSON for every
\* type that it does not know.
CopiedMember(m) == IF m \in Slices THEN JsonMember(m) ELSE m
Copied(v) ==
  CASE v.class \in Scalars \cup {"nil"} -> v
    [] v.class \in {"map", "list"}      -> [v EXCEPT !.of = CopiedMember(@)]
    [] OTHER                            -> Json(v)

-----------------------------------------------------------------------------
(***************************************************************************)
(* Read.  A struct is filled field by field; "zero" is a field that was    *)
(* left alone, "empty" a slice whose members were dropped, and "text" bytes*)
(* that are the base64 text of what was written.                           *)
(***************************************************************************)

\* convertInt, convertUint, convertFloat.
NumberField(m, f) == IF m \in Numbers THEN f ELSE "zero"

\* convertBytes: a string gives its own bytes, base64 text or not.
BytesField(m) ==
  CASE m = "string"                     -> "bytes"
    [] m = "base64"                     -> "text"
    [] m = "[]any of float64"           -> "bytes"
    [] OTHER                            -> "zero"

\* convertSliceStructSafe: members that are not assignable are dropped.
SliceField(m, f) ==
  CASE m = "[]any of string" /\ f = "[]string" -> "[]string"
    [] m = "[]any of string" /\ f = "[]int" -> "empty"
    [] m = "[]any of float64"
         /\ f \in {"[]int", "[]string"}        -> "empty"
    [] OTHER                                   -> "zero"

\* MapToStruct: what a field of type f gets from a member of type m.
Field(m, f) ==
  CASE m = f                          -> f
    [] m = "base64" /\ f = "string"   -> "base64"
    [] m # f /\ f \in Numbers         -> NumberField(m, f)
    [] m # f /\ f = "bytes"           -> BytesField(m)
    [] m # f /\ f \in Slices          -> SliceField(m, f)
    [] OTHER                          -> "zero"

\* reflect.Kind.
Kind(c) ==
  CASE c \in {"slice", "list", "bytes"} -> "Slice"
    [] c = "base64"                     -> "string"
    [] OTHER                            -> c

\* The type of a value: a base64 text is a string, a map[string]any and an
\* []any are that whatever they hold.
TypeOf(v) ==
  CASE v.class = "base64"          -> Scalar("string")
    [] v.class \in {"map", "list"} -> Scalar(v.class)
    [] OTHER                       -> v

\* The types whose values survive the log and the state file for a Read: what
\* JSON keeps, and what the mapper turns back into the fields of a struct.
Faithful ==
  {Scalar(c) : c \in {"string", "bool", "float64"}}
    \cup [class : {"map"}, of : {"string", "bool", "float64"}]
    \cup [class : {"struct"}, of : Numbers \cup {"string", "bool", "[]string"}]

Ok(v) == [result |-> "ok", value |-> v]
Failed(how) == [result |-> how, value |-> Nil]

\* Mutant: without the case for maps.
ReadIntoKinds(v, t) ==
  IF v = Nil THEN Failed("error")
  ELSE IF TypeOf(v) = TypeOf(t) /\ TypeOf(Copied(v)) = TypeOf(t) THEN Ok(Copied(v))
  ELSE IF Kind(v.class) = Kind(t.class)
       THEN IF TypeOf(v) = TypeOf(t) THEN Ok(v) ELSE Failed("panic")
  ELSE IF t.class = "any" THEN Ok(v) ELSE Failed("error")

\* to: the same type, a map into a struct, the same kind, anything assignable;
\* reflect's Set panics when the kinds are equal and the types are not.
ReadInto(v, t) ==
  IF v = Nil THEN Failed("error")
  ELSE IF TypeOf(v) = TypeOf(t) /\ TypeOf(Copied(v)) = TypeOf(t) THEN Ok(Copied(v))
  ELSE IF v.class = "map"
       THEN IF t.class = "struct" THEN Ok([t EXCEPT !.of = Field(v.of, t.of)])
            ELSE Failed("error")
  ELSE IF Kind(v.class) = Kind(t.class)
       THEN IF TypeOf(v) = TypeOf(t) THEN Ok(v) ELSE Failed("panic")
  ELSE IF t.class = "any" THEN Ok(v) ELSE Failed("error")

=============================================================================
