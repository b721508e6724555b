----------------------------- MODULE FieldCodec -----------------------------
(***************************************************************************)
(* What happens to the value of one field of an object on its way to the   *)
(* server and back: validate and extract before Put, encoding/json, and    *)
(* populate after Get, Scan and Query.                                     *)
(*                                                                         *)
(* A Go value is its dynamic type, a number that stands for what it holds, *)
(* and the zone of a time; zero stands for Go's zero value.  Of a map,     *)
(* "holds" tells what is in it, one value that stands for all of them: a   *)
(* "text" is anything JSON gives back as it was.  The nil map holds        *)
(* nothing.  A declaration is the Field of the model and the static type   *)
(* of the struct's field: "any" is interface{}, "pointer" any pointer, and *)
(* a "named" type has the kind but not the type of the one it is named     *)
(* after.  No field accepts a pointer, so values are what it points to.    *)
(*                                                                         *)
(* Bounds: strings are UTF-8 (json.Marshal mends others), floats are whole *)
(* numbers, times are of years JSON can write, int64 stands for all widths *)
(* of integers, and float32 rounds as float64 does.                        *)
(***************************************************************************)
EXTENDS Integers

CONSTANTS
  MaxInt,    \* the largest int64 (2^63 - 1)
  Floats,    \* the whole numbers a float64 can be
  Overflow   \* the int64 that conversion makes of a float64 that int64 cannot hold

Int64 == (-MaxInt - 1)..MaxInt

Distance(m, n) == IF m <= n THEN n - m ELSE m - n

\* f is the float64 nearest to n, of two the one with the even mantissa.
Nearest(f, n) ==
  \A g \in Floats \ {f} :
    \/ Distance(f, n) < Distance(g, n)
    \/ Distance(f, n) = Distance(g, n) /\ f % (4 * Distance(f, n)) = 0

\* The smallest int64 is a float64 and the largest is not: it is rounded up to
\* one that int64 cannot hold.  Go leaves to the processor what becomes of that.
ASSUME FloatsOK ==
  /\ MaxInt \in Nat
  /\ Floats \subseteq Int
  /\ {0, -MaxInt - 1, MaxInt + 1} \subseteq Floats
  /\ MaxInt \notin Floats /\ MaxInt - 1 \notin Floats
  /\ \A n \in Int64 : \E f \in Floats : Nearest(f, n)
  /\ Overflow \in {-MaxInt - 1, MaxInt}

\* The float64 json.Unmarshal reads a number as.
Rounding == [n \in Int64 \cup Floats |-> CHOOSE f \in Floats : Nearest(f, n)]
Rounded(n) == Rounding[n]

\* reflect's Convert of a float64 to an integer.
ToInt(f) == IF f \in Int64 THEN f ELSE Overflow

Zones == {"UTC", "local"}
Contents == {"nothing", "text", "ints", "floats", "times"}
Value(t, n) == [type |-> t, val |-> n, zone |-> "UTC", holds |-> "nothing"]
LocalTime(n) == [Value("time", n) EXCEPT !.zone = "local"]
Map(c, n) == [Value("map", n) EXCEPT !.holds = c]
Nil == Value("nil", 0)

FieldTypes == {"String", "Int", "Bool", "Float", "JSON", "Time"}
Integers64 == {"int64", "namedInt"}
Numbers == Integers64 \cup {"float32", "float64", "namedFloat"}
Types == Numbers \cup {"string", "namedString", "bool", "map", "time"}

\* Only a time by itself has a zone (one in a map stands for its text), and only
\* a map has contents.
Values ==
  {v \in [type : Types \cup {"nil"}, val : Int, zone : Zones, holds : Contents] :
     /\ v.type # "time" => v.zone = "UTC"
     /\ v.type # "map" => v.holds = "nothing"
     /\ v.type = "map" /\ v.holds = "nothing" => v.val = 0
     /\ v.type \in Integers64 \/ v.holds = "ints" => v.val \in Int64
     /\ v.type \in Numbers \ Integers64 \/ v.holds = "floats" => v.val \in Floats}

Decls ==
  [typ : FieldTypes, go : Types \cup {"any", "pointer"}, default : Values, required : BOOLEAN]

-----------------------------------------------------------------------------
(* Put.                                                                    *)

\* Mutant: the kind decides for strings too.
AcceptedByKind(typ) ==
  CASE typ = "String" -> {"string", "namedString"}
    [] typ = "Int"    -> {"int64", "namedInt"}
    [] typ = "Bool"   -> {"bool"}
    [] typ = "Float"  -> {"float32", "float64", "namedFloat"}
    [] typ = "JSON"   -> {"map"}
    [] typ = "Time"   -> {"time"}

\* The dynamic types the TypeValidator of a field accepts.
Accepted(typ) ==
  CASE typ = "String" -> {"string"}
    [] typ = "Int"    -> {"int64", "namedInt"}
    [] typ = "Bool"   -> {"bool"}
    [] typ = "Float"  -> {"float32", "float64", "namedFloat"}
    [] typ = "JSON"   -> {"map"}
    [] typ = "Time"   -> {"time"}

\* A declaration the caller can make: Default panics for a value its field
\* does not accept.
Decl(typ, go, default, required) ==
  [typ |-> typ, go |-> go, default |-> default, required |-> required]
DeclOK(d) == d.default # Nil => d.default.type \in Accepted(d.typ)

ZeroOf(go) == IF go \in {"any", "pointer"} THEN Nil ELSE Value(go, 0)

\* validate looks at values other than the zero value of the field.
Valid(d, v) == v = ZeroOf(d.go) \/ v.type \in Accepted(d.typ)

\* Put gets past validate and extract: only a nil pointer or interface counts
\* as empty.
PutAccepts(d, v) ==
  /\ Valid(d, v)
  /\ IF v = Nil THEN d.default # Nil \/ ~d.required ELSE v.type \in Accepted(d.typ)

\* Mutant: a zero value counts as empty.
ExtractedUnlessZero(d, v) == IF v = ZeroOf(d.go) THEN d.default ELSE [v EXCEPT !.zone = "UTC"]

\* The value extract leaves for the object and its indexes; Nil: none.  The
\* default is taken as it is, a time that is given in UTC.
Extracted(d, v) == IF v = Nil THEN d.default ELSE [v EXCEPT !.zone = "UTC"]

\* What is in a map is written as numbers or as something that is not rounded.
Written(c) == CASE c \in {"ints", "floats"} -> "numbers" [] c = "times" -> "text" [] OTHER -> c

Json(t, v) == [json |-> t, val |-> v.val, zone |-> v.zone, holds |-> Written(v.holds)]
Missing == Json("missing", Nil)

\* json.Marshal.  A text is a string that no time was written as.
Marshal(v) ==
  CASE v.type = "nil"    -> Missing
    [] v.type \in {"string", "namedString"} -> Json("text", v)
    [] v.type = "time"   -> Json("timestamp", v)
    [] v.type = "bool"   -> Json("bool", v)
    [] v.type = "map"    -> Json(IF v.holds = "nothing" THEN "null" ELSE "object", v)
    [] OTHER             -> Json("number", v)

-----------------------------------------------------------------------------
(* Get, Scan and Query.                                                    *)

\* The dynamic type json.Unmarshal gives a value, and the value: numbers, those
\* in maps too, are float64s, and a time in a map is a string.
DecodedType(j) ==
  CASE j.json \in {"text", "timestamp"} -> "string"
    [] j.json = "number" -> "float64"
    [] j.json = "bool"   -> "bool"
    [] j.json = "object" -> "map"
    [] OTHER             -> "nil"

Decoded(j) ==
  IF j.holds = "numbers" THEN Map("floats", Rounded(j.val))
  ELSE [Value(DecodedType(j), IF j.json = "number" THEN Rounded(j.val) ELSE j.val)
          EXCEPT !.holds = j.holds]

\* What a field of this type is read from, and the Go types that can hold it.
Expected(typ) == IF typ = "Time" THEN "timestamp" ELSE "number"
Holding(typ) == IF typ = "Time" THEN {"time", "any"} ELSE Numbers \cup {"any"}

\* How populate fares with one value.  reflect panics when it is asked for the
\* type of nil, or to store a number or a time in anything else.
PopulateOutcome(d, j) ==
  CASE d.typ \in {"Time", "Int"} ->
         IF j.json # Expected(d.typ) THEN "error"
         ELSE IF d.go \in Holding(d.typ) THEN "ok" ELSE "panic"
    [] j.json = "null" -> "panic"
    [] OTHER -> IF d.go \in {"any", DecodedType(j)} THEN "ok" ELSE "error"

\* An integer field gets the number as its own type; interface{} keeps the float64.
Converted(go, f) ==
  IF go = "any" THEN Value("float64", f)
  ELSE Value(go, IF go \in Integers64 THEN ToInt(f) ELSE f)

\* Mutant: a time keeps the zone it was written in.
PopulatedKeepsZone(d, j) ==
  CASE d.typ = "Time" -> [Value("time", j.val) EXCEPT !.zone = j.zone]
    [] d.typ = "Int"  -> Converted(d.go, Rounded(j.val))
    [] OTHER -> Decoded(j)

\* What it leaves in the field when it succeeds.
Populated(d, j) ==
  CASE d.typ = "Time" -> Value("time", j.val)
    [] d.typ = "Int"  -> Converted(d.go, Rounded(j.val))
    [] OTHER -> Decoded(j)

\* A field that was not stored is left alone.
ReadOutcome(d, j) == IF j = Missing THEN "ok" ELSE PopulateOutcome(d, j)
ReadValue(d, j) == IF j = Missing THEN ZeroOf(d.go) ELSE Populated(d, j)

=============================================================================
