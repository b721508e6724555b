--------------------------- MODULE TableReadsProofs ---------------------------
(***************************************************************************)
(* Proofs about FieldCodec and TableReads for every model, index, value,   *)
(* page size and bound: what Put accepts can be read, reads as it was put, *)
(* is what a query asked for, and is not missed.                           *)
(***************************************************************************)
EXTENDS TableReads, FiniteSetTheorems, WellFoundedInduction, TLAPS

\* What a field declared by d can hold, if its caller uses values of Vs.
Holds(d, v, Vs) == v = ZeroOf(d.go) \/ (v \in Vs /\ d.go \in {"any", v.type})

\* Only Go types that a JSON value is assigned to without a conversion, and no
\* nil map.
Robust(d, Vs) ==
  /\ d.go \notin {"float32", "namedFloat"}
  /\ d.go = "pointer" => d.default = Nil
  /\ d.typ = "JSON" => d.go # "map" /\ Value("map", 0) \notin Vs \cup {d.default}

\* How v comes back.
ComesBack(d, v, w) ==
  LET u == IF v = Nil THEN d.default ELSE v IN
  \/ w = u
  \/ u.type = "time" /\ w = [u EXCEPT !.zone = "UTC"]
  \/ /\ u.type \in Numbers
     /\ w = Value(IF d.go = "any" THEN "float64" ELSE u.type, Rounded(u.val))
  \/ /\ u.type \in Integers64 /\ Rounded(u.val) \notin Int64
     /\ w = Value(u.type, Overflow)
  \/ u.holds \in {"ints", "floats"} /\ w = Map("floats", Rounded(u.val))
  \/ u.holds = "times" /\ w = Map("text", u.val)

-----------------------------------------------------------------------------
(* Numbers.                                                                *)

\* Numbers are rounded to floats, and floats are what they are.
LEMMA RoundedFacts ==
  /\ \A n \in Int64 \cup Floats : Rounded(n) \in Floats /\ Nearest(Rounded(n), n)
  /\ \A f \in Floats : Rounded(f) = f
PROOF
  <1>1. ASSUME NEW f \in Floats PROVE Nearest(f, f)
    <2>1. f \in Int /\ \A g \in Floats \ {f} : g \in Int /\ g # f
      BY FloatsOK
    <2> QED
      BY <2>1 DEF Nearest, Distance
  <1>2. ASSUME NEW n \in Int64 \cup Floats
        PROVE  Rounded(n) \in Floats /\ Nearest(Rounded(n), n)
    <2>1. \E f \in Floats : Nearest(f, n)
      BY <1>1, FloatsOK
    <2>2. Rounded(n) = CHOOSE f \in Floats : Nearest(f, n)
      BY DEF Rounded, Rounding
    <2> QED
      BY <2>1, <2>2
  <1>3. ASSUME NEW f \in Floats PROVE Rounded(f) = f
    <2>1. Rounded(f) \in Floats /\ Nearest(Rounded(f), f)
      BY <1>2
    <2>2. SUFFICES ASSUME Rounded(f) # f PROVE FALSE
      OBVIOUS
    <2> DEFINE r == Rounded(f)
    <2>3. f \in Int /\ r \in Int /\ f \in Floats \ {r} /\ Nearest(r, f)
      BY <2>1, <2>2, FloatsOK
    <2> HIDE DEF r
    <2>4. Distance(r, f) <= Distance(f, f)
      BY <2>3 DEF Nearest, Distance
    <2> QED
      BY <2>2, <2>3, <2>4 DEF Distance, r
  <1> QED
    BY <1>2, <1>3

\* What int64 cannot hold becomes an int64 that comes back as itself: the largest
\* one is rounded up to MaxInt + 1.
LEMMA OverflowTwice == Overflow \in Int64 /\ ToInt(Rounded(Overflow)) = Overflow
PROOF
  <1>1. {-MaxInt - 1, MaxInt} \subseteq Int64 /\ MaxInt + 1 \notin Int64
    BY FloatsOK DEF Int64
  <1>2. CASE Overflow = -MaxInt - 1
    BY <1>1, <1>2, RoundedFacts, FloatsOK DEF ToInt
  <1>3. CASE Overflow = MaxInt
    <2> DEFINE r == Rounded(MaxInt)
    <2>1. r \in Floats /\ Nearest(r, MaxInt)
      BY <1>1, RoundedFacts
    <2>2. r \in Int /\ r # MaxInt /\ r # MaxInt - 1 /\ MaxInt + 1 \in Floats
      BY <2>1, FloatsOK
    <2> HIDE DEF r
    <2>3. r # MaxInt + 1 => Distance(r, MaxInt) <= Distance(MaxInt + 1, MaxInt)
      BY <2>1, <2>2, FloatsOK DEF Nearest, Distance
    <2>4. r = MaxInt + 1
      BY <2>2, <2>3, FloatsOK DEF Distance
    <2> QED
      BY <1>1, <1>3, <2>4 DEF ToInt, r
  <1> QED
    BY <1>1, <1>2, <1>3, FloatsOK

\* An integer that was read is read as the same again.
LEMMA ConvertedTwice ==
  \A n \in Int64 : LET m == ToInt(Rounded(n)) IN m \in Int64 /\ ToInt(Rounded(m)) = m
PROOF
  <1> SUFFICES ASSUME NEW n \in Int64, NEW m, m = ToInt(Rounded(n))
               PROVE  m \in Int64 /\ ToInt(Rounded(m)) = m
    OBVIOUS
  <1>1. Rounded(n) \in Floats
    BY RoundedFacts
  <1>2. CASE Rounded(n) \in Int64
    <2>1. m = Rounded(n)
      BY <1>2 DEF ToInt
    <2> QED
      BY <1>1, <1>2, <2>1, RoundedFacts DEF ToInt
  <1>3. CASE Rounded(n) \notin Int64
    <2>1. m = Overflow
      BY <1>3 DEF ToInt
    <2> QED
      BY <2>1, OverflowTwice
  <1> QED
    BY <1>2, <1>3

-----------------------------------------------------------------------------
(* One field.                                                              *)

\* The zero value of a field is a value.
LEMMA ZeroType == \A go \in Types \cup {"any", "pointer"} : ZeroOf(go) \in Values
PROOF
  <1>1. 0 \in Int64 /\ 0 \in Floats
    BY FloatsOK DEF Int64
  <1> QED
    BY <1>1 DEF ZeroOf, Values, Value, Nil, Types, Numbers, Integers64, Zones, Contents

\* What extract leaves is nothing or a value the field accepts, with the number
\* the object or the default has.
LEMMA ExtractedAccepted ==
  ASSUME NEW d \in Decls, DeclOK(d), NEW v \in Values, PutAccepts(d, v)
  PROVE  LET e == Extracted(d, v) IN
         /\ e \in Values
         /\ e = Nil \/ e.type \in Accepted(d.typ)
         /\ v # Nil => e = [v EXCEPT !.zone = "UTC"] /\ v.type \in Accepted(d.typ)
         /\ v = Nil => e = d.default
PROOF
  <1>1. CASE v = Nil
    BY <1>1 DEF Extracted, DeclOK, Decls
  <1>2. CASE v # Nil
    <2>1. Extracted(d, v) = [v EXCEPT !.zone = "UTC"] /\ v.type \in Accepted(d.typ)
      BY <1>2 DEF Extracted, PutAccepts
    <2>2. [v EXCEPT !.zone = "UTC"] \in Values
      BY DEF Values, Zones
    <2> QED
      BY <1>2, <2>1, <2>2 DEF Values
  <1> QED
    BY <1>1, <1>2

\* What robust fields hold can be read.
LEMMA AcceptedIsReadable ==
  ASSUME NEW d \in Decls, DeclOK(d), NEW Vs \in SUBSET Values,
         NEW v \in Values, Holds(d, v, Vs), PutAccepts(d, v), Robust(d, Vs)
  PROVE  ReadOutcome(d, Marshal(Extracted(d, v))) = "ok"
PROOF
  <1> DEFINE e == Extracted(d, v)
             j == Marshal(e)
  <1> SUFFICES ReadOutcome(d, j) = "ok"
    OBVIOUS
  <1>1. /\ e \in Values
        /\ e = Nil \/ e.type \in Accepted(d.typ)
        /\ v # Nil => e = [v EXCEPT !.zone = "UTC"] /\ v.type \in Accepted(d.typ)
        /\ v = Nil => e = d.default
    BY ExtractedAccepted
  <1> HIDE DEF e
  <1>2. CASE e = Nil
    BY <1>2 DEF Marshal, ReadOutcome, Nil, Value
  <1>3. CASE e # Nil
    <2>1. e.type \in Accepted(d.typ)
      BY <1>1, <1>3
    <2>2. d.go = "any" \/ (v # Nil /\ d.go = e.type)
      <3>1. CASE v = Nil
        <4>1. d.go \in {"any", "pointer"}
          BY <3>1 DEF Holds, ZeroOf, Nil, Value, Decls, Types, Numbers, Integers64
        <4>2. d.default # Nil
          BY <1>1, <1>3, <3>1
        <4> QED
          BY <4>1, <4>2 DEF Robust
      <3>2. CASE v # Nil
        <4>1. e.type = v.type
          BY <1>1, <3>2 DEF Values
        <4>2. d.go \in {"any", v.type}
          BY <3>2 DEF Holds, ZeroOf, Nil, Value
        <4> QED
          BY <3>2, <4>1, <4>2
      <3> QED
        BY <3>1, <3>2
    <2>3. d.typ \in FieldTypes /\ d.typ = "JSON" => e.holds # "nothing"
      <3> SUFFICES ASSUME d.typ = "JSON", e.holds = "nothing" PROVE FALSE
        OBVIOUS
      <3>1. e.type = "map" /\ e = Value("map", 0)
        BY <2>1, <1>1 DEF Accepted, Values, Value
      <3>2. CASE v = Nil
        BY <3>1, <3>2, <1>1 DEF Robust
      <3>3. CASE v # Nil
        <4>1. v = Value("map", 0)
          BY <3>1, <3>3, <1>1 DEF Values, Value
        <4>2. d.go = "any"
          BY <2>2, <3>1 DEF Robust
        <4>3. v \in Vs
          BY <4>1, <4>2 DEF Holds, ZeroOf, Nil, Value
        <4> QED
          BY <4>1, <4>3 DEF Robust
      <3> QED
        BY <3>2, <3>3
    <2> QED
      BY <2>1, <2>2, <2>3
      DEF Marshal, ReadOutcome, PopulateOutcome, DecodedType, Expected, Holding, Accepted,
          Json, Missing, Robust, Decls, FieldTypes, Numbers, Integers64, Types
  <1> QED
    BY <1>2, <1>3

\* What was written in a field that can be read is of its type.
LEMMA WrittenField ==
  ASSUME NEW d \in Decls, DeclOK(d), NEW Vs \in SUBSET Values,
         NEW v \in Values, Holds(d, v, Vs), PutAccepts(d, v), Extracted(d, v) # Nil,
         ReadOutcome(d, Marshal(Extracted(d, v))) = "ok"
  PROVE  LET u == IF v = Nil THEN d.default ELSE v
             e == Extracted(d, v)
         IN  /\ u \in Values /\ u # Nil /\ e = [u EXCEPT !.zone = e.zone]
             /\ v # Nil => e.zone = "UTC"
             /\ u.type \in Accepted(d.typ)
             /\ d.go \in {"any", u.type}
             /\ d.typ = "JSON" => u.holds # "nothing"
PROOF
  <1> DEFINE e == Extracted(d, v)
             u == IF v = Nil THEN d.default ELSE v
  <1>1. /\ e \in Values
        /\ e = Nil \/ e.type \in Accepted(d.typ)
        /\ v # Nil => e = [v EXCEPT !.zone = "UTC"] /\ v.type \in Accepted(d.typ)
        /\ v = Nil => e = d.default
    BY ExtractedAccepted
  <1>2. ReadOutcome(d, Marshal(e)) = "ok" /\ e # Nil
    OBVIOUS
  <1> HIDE DEF e
  <1>3. /\ u \in Values /\ u # Nil /\ e = [u EXCEPT !.zone = e.zone]
        /\ v # Nil => e.zone = "UTC"
        /\ e.type = u.type /\ u.holds = e.holds
    <2>1. CASE v = Nil
      BY <1>1, <1>2, <2>1 DEF Values
    <2>2. CASE v # Nil
      BY <1>1, <1>2, <2>2 DEF Values
    <2> QED
      BY <2>1, <2>2
  <1>4. u.type \in Accepted(d.typ)
    BY <1>1, <1>2, <1>3
  <1>5. d.go \in {"any", "pointer", u.type}
    BY DEF Holds, ZeroOf, Nil, Value, Values, Decls, Types, Numbers, Integers64
  <1> HIDE DEF u
  <1>6. d.go # "pointer"
    BY <1>2, <1>3, <1>4
    DEF ReadOutcome, PopulateOutcome, Holding, DecodedType, Numbers, Integers64, Marshal, Json,
        Missing, Nil, Value, Accepted, Decls, FieldTypes
  <1>7. d.typ = "JSON" => u.holds # "nothing"
    BY <1>2, <1>3, <1>4
    DEF ReadOutcome, PopulateOutcome, Marshal, Json, Missing, Nil, Value, Accepted
  <1> QED
    BY <1>3, <1>4, <1>5, <1>6, <1>7 DEF u, e

\* What was read comes back.
LEMMA ReadComesBack ==
  ASSUME NEW d \in Decls, DeclOK(d), NEW Vs \in SUBSET Values,
         NEW v \in Values, Holds(d, v, Vs), PutAccepts(d, v),
         ReadOutcome(d, Marshal(Extracted(d, v))) = "ok"
  PROVE  ComesBack(d, v, ReadValue(d, Marshal(Extracted(d, v))))
PROOF
  <1> DEFINE e == Extracted(d, v)
             j == Marshal(e)
             w == ReadValue(d, j)
  <1> SUFFICES ComesBack(d, v, w)
    OBVIOUS
  <1>1. /\ e \in Values
        /\ e = Nil \/ e.type \in Accepted(d.typ)
        /\ v # Nil => e = [v EXCEPT !.zone = "UTC"] /\ v.type \in Accepted(d.typ)
        /\ v = Nil => e = d.default
    BY ExtractedAccepted
  <1>2. ReadOutcome(d, j) = "ok"
    OBVIOUS
  <1> HIDE DEF e
  <1>3. CASE e = Nil
    <2>1. v = Nil
      BY <1>1, <1>3 DEF Nil, Value, Values, Accepted, Decls, FieldTypes
    <2>2. w = ZeroOf(d.go)
      BY <1>3 DEF ReadValue, Marshal, Nil, Value
    <2>3. ZeroOf(d.go) = Nil
      BY <2>1 DEF Holds, ZeroOf, Nil, Value, Values, Decls, Types, Numbers, Integers64
    <2> QED
      BY <1>1, <1>3, <2>1, <2>2, <2>3 DEF ComesBack
  <1>4. CASE e # Nil
    <2> DEFINE u == IF v = Nil THEN d.default ELSE v
    <2>1. /\ u \in Values /\ u # Nil /\ e = [u EXCEPT !.zone = e.zone]
          /\ u.type \in Accepted(d.typ)
          /\ d.go \in {"any", u.type}
          /\ d.typ = "JSON" => u.holds # "nothing"
      BY <1>4, WrittenField DEF e
    <2> SUFFICES \/ w = u
                 \/ u.type = "time" /\ w = [u EXCEPT !.zone = "UTC"]
                 \/ /\ u.type \in Numbers
                    /\ w = Value(IF d.go = "any" THEN "float64" ELSE u.type, Rounded(u.val))
                 \/ /\ u.type \in Integers64 /\ Rounded(u.val) \notin Int64
                    /\ w = Value(u.type, Overflow)
                 \/ u.holds \in {"ints", "floats"} /\ w = Map("floats", Rounded(u.val))
                 \/ u.holds = "times" /\ w = Map("text", u.val)
      BY DEF ComesBack
    <2> HIDE DEF u
    <2>2. /\ e.type = u.type /\ e.val = u.val /\ e.holds = u.holds
          /\ u = [type |-> u.type, val |-> u.val, zone |-> u.zone, holds |-> u.holds]
          /\ u.type # "map" => u.holds = "nothing"
          /\ u.type # "time" => u.zone = "UTC"
          /\ u.holds \in Contents
      BY <2>1 DEF Values
    <2>3. d.typ \in FieldTypes
      BY DEF Decls
    <2>4. CASE d.typ = "Time"
      <3>1. u.type = "time"
        BY <2>1, <2>4 DEF Accepted
      <3>2. w = Value("time", u.val)
        BY <2>2, <2>4, <3>1 DEF Marshal, ReadValue, Populated, Json, Missing, Value
      <3> HIDE DEF j, w
      <3> QED
        BY <2>2, <3>1, <3>2 DEF Value
    <2>5. CASE d.typ = "Int"
      <3>1. u.type \in Integers64 /\ u.type \in Numbers
        BY <2>1, <2>5 DEF Accepted, Integers64, Numbers
      <3>2. j.json = "number" /\ j.val = u.val /\ j # Missing
        BY <2>2, <3>1 DEF Marshal, Json, Missing, Integers64
      <3>3. w = Converted(d.go, Rounded(u.val))
        BY <2>5, <3>2 DEF ReadValue, Populated
      <3> HIDE DEF j, w
      <3> QED
        BY <2>1, <3>1, <3>3 DEF Converted, ToInt, Integers64
    <2>6. CASE d.typ = "Float"
      <3>1. u.type \in {"float32", "float64", "namedFloat"} /\ u.type \in Numbers
        BY <2>1, <2>6 DEF Accepted, Numbers
      <3>2. /\ j.json = "number" /\ j.val = u.val /\ j # Missing
            /\ j.holds = "nothing"
        BY <2>2, <3>1 DEF Marshal, Json, Missing, Written
      <3>3. w = Value("float64", Rounded(u.val))
        BY <2>6, <3>2 DEF ReadValue, Populated, Decoded, DecodedType, Value
      <3>4. d.go \in {"any", "float64"}
        BY <1>2, <2>6, <3>2 DEF ReadOutcome, PopulateOutcome, DecodedType
      <3> HIDE DEF j, w
      <3> QED
        BY <2>1, <3>1, <3>3, <3>4
    <2>7. CASE d.typ \in {"String", "Bool"}
      <3>1. u.type \in {"string", "bool"} /\ u = Value(u.type, u.val)
        BY <2>1, <2>2, <2>7 DEF Accepted, Value
      <3>2. w = Value(u.type, u.val)
        BY <2>2, <2>7, <3>1
        DEF Marshal, ReadValue, Populated, Decoded, DecodedType, Json, Missing, Written, Value
      <3> HIDE DEF j, w
      <3> QED
        BY <3>1, <3>2
    <2>8. CASE d.typ = "JSON"
      <3>1. u.type = "map" /\ u.holds # "nothing"
        BY <2>1, <2>8 DEF Accepted
      <3>2. j.json = "object" /\ j.val = u.val /\ j # Missing /\ j.holds = Written(u.holds)
        BY <2>2, <3>1 DEF Marshal, Json, Missing
      <3>3. w = Decoded(j)
        BY <2>8, <3>2 DEF ReadValue, Populated
      <3>4. u.holds \in {"ints", "floats"} => w = Map("floats", Rounded(u.val))
        BY <3>2, <3>3 DEF Decoded, Written
      <3>5. u.holds \in {"text", "times"} => w = Map("text", u.val)
        BY <3>2, <3>3 DEF Decoded, DecodedType, Written, Map, Value
      <3>6. u.holds = "text" => u = Map("text", u.val)
        BY <2>2, <3>1 DEF Map, Value
      <3> HIDE DEF j, w
      <3> QED
        BY <2>2, <3>1, <3>4, <3>5, <3>6 DEF Contents
    <2> QED
      BY <2>3, <2>4, <2>5, <2>6, <2>7, <2>8 DEF FieldTypes
  <1> QED
    BY <1>3, <1>4

\* What becomes of w, read from what was sent as e, when it is put back.
PutsBack(d, e, w) ==
  ~Unwritable(d, w) =>
    /\ PutAccepts(d, w)
    /\ ReadValue(d, Marshal(Extracted(d, w))) = w
    /\ e.val = w.val /\ e.zone = "UTC" => Marshal(Extracted(d, w)) = Marshal(e)

\* What was read can be put back.
LEMMA ReadPutsBack ==
  ASSUME NEW d \in Decls, DeclOK(d), NEW Vs \in SUBSET Values,
         NEW v \in Values, Holds(d, v, Vs), PutAccepts(d, v),
         ReadOutcome(d, Marshal(Extracted(d, v))) = "ok"
  PROVE  PutsBack(d, Extracted(d, v), ReadValue(d, Marshal(Extracted(d, v))))
PROOF
  <1> DEFINE e == Extracted(d, v)
             j == Marshal(e)
             w == ReadValue(d, j)
  <1> SUFFICES ASSUME ~Unwritable(d, w)
               PROVE  /\ PutAccepts(d, w)
                      /\ ReadValue(d, Marshal(Extracted(d, w))) = w
                      /\ e.val = w.val /\ e.zone = "UTC" => Marshal(Extracted(d, w)) = Marshal(e)
    BY DEF PutsBack
  <1>1. /\ e \in Values
        /\ e = Nil \/ e.type \in Accepted(d.typ)
        /\ v # Nil => e = [v EXCEPT !.zone = "UTC"] /\ v.type \in Accepted(d.typ)
        /\ v = Nil => e = d.default
    BY ExtractedAccepted
  <1>2. ReadOutcome(d, j) = "ok"
    OBVIOUS
  <1>3. /\ v # Nil => d.go \in {"any", v.type} /\ e.type = v.type
        /\ v = Nil => d.go \in {"any", "pointer"}
    BY <1>1 DEF Holds, ZeroOf, Nil, Value, Values, Decls, Types, Numbers, Integers64
  <1>4. d.typ \in FieldTypes
    BY DEF Decls
  <1>5. CASE e = Nil
    <2>1. v = Nil /\ e = d.default
      BY <1>1, <1>5 DEF Nil, Value, Values, Accepted, Decls, FieldTypes
    <2>2. w = ZeroOf(d.go) /\ ZeroOf(d.go) = Nil
      BY <1>3, <1>5, <2>1 DEF ReadValue, Marshal, ZeroOf, Nil, Value
    <2>3. w = v
      BY <2>1, <2>2
    <2> QED
      BY <2>3
  <1> HIDE DEF e
  <1>6. ASSUME e # Nil, w \in Values, w # Nil, w.type \in Accepted(d.typ), w.zone = "UTC"
        PROVE  PutAccepts(d, w) /\ Extracted(d, w) = w
    <2>1. [w EXCEPT !.zone = "UTC"] = w
      BY <1>6 DEF Values
    <2> HIDE DEF w
    <2> QED
      BY <1>6, <2>1 DEF PutAccepts, Valid, Extracted
  <1>7. CASE e # Nil /\ d.typ = "Time"
    <2>1. e.type = "time"
      BY <1>1, <1>7 DEF Accepted
    <2>2. w = Value("time", e.val)
      BY <1>7, <2>1 DEF Marshal, ReadValue, Populated, Json, Missing, Value
    <2>3. w \in Values /\ w # Nil /\ w.zone = "UTC" /\ w.type \in Accepted(d.typ)
      BY <1>1, <1>7, <2>2 DEF Values, Value, Nil, Zones, Types, Numbers, Integers64, Accepted
    <2>4. Extracted(d, w) = w /\ PutAccepts(d, w)
      BY <1>6, <1>7, <2>3
    <2>5. ReadValue(d, Marshal(w)) = w
      <3>1. Marshal(w) = [json |-> "timestamp", val |-> e.val, zone |-> "UTC",
                         holds |-> "nothing"]
        <4> HIDE DEF w
        <4>1. /\ w.type = "time" /\ w.val = e.val /\ w.zone = "UTC"
              /\ w.holds = "nothing"
          BY <2>2 DEF Value
        <4> QED
          BY <4>1 DEF Marshal, Json, Written
      <3>2. ReadValue(d, Marshal(w)) = Value("time", e.val)
        BY <1>7, <3>1 DEF ReadValue, Populated, Missing, Json
      <3> HIDE DEF w
      <3> QED
        BY <2>2, <3>2
    <2>6. e.val = w.val /\ e.zone = "UTC" => Marshal(w) = Marshal(e)
      <3>1. e.holds = "nothing"
        BY <1>1, <2>1 DEF Values
      <3> HIDE DEF w
      <3> QED
        BY <2>1, <2>2, <3>1 DEF Marshal, Json, Value
    <2> QED
      BY <2>4, <2>5, <2>6
  <1>8. CASE e # Nil /\ d.typ = "Int"
    <2>1. e.type \in Integers64 /\ e.zone = "UTC" /\ e.val \in Int64 /\ e.holds = "nothing"
      BY <1>1, <1>8 DEF Accepted, Integers64, Values
    <2>2. j.json = "number" /\ j.val = e.val /\ j # Missing
      BY <2>1 DEF Marshal, Json, Missing, Integers64
    <2>3. w = Converted(d.go, Rounded(e.val))
      BY <1>8, <2>2 DEF ReadValue, Populated
    <2>4. d.go # "any"
      BY <1>8, <2>3 DEF Unwritable, Nil, Value, Converted
    <2>5. v # Nil /\ d.go = e.type
      BY <1>2, <1>3, <1>8, <2>2, <2>4
      DEF ReadOutcome, PopulateOutcome, Holding, Numbers, Integers64
    <2> DEFINE m == ToInt(Rounded(e.val))
    <2>6. m \in Int64 /\ m \in Int /\ ToInt(Rounded(m)) = m
      BY <2>1, ConvertedTwice, FloatsOK DEF Int64
    <2>7. w = Value(e.type, m)
      BY <2>1, <2>3, <2>4, <2>5 DEF Converted, Integers64
    <2> HIDE DEF m, j, w
    <2>8. w \in Values /\ w # Nil /\ w.zone = "UTC" /\ w.type \in Accepted(d.typ)
      BY <1>8, <2>1, <2>6, <2>7
      DEF Values, Value, Nil, Zones, Contents, Types, Numbers, Integers64, Accepted
    <2>9. Extracted(d, w) = w /\ PutAccepts(d, w)
      BY <1>6, <1>8, <2>8
    <2>10. Marshal(w) = [json |-> "number", val |-> m, zone |-> "UTC", holds |-> "nothing"]
      BY <2>1, <2>7 DEF Marshal, Json, Value, Integers64, Written
    <2>11. ReadValue(d, Marshal(w)) = w
      <3>1. ReadValue(d, Marshal(w)) = Converted(d.go, Rounded(m))
        BY <1>8, <2>10 DEF ReadValue, Populated, Missing, Json
      <3> QED
        BY <2>1, <2>4, <2>5, <2>6, <2>7, <3>1 DEF Converted
    <2>12. e.val = w.val /\ e.zone = "UTC" => Marshal(w) = Marshal(e)
      BY <2>1, <2>7 DEF Marshal, Json, Value, Integers64
    <2> QED
      BY <2>9, <2>11, <2>12 DEF w
  <1>9. CASE e # Nil /\ d.typ = "Float"
    <2>1. /\ e.type \in {"float32", "float64", "namedFloat"}
          /\ e.zone = "UTC" /\ e.holds = "nothing" /\ e.val \in Floats
      BY <1>1, <1>9 DEF Accepted, Values, Numbers, Integers64
    <2> DEFINE m == Rounded(e.val)
    <2>2. m \in Floats /\ m \in Int /\ Rounded(m) = m
      BY <2>1, RoundedFacts, FloatsOK
    <2>3. w = Value("float64", m)
      <3>1. j = [json |-> "number", val |-> e.val, zone |-> "UTC", holds |-> "nothing"]
        BY <2>1 DEF Marshal, Json, Written
      <3> HIDE DEF j, m
      <3>2. w = Value("float64", Rounded(e.val))
        BY <1>9, <3>1 DEF Missing, Json, ReadValue, Populated, Decoded, DecodedType, Value
      <3> QED
        BY <3>2 DEF m
    <2> HIDE DEF m, w
    <2>4. w \in Values /\ w # Nil /\ w.zone = "UTC" /\ w.type \in Accepted(d.typ)
      BY <1>9, <2>2, <2>3
      DEF Values, Value, Nil, Zones, Contents, Types, Numbers, Integers64, Accepted
    <2>5. Extracted(d, w) = w /\ PutAccepts(d, w)
      BY <1>6, <1>9, <2>4
    <2>6. Marshal(w) = [json |-> "number", val |-> m, zone |-> "UTC", holds |-> "nothing"]
      BY <2>3 DEF Marshal, Json, Value, Written
    <2>7. ReadValue(d, Marshal(w)) = w
      BY <1>9, <2>2, <2>3, <2>6
      DEF ReadValue, Populated, Missing, Json, Decoded, DecodedType, Value
    <2>8. e.val = w.val /\ e.zone = "UTC" => Marshal(w) = Marshal(e)
      BY <2>1, <2>3 DEF Marshal, Json, Value
    <2> QED
      BY <2>5, <2>7, <2>8 DEF w
  <1>10. CASE e # Nil /\ d.typ \in {"String", "Bool"}
    <2>1. /\ e.type \in {"string", "bool"} /\ e.zone = "UTC"
          /\ e = Value(e.type, e.val)
      BY <1>1, <1>10 DEF Accepted, Values, Value
    <2>2. w = Value(e.type, e.val)
      <3>1. /\ j.json \in {"text", "bool"} /\ j.val = e.val /\ j.holds = "nothing"
            /\ DecodedType(j) = e.type /\ j # Missing
        BY <2>1 DEF Marshal, Json, Missing, Written, DecodedType, Value
      <3> HIDE DEF j
      <3> QED
        BY <1>10, <3>1 DEF ReadValue, Populated, Decoded, Value
    <2>3. w = e
      BY <2>1, <2>2
    <2> HIDE DEF w
    <2>4. w.type \in Accepted(d.typ)
      BY <1>1, <1>10, <2>3
    <2>5. Extracted(d, w) = w /\ PutAccepts(d, w)
      BY <1>1, <1>6, <1>10, <2>1, <2>3, <2>4
    <2>6. ReadValue(d, Marshal(w)) = w
      BY <2>3 DEF w
    <2> QED
      BY <2>3, <2>5, <2>6 DEF w
  <1>11. CASE e # Nil /\ d.typ = "JSON"
    <2>1. e.type = "map" /\ e.zone = "UTC"
      BY <1>1, <1>11 DEF Accepted, Values
    <2>2. e.holds # "nothing"
      BY <1>2, <1>11, <2>1 DEF ReadOutcome, PopulateOutcome, Marshal, Json, Missing
    <2>3. /\ e.holds \in {"text", "ints", "floats", "times"} /\ e.val \in Int
          /\ e.holds \in {"ints", "floats"} => e.val \in Int64 \cup Floats
      BY <1>1, <2>2 DEF Values, Contents
    <2>4. Marshal(e) = [json |-> "object", val |-> e.val, zone |-> "UTC",
                        holds |-> IF e.holds \in {"ints", "floats"} THEN "numbers" ELSE "text"]
      BY <2>1, <2>2, <2>3 DEF Marshal, Json, Written
    <2> DEFINE c == IF e.holds \in {"ints", "floats"} THEN "floats" ELSE "text"
               m == IF e.holds \in {"ints", "floats"} THEN Rounded(e.val) ELSE e.val
    <2>5. /\ m \in Int /\ c \in {"floats", "text"}
          /\ c = "floats" => m \in Floats /\ Rounded(m) = m
      BY <2>3, RoundedFacts, FloatsOK
    <2>6. w = Map(c, m)
      BY <1>11, <2>3, <2>4
      DEF Missing, Json, ReadValue, Populated, Decoded, DecodedType, Map, Value
    <2>7. Marshal(w) = [json |-> "object", val |-> m, zone |-> "UTC",
                        holds |-> IF c = "floats" THEN "numbers" ELSE "text"]
      <3> HIDE DEF c, m, w
      <3> QED
        BY <2>5, <2>6 DEF Marshal, Json, Map, Value, Written
    <2>8. e.val = w.val /\ e.zone = "UTC" => Marshal(w) = Marshal(e)
      <3>1. w.val = m
        BY <2>6 DEF Map, Value
      <3>2. Marshal(e).holds = IF c = "floats" THEN "numbers" ELSE "text"
        BY <2>4
      <3> HIDE DEF c, m, w
      <3> QED
        BY <2>4, <2>7, <3>1, <3>2
    <2> HIDE DEF c, m, w, j
    <2>9. w \in Values /\ w # Nil /\ w.zone = "UTC" /\ w.type \in Accepted(d.typ)
      BY <1>11, <2>5, <2>6
      DEF Values, Map, Value, Nil, Zones, Contents, Types, Numbers, Integers64, Accepted
    <2>10. Extracted(d, w) = w /\ PutAccepts(d, w)
      BY <1>6, <1>11, <2>9
    <2>11. ReadValue(d, Marshal(w)) = w
      BY <1>11, <2>5, <2>6, <2>7
      DEF ReadValue, Populated, Missing, Json, Decoded, DecodedType, Map, Value
    <2> QED
      BY <2>8, <2>10, <2>11 DEF w, j
  <1> QED
    BY <1>4, <1>5, <1>7, <1>8, <1>9, <1>10, <1>11 DEF FieldTypes

-----------------------------------------------------------------------------
(* The table and the pages.                                                *)

\* An object Put has sent, or may send.
Acceptable(o) == o \in Objects /\ PutAcceptsObject(o)

\* Every object the server has is one that Put accepted, as Put sent it.
TableInv ==
  /\ scenario \in Scenarios
  /\ ids \subseteq Ids
  /\ table \in [Ids -> [Fields -> Values]]
  /\ given \in [Ids -> [Fields -> Values]]
  /\ put.stage # "none" => put.id \in Ids /\ Acceptable(put.object)
  /\ \A i \in ids : Acceptable(given[i]) /\ table[i] = Sent(given[i])

PagesInv == PagesAreReadable /\ ItemsAreWhatWasPut /\ ReadsCanBePutBack

RInv == TableInv /\ PagesInv

LEMMA NilIsValue == Nil \in Values
PROOF
  BY DEF Nil, Values, Value, Types, Numbers, Integers64, Zones, Contents

\* What a scenario is made of.
LEMMA ScenarioFacts ==
  ASSUME scenario \in Scenarios, NEW f \in Fields
  PROVE  /\ scenario.put[f] \in Decls /\ DeclOK(scenario.put[f])
         /\ scenario.read[f] \in Decls
         /\ scenario.values[f] \in SUBSET Values
PROOF
  BY ConstantsOK DEF ScenarioType, SchemaOK

\* Objects and what Put sends of them are values, and hold what they can hold.
LEMMA ObjectType ==
  ASSUME scenario \in Scenarios, NEW o, Acceptable(o)
  PROVE  /\ o \in [Fields -> Values]
         /\ Sent(o) \in [Fields -> Values]
         /\ \A f \in Fields : /\ Holds(scenario.put[f], o[f], scenario.values[f])
                              /\ PutAccepts(scenario.put[f], o[f])
                              /\ Sent(o)[f] = Extracted(scenario.put[f], o[f])
PROOF
  <1>1. ASSUME NEW f \in Fields
        PROVE  /\ o[f] \in Values
               /\ Holds(scenario.put[f], o[f], scenario.values[f])
               /\ PutAccepts(scenario.put[f], o[f])
               /\ Sent(o)[f] = Extracted(scenario.put[f], o[f])
               /\ Extracted(scenario.put[f], o[f]) \in Values
    <2>1. /\ scenario.put[f] \in Decls /\ DeclOK(scenario.put[f])
          /\ scenario.values[f] \in SUBSET Values
      BY ScenarioFacts
    <2>2. o[f] \in Held(f)
      BY DEF Acceptable, Objects
    <2>3. ZeroOf(scenario.put[f].go) \in Values
      BY <2>1, ZeroType DEF Decls
    <2>4. o[f] \in Values /\ Holds(scenario.put[f], o[f], scenario.values[f])
      BY <2>1, <2>2, <2>3 DEF Held, Holds
    <2>5. PutAccepts(scenario.put[f], o[f])
      BY DEF Acceptable, PutAcceptsObject
    <2>6. Extracted(scenario.put[f], o[f]) \in Values
      BY <2>1, <2>4, <2>5, ExtractedAccepted
    <2> QED
      BY <2>4, <2>5, <2>6 DEF Sent
  <1>2. o \in [Fields -> Values]
    BY <1>1 DEF Acceptable, Objects
  <1>3. Sent(o) \in [Fields -> Values]
    BY <1>1 DEF Sent
  <1> QED
    BY <1>1, <1>2, <1>3

LEMMA ReadsInit == Init => RInv
PROOF
  <1> SUFFICES ASSUME Init PROVE RInv
    OBVIOUS
  <1>1. TableInv
    BY NilIsValue DEF Init, TableInv, None, NoPut
  <1>2. PagesInv
    BY DEF Init, PagesInv, PagesAreReadable, ItemsAreWhatWasPut, ReadsCanBePutBack, Nothing
  <1> QED
    BY <1>1, <1>2 DEF RInv

\* The scenario never changes, so an acceptable object stays acceptable.
LEMMA AcceptableKept ==
  ASSUME scenario' = scenario, NEW o
  PROVE  Acceptable(o)' <=> Acceptable(o)
PROOF
  BY DEF Acceptable, Objects, Held, PutAcceptsObject, Sent, IndexSet, Indexes

LEMMA SentKept == ASSUME scenario' = scenario, NEW o PROVE Sent(o)' = Sent(o)
PROOF
  BY DEF Sent

\* What was read of the table is on a page as it was put, and can be put back, or is
\* a fragile field.
LEMMA TableReadable ==
  ASSUME TableInv, NEW i \in ids, NEW f \in Fields
  PROVE  LET d == scenario.read[f] IN
         d = scenario.put[f] =>
           /\ ~Fragile(f) => Outcome(i, f) = "ok"
           /\ Outcome(i, f) = "ok" => /\ ComesBack(d, given[i][f], Item(i)[f])
                                      /\ PutsBack(d, Extracted(d, given[i][f]), Item(i)[f])
PROOF
  <1> DEFINE d == scenario.read[f]
             v == given[i][f]
  <1> SUFFICES ASSUME d = scenario.put[f]
               PROVE  /\ ~Fragile(f) => Outcome(i, f) = "ok"
                      /\ Outcome(i, f) = "ok" => /\ ComesBack(d, v, Item(i)[f])
                                                 /\ PutsBack(d, Extracted(d, v), Item(i)[f])
    OBVIOUS
  <1>1. /\ d \in Decls /\ DeclOK(d) /\ scenario.values[f] \in SUBSET Values
    BY ScenarioFacts DEF TableInv
  <1>2. /\ v \in Values /\ Holds(d, v, scenario.values[f]) /\ PutAccepts(d, v)
        /\ table[i][f] = Extracted(d, v)
    <2>1. Acceptable(given[i]) /\ table[i] = Sent(given[i]) /\ scenario \in Scenarios
      BY DEF TableInv
    <2> QED
      BY <2>1, ObjectType
  <1>3. /\ Outcome(i, f) = ReadOutcome(d, Marshal(Extracted(d, v)))
        /\ Item(i)[f] = ReadValue(d, Marshal(Extracted(d, v)))
    BY <1>2 DEF Outcome, Item
  <1>4. ~Fragile(f) => Robust(d, scenario.values[f])
    BY DEF Fragile, Robust
  <1> HIDE DEF d, v
  <1>5. ~Fragile(f) => Outcome(i, f) = "ok"
    BY <1>1, <1>2, <1>3, <1>4, AcceptedIsReadable
  <1>6. Outcome(i, f) = "ok" => ComesBack(d, v, Item(i)[f])
    BY <1>1, <1>2, <1>3, ReadComesBack
  <1>7. Outcome(i, f) = "ok" => PutsBack(d, Extracted(d, v), Item(i)[f])
    BY <1>1, <1>2, <1>3, ReadPutsBack
  <1> QED
    BY <1>5, <1>6, <1>7

LEMMA TableStep == TableInv /\ [Next]_vars => TableInv'
PROOF
  <1> SUFFICES ASSUME TableInv, [Next]_vars PROVE TableInv'
    OBVIOUS
  <1>1. scenario' = scenario
    BY DEF Next, Writer, Reader, Finished, vars, Delete, Put, PutHasKey, PutStored, PutFails,
           NewRead, WhereHash, WhereRange, StartFrom, Execute, Scan, Ensured, TakeKey, Refused,
           ReadPage, ReadFails
  <1>2. CASE UNCHANGED <<ids, table, given, put>>
    BY <1>1, <1>2, AcceptableKept, SentKept DEF TableInv
  <1>3. ASSUME NEW i \in Ids, Delete(i) PROVE TableInv'
    <2>1. [table EXCEPT ![i] = None] \in [Ids -> [Fields -> Values]]
      BY NilIsValue DEF TableInv, None
    <2>2. [given EXCEPT ![i] = None] \in [Ids -> [Fields -> Values]]
      BY NilIsValue DEF TableInv, None
    <2>3. \A k \in ids' : table'[k] = table[k] /\ given'[k] = given[k]
      BY <1>3 DEF Delete, TableInv
    <2> QED
      BY <1>1, <1>3, <2>1, <2>2, <2>3, AcceptableKept, SentKept DEF Delete, TableInv
  <1>4. ASSUME NEW i \in Ids, NEW o \in Objects, Put(i, o) PROVE TableInv'
    <2>1. put'.id = i /\ put'.object = o /\ Acceptable(o)
      BY <1>4 DEF Put, Acceptable
    <2> QED
      BY <1>1, <1>4, <2>1, AcceptableKept, SentKept DEF Put, TableInv
  <1>5. CASE PutHasKey
    <2>1. put' = [put EXCEPT !.stage = "send"] /\ put.stage = "key"
      BY <1>5 DEF PutHasKey
    <2>2. put'.id = put.id /\ put'.object = put.object
      BY <2>1
    <2> QED
      BY <1>1, <1>5, <2>1, <2>2, AcceptableKept, SentKept DEF PutHasKey, TableInv
  <1>6. CASE PutStored
    <2> DEFINE i == put.id
               o == put.object
    <2>1. i \in Ids /\ Acceptable(o)
      BY <1>6 DEF PutStored, TableInv
    <2>2. o \in [Fields -> Values] /\ Sent(o) \in [Fields -> Values]
      BY <2>1, ObjectType DEF TableInv
    <2>3. /\ table' = [table EXCEPT ![i] = Sent(o)]
          /\ given' = [given EXCEPT ![i] = o]
          /\ ids' = ids \cup {i} /\ put' = NoPut
      BY <1>6 DEF PutStored
    <2> HIDE DEF i, o
    <2>4. /\ table' \in [Ids -> [Fields -> Values]]
          /\ given' \in [Ids -> [Fields -> Values]]
          /\ table'[i] = Sent(o) /\ given'[i] = o
          /\ \A k \in ids \ {i} : table'[k] = table[k] /\ given'[k] = given[k]
      BY <2>1, <2>2, <2>3 DEF TableInv
    <2>5. ASSUME NEW k \in ids' PROVE (Acceptable(given[k]) /\ table[k] = Sent(given[k]))'
      BY <1>1, <2>1, <2>3, <2>4, AcceptableKept, SentKept DEF TableInv
    <2> QED
      BY <1>1, <2>1, <2>3, <2>4, <2>5 DEF TableInv, NoPut
  <1>7. CASE PutFails
    BY <1>1, <1>7, AcceptableKept, SentKept DEF PutFails, NoPut, TableInv
  <1>8. CASE Reader \/ Finished \/ UNCHANGED vars
    <2>1. UNCHANGED <<ids, table, given, put>>
      BY <1>8 DEF Reader, Finished, vars, NewRead, WhereHash, WhereRange, StartFrom, Execute,
                  Scan, Ensured, TakeKey, Refused, ReadPage, ReadFails
    <2> QED
      BY <1>2, <2>1
  <1> QED
    BY <1>3, <1>4, <1>5, <1>6, <1>7, <1>8 DEF Next, Writer

LEMMA PagesStep == RInv /\ [Next]_vars => PagesInv'
PROOF
  <1> SUFFICES ASSUME RInv, [Next]_vars PROVE PagesInv'
    OBVIOUS
  <1>1. scenario' = scenario
    BY DEF Next, Writer, Reader, Finished, vars, Delete, Put, PutHasKey, PutStored, PutFails,
           NewRead, WhereHash, WhereRange, StartFrom, Execute, Scan, Ensured, TakeKey, Refused,
           ReadPage, ReadFails
  <1>2. CASE out' = out
    BY <1>1, <1>2 DEF RInv, PagesInv, PagesAreReadable, ItemsAreWhatWasPut, ReadsCanBePutBack, Fragile
  <1>3. ASSUME NEW outcome, ReadFails(outcome),
               outcome \in {"error", "panic"} => \E f \in Fields : Fragile(f)
        PROVE  PagesInv'
    <2>1. out'.outcome = outcome /\ out'.items = << >>
      BY <1>3 DEF ReadFails, Nothing
    <2>2. DOMAIN out'.items = {}
      BY <2>1
    <2> QED
      BY <1>1, <1>3, <2>1, <2>2
      DEF PagesInv, PagesAreReadable, ItemsAreWhatWasPut, ReadsCanBePutBack, Fragile
  <1>4. CASE Refused
    BY <1>3, <1>4 DEF Refused
  <1>5. CASE ReadPage
    <2>1. PICK bad \in (IF BadKeys THEN SUBSET Page ELSE {{}}) :
            \/ \E i \in Page \ bad, f \in Fields :
                 Outcome(i, f) # "ok" /\ ReadFails(Outcome(i, f))
            \/ /\ \A i \in Page \ bad, f \in Fields : Outcome(i, f) = "ok"
               /\ out' = [outcome |-> "ok", items |-> [i \in Page \ bad |-> Item(i)],
                          given |-> [i \in Page \ bad |-> given[i]],
                          count |-> Cardinality(Page), next |-> NextCursor]
      BY <1>5 DEF ReadPage
    <2>2. Page \subseteq ids
      BY DEF Page, Hits
    <2>3. ASSUME NEW i \in Page \ bad, NEW f \in Fields,
                 Outcome(i, f) # "ok", ReadFails(Outcome(i, f))
          PROVE  PagesInv'
      <3>1. Fragile(f)
        BY <2>2, <2>3, TableReadable DEF RInv, Fragile
      <3> QED
        BY <1>3, <2>3, <3>1
    <2>4. ASSUME \A i \in Page \ bad, f \in Fields : Outcome(i, f) = "ok",
                 out' = [outcome |-> "ok", items |-> [i \in Page \ bad |-> Item(i)],
                         given |-> [i \in Page \ bad |-> given[i]],
                         count |-> Cardinality(Page), next |-> NextCursor]
          PROVE  PagesInv'
      <3>1. PagesAreReadable'
        BY <2>4 DEF PagesAreReadable
      <3>2. ASSUME NEW i \in Page \ bad, NEW f \in Fields,
                   scenario.read[f] = scenario.put[f]
            PROVE  LET d == scenario.read[f] IN
                   /\ ComesBack(d, given[i][f], Item(i)[f])
                   /\ PutsBack(d, Extracted(d, given[i][f]), Item(i)[f])
        BY <2>2, <2>4, <3>2, TableReadable DEF RInv
      <3>3. /\ DOMAIN out'.items = Page \ bad
            /\ \A i \in Page \ bad : out'.items[i] = Item(i) /\ out'.given[i] = given[i]
        BY <2>4
      <3>4. ItemsAreWhatWasPut'
        BY <1>1, <3>2, <3>3 DEF ItemsAreWhatWasPut, ComesBack
      <3>5. ReadsCanBePutBack'
        BY <1>1, <3>2, <3>3 DEF ReadsCanBePutBack, PutsBack
      <3> QED
        BY <3>1, <3>4, <3>5 DEF PagesInv
    <2> QED
      BY <2>1, <2>3, <2>4
  <1>6. CASE Writer \/ Finished \/ UNCHANGED vars
    <2>1. out' = out
      BY <1>6 DEF Writer, Finished, vars, Delete, Put, PutHasKey, PutStored, PutFails
    <2> QED
      BY <1>2, <2>1
  <1>7. CASE Reader /\ ~Refused /\ ~ReadPage
    <2>1. out' = out
      BY <1>7 DEF Reader, NewRead, WhereHash, WhereRange, StartFrom, Execute, Scan, Ensured, TakeKey
    <2> QED
      BY <1>2, <2>1
  <1> QED
    BY <1>4, <1>5, <1>6, <1>7 DEF Next

-----------------------------------------------------------------------------
(* Least and greatest elements.                                            *)

LEMMA LeastNatural ==
  ASSUME NEW S \in SUBSET Nat, S # {}
  PROVE  \E n \in S : \A m \in S : n <= m
PROOF
  <1>1. PICK n \in S : \A m \in S : <<m, n>> \notin OpToRel(<, Nat)
    BY NatLessThanWellFounded, WFMin, Zenon
  <1>2. \A m \in S : ~(m < n)
    BY <1>1 DEF OpToRel
  <1> QED
    BY <1>2

\* A page has a last object.
LEMMA MaxOfFinite ==
  ASSUME NEW S \in SUBSET Nat, S # {}, IsFiniteSet(S)
  PROVE  MaxOf(S) \in S /\ \A m \in S : m <= MaxOf(S)
PROOF
  <1> DEFINE Above(n) == {m \in S : m > n}
             T == {Above(n) : n \in S}
  <1>1. T \subseteq FiniteSubsetsOf(S) /\ T # {}
    <2>1. \A n \in S : Above(n) \subseteq S
      OBVIOUS
    <2>2. \A n \in S : IsFiniteSet(Above(n))
      <3> HIDE DEF Above
      <3> QED
        BY <2>1, FS_Subset
    <2> QED
      BY <2>1, <2>2 DEF FiniteSubsetsOf
  <1>2. PICK U \in T : \A V \in T : <<V, U>> \notin StrictSubsetOrdering(S)
    <2>1. IsWellFoundedOn(StrictSubsetOrdering(S), FiniteSubsetsOf(S))
      BY FS_StrictSubsetOrderingWellFounded
    <2> HIDE DEF T
    <2> QED
      BY <1>1, <2>1, WFMin, Zenon
  <1>3. PICK n \in S : U = Above(n)
    BY <1>2
  <1>4. ASSUME NEW m \in S, m > n PROVE FALSE
    <2>1. Above(m) \in T /\ Above(m) \subseteq U /\ Above(m) # U
      <3>1. Above(m) \in T
        OBVIOUS
      <3>2. \A k \in S : k > m => k > n
        BY <1>4
      <3>3. m \in Above(n) /\ m \notin Above(m)
        BY <1>4
      <3> QED
        BY <1>3, <3>1, <3>2, <3>3
    <2>2. Above(m) \in SUBSET S /\ U \in SUBSET S
      BY <1>3
    <2>3. <<Above(m), U>> \in StrictSubsetOrdering(S)
      BY <2>1, <2>2, Zenon DEF StrictSubsetOrdering
    <2> QED
      BY <1>2, <2>1, <2>3
  <1>5. \A m \in S : m <= n
    BY <1>4
  <1> QED
    BY <1>3, <1>5 DEF MaxOf

\* Options have a first one.
LEMMA FirstOption ==
  ASSUME NEW K, NEW S \in SUBSET (Nat \X K), K \subseteq Nat, S # {}
  PROVE  First(S) \in S
PROOF
  <1> DEFINE A == {o[1] : o \in S}
  <1>1. PICK a \in A : \A b \in A : a <= b
    <2>1. A \in SUBSET Nat /\ A # {}
      OBVIOUS
    <2> HIDE DEF A
    <2> QED
      BY <2>1, LeastNatural
  <1> DEFINE B == {o[2] : o \in {o \in S : o[1] = a}}
  <1>2. PICK n \in B : \A m \in B : n <= m
    <2>1. B \in SUBSET Nat /\ B # {}
      BY <1>1
    <2> HIDE DEF A, B
    <2> QED
      BY <2>1, LeastNatural
  <1>3. PICK o \in S : o[1] = a /\ o[2] = n
    BY <1>2
  <1>4. \A p \in S : o[1] < p[1] \/ (o[1] = p[1] /\ o[2] <= p[2])
    BY <1>1, <1>2, <1>3
  <1> QED
    BY <1>3, <1>4 DEF First

-----------------------------------------------------------------------------
(* The query builder.                                                      *)

\* What the calls of a builder leave: after one WhereHash every option has its
\* field as the hash field, and after WhereRange there is one with that range.
BuilderInv(q) ==
  /\ q \in Builders
  /\ q.hashes > 0 <=> q.options # {}
  /\ q.hashes = 0 => ~q.ranged
  /\ q.hashes = 1 =>
       /\ \A o \in q.options : IndexOf(o).hash = q.field
       /\ q.ranged => /\ q.asked \in Fields /\ q.op = q.range.op
                      /\ \A o \in q.options : IndexOf(o).range = q.asked

LEMMA IndexType ==
  ASSUME scenario \in Scenarios, NEW n \in 1..Len(Indexes)
  PROVE  Indexes[n] \in IndexSet /\ Indexes[n] \in IndexNames
PROOF
  <1>1. Indexes \in Seq(IndexNames)
    BY ConstantsOK DEF ScenarioType, Indexes
  <1> QED
    BY <1>1 DEF IndexSet

\* Execute asks the index of the field and the range a simple query was given.
LEMMA ChosenIsAsked ==
  ASSUME scenario \in Scenarios, NEW q, BuilderInv(q), Simple(q)
  PROVE  /\ ChosenIndex(q).hash = q.field /\ q.field \in Fields
         /\ q.ranged => ChosenIndex(q).range = q.asked /\ q.asked # NoField
                        /\ q.op = q.range.op
PROOF
  <1> DEFINE o == First(q.options)
  <1>1. /\ q.options \in SUBSET (Nat \X (1..Len(Indexes))) /\ q.options # {}
        /\ \A x \in q.options : IndexOf(x).hash = q.field
        /\ q.ranged => /\ q.asked \in Fields /\ q.op = q.range.op
                       /\ \A x \in q.options : IndexOf(x).range = q.asked
    BY DEF BuilderInv, Builders, Simple
  <1>2. o \in q.options
    <2>1. Len(Indexes) \in Nat
      BY ConstantsOK DEF ScenarioType, Indexes
    <2>2. 1..Len(Indexes) \subseteq Nat
      BY <2>1
    <2> QED
      BY <1>1, <2>2, FirstOption
  <1>3. IndexOf(o) \in IndexNames
    <2>1. o[2] \in 1..Len(Indexes)
      BY <1>1, <1>2
    <2> QED
      BY <2>1, IndexType DEF IndexOf
  <1> HIDE DEF o
  <1>4. /\ IndexOf(o).hash = q.field
        /\ q.ranged => IndexOf(o).range = q.asked
    BY <1>1, <1>2
  <1>5. ChosenIndex(q) = IF Cardinality(q.options) > 1 /\ ~q.ranged
                           THEN [hash |-> IndexOf(o).hash, range |-> NoField]
                           ELSE IndexOf(o)
    BY DEF ChosenIndex, o
  <1>6. ChosenIndex(q).hash = q.field /\ (q.ranged => ChosenIndex(q) = IndexOf(o))
    BY <1>4, <1>5
  <1>7. q.field \in Fields
    BY <1>3, <1>4 DEF IndexNames
  <1> QED
    BY <1>1, <1>4, <1>6, <1>7, ConstantsOK

\* A new builder, and one after each of its calls.
LEMMA NewBuilderInv == \A kind \in {"scan", "query"} : BuilderInv(NewBuilder(kind))
PROOF
  BY NilIsValue DEF BuilderInv, NewBuilder, Builders, Keys, RangeConditions, NoRange

LEMMA WhereHashInv ==
  ASSUME scenario \in Scenarios, BuilderInv(query), NEW f \in Fields,
         NEW v \in scenario.values[f], WhereHash(f, v)
  PROVE  BuilderInv(query')
PROOF
  <1>1. v \in Values
    BY ScenarioFacts
  <1>2. /\ WithHash(f) # {} /\ WithHash(f) \in SUBSET (Nat \X (1..Len(Indexes)))
        /\ \A o \in WithHash(f) : IndexOf(o).hash = f
    BY DEF WhereHash, WithHash, IndexOf, BuilderInv, Builders
  <1>3. query' = [query EXCEPT !.options = query.options \cup WithHash(f), !.hash = v,
                    !.op = "Eq", !.field = f, !.hashes = query.hashes + 1]
    BY DEF WhereHash
  <1> HIDE DEF WithHash
  <1>4. /\ query'.options = query.options \cup WithHash(f) /\ query'.field = f
        /\ query'.hashes = query.hashes + 1 /\ query'.ranged = query.ranged
    BY <1>3 DEF BuilderInv, Builders
  <1>5. query' \in Builders
    <2> DEFINE options == query.options \cup WithHash(f)
    <2>1. options \in SUBSET (Nat \X (1..Len(Indexes))) /\ query.hashes + 1 \in Nat
      BY <1>2 DEF BuilderInv, Builders
    <2> HIDE DEF options
    <2> QED
      BY <1>1, <1>3, <2>1 DEF BuilderInv, Builders, options
  <1>6. query'.hashes > 0 /\ query'.options # {} /\ query.hashes \in Nat
    BY <1>2, <1>4 DEF BuilderInv, Builders
  <1>7. ASSUME query'.hashes = 1
        PROVE  query.options = {} /\ ~query'.ranged
    <2>1. query.hashes = 0
      BY <1>4, <1>6, <1>7
    <2>2. query.options = {}
      BY <2>1 DEF BuilderInv
    <2> QED
      BY <1>4, <2>1, <2>2 DEF BuilderInv
  <1> QED
    BY <1>2, <1>4, <1>5, <1>6, <1>7 DEF BuilderInv

LEMMA WhereRangeInv ==
  ASSUME scenario \in Scenarios, BuilderInv(query), NEW f \in Fields,
         NEW r \in scenario.ranges, WhereRange(f, r)
  PROVE  BuilderInv(query')
PROOF
  <1> DEFINE o == First(WithRange(f))
  <1>1. r \in RangeConditions
    BY ConstantsOK DEF ScenarioType
  <1>2. o \in query.options /\ IndexOf(o).range = f
    <2>1. /\ WithRange(f) \in SUBSET (Nat \X (1..Len(Indexes))) /\ WithRange(f) # {}
          /\ \A x \in WithRange(f) : x \in query.options /\ IndexOf(x).range = f
      BY DEF WithRange, WhereRange, BuilderInv, Builders
    <2>2. 1..Len(Indexes) \subseteq Nat
      BY ConstantsOK DEF ScenarioType, Indexes
    <2> QED
      BY <2>1, <2>2, FirstOption
  <1>3. query' = [query EXCEPT !.options = {o}, !.ranged = TRUE, !.range = r, !.op = r.op,
                    !.asked = f, !.ranges = query.ranges + 1]
    BY DEF WhereRange
  <1> HIDE DEF o
  <1>4. /\ query'.options = {o} /\ query'.ranged = TRUE /\ query'.range = r
        /\ query'.op = r.op /\ query'.asked = f /\ query'.hashes = query.hashes
        /\ query'.field = query.field
    BY <1>3 DEF BuilderInv, Builders
  <1>5. query' \in Builders
    <2>1. {o} \in SUBSET (Nat \X (1..Len(Indexes))) /\ query.ranges + 1 \in Nat
          /\ r.op \in {"Eq", "Lt", "Between"}
      BY <1>1, <1>2 DEF BuilderInv, Builders, RangeConditions
    <2> QED
      BY <1>1, <1>3, <2>1 DEF BuilderInv, Builders
  <1> QED
    BY <1>2, <1>4, <1>5 DEF BuilderInv

LEMMA CursorInv ==
  ASSUME NEW q, BuilderInv(q), NEW c \in Ids \cup {0}
  PROVE  BuilderInv([q EXCEPT !.cursor = c])
PROOF
  <1> DEFINE p == [q EXCEPT !.cursor = c]
  <1>1. p \in Builders
    BY DEF BuilderInv, Builders
  <1>2. /\ p.options = q.options /\ p.hashes = q.hashes /\ p.ranged = q.ranged
        /\ p.field = q.field /\ p.asked = q.asked /\ p.op = q.op /\ p.range = q.range
    BY DEF BuilderInv, Builders
  <1> QED
    BY <1>1, <1>2 DEF BuilderInv

\* The same for the key a query is sent with.
LEMMA SentWithInv ==
  ASSUME NEW q, BuilderInv(q), NEW k \in Keys
  PROVE  BuilderInv([q EXCEPT !.key = k]) /\ [q EXCEPT !.key = k].cursor = q.cursor
PROOF
  <1> DEFINE p == [q EXCEPT !.key = k]
  <1>1. p \in Builders
    BY DEF BuilderInv, Builders
  <1>2. /\ p.options = q.options /\ p.hashes = q.hashes /\ p.ranged = q.ranged
        /\ p.field = q.field /\ p.asked = q.asked /\ p.op = q.op /\ p.range = q.range
        /\ p.cursor = q.cursor
    BY DEF BuilderInv, Builders
  <1> QED
    BY <1>1, <1>2 DEF BuilderInv

-----------------------------------------------------------------------------
(* Pages.                                                                  *)

\* A hit after the cursor is on the page, or after the next cursor.
LEMMA PageFacts ==
  ASSUME ids \subseteq Ids, IsFiniteSet(ids), query.cursor \in Nat
  PROVE  /\ Page \subseteq ids
         /\ NextCursor \in Ids \cup {0}
         /\ \A i \in Hits : i > query.cursor =>
              i \in Page \/ (NextCursor # 0 /\ i > NextCursor)
PROOF
  <1> DEFINE c == query.cursor
             Before(i) == {j \in Hits : c < j /\ j < i}
  <1>1. Hits \subseteq ids /\ Page \subseteq Hits /\ IsFiniteSet(Hits) /\ IsFiniteSet(Page)
    <2>1. Hits \subseteq ids /\ Page \subseteq Hits
      BY DEF Hits, Page
    <2> QED
      BY <2>1, FS_Subset
  <1>2. ids \subseteq Nat \ {0} /\ Ids \subseteq Nat \ {0}
    BY ConstantsOK
  <1>3. \A i \in Hits : IsFiniteSet(Before(i)) /\ Cardinality(Before(i)) \in Nat
    <2>1. ASSUME NEW i \in Hits PROVE Before(i) \subseteq Hits
      OBVIOUS
    <2> HIDE DEF Before
    <2> QED
      BY <1>1, <2>1, FS_Subset, FS_CardinalityType
  <1>4. \A i \in Hits : i \in Page <=> i > c /\ Cardinality(Before(i)) < Limit
    BY DEF Page
  <1>5. Page # {} => MaxOf(Page) \in Page /\ \A m \in Page : m <= MaxOf(Page)
    <2>1. Page \in SUBSET Nat
      BY <1>1, <1>2
    <2> QED
      BY <1>1, <2>1, MaxOfFinite
  <1>6. ASSUME NEW i \in Hits, i > c PROVE Page # {}
    <2> DEFINE After == {j \in Hits : j > c}
    <2>1. After \in SUBSET Nat /\ After # {}
      BY <1>1, <1>2, <1>6
    <2>2. PICK n \in After : \A m \in After : n <= m
      <3> HIDE DEF After
      <3> QED
        BY <2>1, LeastNatural
    <2>3. n \in Hits /\ n > c /\ n \in Nat
      BY <1>1, <1>2
    <2>4. Before(n) = {}
      <3> SUFFICES ASSUME NEW j \in Hits, c < j, j < n PROVE FALSE
        OBVIOUS
      <3>1. j \in After /\ j \in Nat
        BY <1>1, <1>2
      <3> QED
        BY <2>2, <2>3, <3>1
    <2>5. Cardinality(Before(n)) < Limit
      BY <2>4, FS_EmptySet, ConstantsOK
    <2> HIDE DEF Before
    <2> QED
      BY <1>4, <2>3, <2>5
  <1>7. ASSUME NEW i \in Hits, i > c, i \notin Page, NEW m \in Page
        PROVE  m < i
    <2> SUFFICES ASSUME ~(m < i) PROVE FALSE
      OBVIOUS
    <2>1. m \in Hits /\ m \in Nat /\ i \in Nat /\ i < m
      BY <1>1, <1>2, <1>7
    <2>2. Before(i) \subseteq Before(m)
      <3>1. \A j \in Hits : j < i => j < m
        <4>1. \A j \in Hits : j \in Nat
          BY <1>1, <1>2
        <4> QED
          BY <2>1, <4>1
      <3> QED
        BY <3>1
    <2> HIDE DEF Before
    <2>3. Cardinality(Before(i)) <= Cardinality(Before(m))
      BY <1>3, <2>1, <2>2, FS_Subset
    <2>4. Cardinality(Before(m)) < Limit /\ ~(Cardinality(Before(i)) < Limit)
      BY <1>4, <1>7, <2>1
    <2> QED
      BY <1>3, <2>1, <2>3, <2>4, ConstantsOK
  <1> HIDE DEF Before
  <1>8. NextCursor \in Ids \cup {0}
    <2>1. CASE \E i \in Hits : i > c /\ i \notin Page
      BY <1>1, <1>5, <1>6, <2>1 DEF NextCursor
    <2> QED
      BY <2>1 DEF NextCursor
  <1>9. ASSUME NEW i \in Hits, i > c, i \notin Page
        PROVE  NextCursor # 0 /\ i > NextCursor
    <2>1. NextCursor = MaxOf(Page)
      BY <1>9 DEF NextCursor
    <2>2. MaxOf(Page) \in Page
      BY <1>5, <1>6, <1>9
    <2>3. MaxOf(Page) < i /\ MaxOf(Page) \in Nat \ {0} /\ i \in Nat
      BY <1>1, <1>2, <1>7, <1>9, <2>2
    <2> QED
      BY <2>1, <2>3
  <1> QED
    BY <1>1, <1>8, <1>9

\* Tokens of values tell apart what the values are (no index has maps).
LEMMA TokensAreValues ==
  ASSUME NEW a \in Values, NEW b \in Values, a.type \notin {"nil", "map"}
  PROVE  /\ Marshal(a) = Marshal(b) => Same(a, b)
         /\ Same(a, b) /\ a.zone = b.zone => Marshal(a) = Marshal(b)
PROOF
  <1>1. /\ a.type \in Types /\ b.type \in Types \cup {"nil"}
        /\ a.holds = "nothing" /\ (b.type # "map" => b.holds = "nothing")
        /\ Written("nothing") = "nothing"
    BY DEF Values, Written
  <1>2. /\ Marshal(a).val = a.val /\ Marshal(a).json # "missing"
        /\ (b.type # "nil" => Marshal(b).val = b.val)
    BY <1>1 DEF Marshal, Json, Types, Numbers, Integers64
  <1>3. ASSUME Marshal(a) = Marshal(b) PROVE Same(a, b)
    <2>1. Marshal(a).json = Marshal(b).json /\ b.type # "nil" /\ a.val = b.val
      BY <1>2, <1>3 DEF Marshal, Missing, Json
    <2>2. \E kind \in Alike : {a.type, b.type} \subseteq kind
      BY <1>1, <2>1 DEF Marshal, Json, Alike, Types, Numbers, Integers64
    <2> QED
      BY <2>1, <2>2 DEF Same
  <1>4. ASSUME Same(a, b), a.zone = b.zone PROVE Marshal(a) = Marshal(b)
    <2>1. a.val = b.val
      BY <1>4 DEF Same
    <2>2. PICK kind \in Alike : {a.type, b.type} \subseteq kind
      BY <1>4 DEF Same
    <2> QED
      BY <1>1, <1>4, <2>1, <2>2 DEF Marshal, Json, Alike, Types, Numbers, Integers64
  <1> QED
    BY <1>3, <1>4

-----------------------------------------------------------------------------
(* Every variable.                                                         *)

KeyInv ==
  /\ TypeOK
  /\ IsFiniteSet(ids)
  /\ BuilderInv(query) /\ BuilderInv(walk.query)
  /\ walk.stable \subseteq ids
  /\ out.next # 0 => out.outcome = "ok"

LEMMA KeyInit == Init => KeyInv
PROOF
  <1> SUFFICES ASSUME Init PROVE KeyInv
    OBVIOUS
  <1>1. None \in [Fields -> Values]
    BY NilIsValue DEF None
  <1>2. BuilderInv(NewBuilder("scan"))
    BY NewBuilderInv
  <1>3. NewBuilder("scan") \in Builders /\ NewBuilder("scan").hashes = 0
    BY <1>2 DEF BuilderInv, NewBuilder
  <1>4. walk.query = NewBuilder("scan") /\ query = NewBuilder("scan")
    BY DEF Init, NoWalk
  <1> HIDE DEF NewBuilder
  <1>5. TypeOK
    BY <1>1, <1>3 DEF Init, TypeOK, NoPut, Nothing, NoWalk, Keys
  <1> QED
    BY <1>2, <1>4, <1>5, FS_EmptySet DEF KeyInv, Init, NoWalk, Nothing

\* The writer's steps.
LEMMA WriterTypes ==
  ASSUME RInv, RInv', KeyInv, Writer
  PROVE  KeyInv'
PROOF
  <1>1. UNCHANGED <<scenario, query, rpc, out, pages>>
    BY DEF Writer, Delete, Put, PutHasKey, PutStored, PutFails
  <1>2. Builders' = Builders
    BY <1>1 DEF Builders, Indexes
  <1>3. /\ table' \in [Ids -> [Fields -> Values]] /\ given' \in [Ids -> [Fields -> Values]]
        /\ ids' \subseteq Ids
        /\ put'.stage # "none" => put'.id \in Ids
    BY DEF RInv, TableInv
  <1>4. /\ IsFiniteSet(ids')
        /\ walk'.query = walk.query /\ walk'.stable \subseteq ids'
        /\ walk' \in [query : Builders, stable : SUBSET Ids, found : SUBSET Ids,
                      steady : BOOLEAN]
    <2>0. /\ IsFiniteSet(ids) /\ walk.stable \subseteq ids
          /\ walk \in [query : Builders, stable : SUBSET Ids, found : SUBSET Ids,
                       steady : BOOLEAN]
      BY DEF KeyInv, TypeOK
    <2>1. ASSUME NEW i, ids' \in {ids \ {i}, ids \cup {i}},
                 walk' = [walk EXCEPT !.stable = walk.stable \ {i}]
          PROVE  /\ IsFiniteSet(ids')
                 /\ walk'.query = walk.query /\ walk'.stable \subseteq ids'
                 /\ walk' \in [query : Builders, stable : SUBSET Ids, found : SUBSET Ids,
                               steady : BOOLEAN]
      <3>1. IsFiniteSet(ids')
        BY <2>0, <2>1, FS_RemoveElement, FS_AddElement
      <3>2. walk'.query = walk.query /\ walk'.stable = walk.stable \ {i}
        BY <2>0, <2>1
      <3>3. walk' \in [query : Builders, stable : SUBSET Ids, found : SUBSET Ids,
                       steady : BOOLEAN]
        BY <2>0, <2>1
      <3>4. walk'.stable \subseteq ids'
        <4>1. ids \ {i} \subseteq ids'
          BY <2>1
        <4> QED
          BY <2>0, <3>2, <4>1
      <3> QED
        BY <3>1, <3>2, <3>3, <3>4
    <2>2. ASSUME NEW i \in Ids, Delete(i)
          PROVE  ids' = ids \ {i} /\ walk' = [walk EXCEPT !.stable = walk.stable \ {i}]
      BY <2>2 DEF Delete
    <2>3. CASE PutStored
      <3>1. /\ ids' \in {ids \ {put.id}, ids \cup {put.id}}
            /\ walk' = [walk EXCEPT !.stable = walk.stable \ {put.id}]
        BY <2>3 DEF PutStored
      <3> QED
        BY <2>1, <3>1
    <2>4. CASE \/ PutHasKey \/ PutFails \/ \E i \in Ids, o \in Objects : Put(i, o)
      <3>1. UNCHANGED <<ids, walk>>
        BY <2>4 DEF PutHasKey, PutFails, Put
      <3> QED
        BY <2>0, <3>1
    <2> QED
      BY <2>1, <2>2, <2>3, <2>4 DEF Writer
  <1>5. /\ iek' \in Keys
        /\ iek' = "torn" => put'.stage = "send"
    BY DEF Keys, Writer, Delete, Put, PutHasKey, PutStored, PutFails, Settled, KeyInv, TypeOK, NoPut
  <1>6. /\ put' \in [stage : {"none", "key", "send"}, id : Ids \cup {0},
                     object : [Fields -> Values]]
        /\ puts' \in Nat
    <2>1. None \in [Fields -> Values]
      BY NilIsValue DEF None
    <2>2. ASSUME NEW i \in Ids, NEW o \in Objects, Put(i, o)
          PROVE  o \in [Fields -> Values] /\ put' = [stage |-> "key", id |-> i, object |-> o]
      <3>1. Acceptable(o)
        BY <2>2 DEF Put, Acceptable
      <3> QED
        BY <2>2, <3>1, ObjectType DEF Put, RInv, TableInv
    <2>3. /\ put \in [stage : {"none", "key", "send"}, id : Ids \cup {0},
                      object : [Fields -> Values]]
          /\ puts \in Nat
      BY DEF KeyInv, TypeOK
    <2>4. CASE PutStored \/ PutFails \/ \E i \in Ids : Delete(i)
      BY <2>1, <2>3, <2>4 DEF PutStored, PutFails, Delete, NoPut
    <2>5. CASE PutHasKey
      BY <2>3, <2>5 DEF PutHasKey
    <2>6. ASSUME NEW i \in Ids, NEW o \in Objects, Put(i, o)
          PROVE  /\ put' \in [stage : {"none", "key", "send"}, id : Ids \cup {0},
                              object : [Fields -> Values]]
                 /\ puts' \in Nat
      BY <2>2, <2>3, <2>6 DEF Put
    <2> QED
      BY <2>4, <2>5, <2>6 DEF Writer
  <1>7. BuilderInv(query)' /\ BuilderInv(walk.query)'
    BY <1>1, <1>2, <1>4 DEF KeyInv, BuilderInv, IndexOf, Indexes
  <1>8. TypeOK'
    BY <1>1, <1>2, <1>3, <1>4, <1>5, <1>6 DEF KeyInv, TypeOK
  <1> QED
    BY <1>1, <1>4, <1>7, <1>8 DEF KeyInv

\* The reader's steps.
LEMMA ReaderTypes ==
  ASSUME RInv, RInv', KeyInv, Reader \/ Finished \/ UNCHANGED vars
  PROVE  KeyInv'
PROOF
  <1>0. ids \subseteq Ids /\ IsFiniteSet(ids) /\ scenario \in Scenarios
    BY DEF RInv, TableInv, KeyInv
  <1>1. UNCHANGED <<scenario, ids, table, given, put, puts>>
    BY DEF Reader, Finished, vars, NewRead, WhereHash, WhereRange, StartFrom, Execute, Scan,
           Ensured, TakeKey, Refused, ReadPage, ReadFails
  <1>2. Builders' = Builders /\ \A q : BuilderInv(q)' <=> BuilderInv(q')
    BY <1>1 DEF Builders, Indexes, BuilderInv, IndexOf
  <1>3. BuilderInv(query')
    <2>1. CASE UNCHANGED query
      BY <2>1 DEF KeyInv
    <2>2. ASSUME NEW kind \in {"scan", "query"}, NewRead(kind) PROVE BuilderInv(query')
      BY <2>2, NewBuilderInv DEF NewRead
    <2>3. ASSUME NEW f \in Fields, NEW v \in scenario.values[f], WhereHash(f, v)
          PROVE  BuilderInv(query')
      BY <1>0, <2>3, WhereHashInv DEF KeyInv
    <2>4. ASSUME NEW f \in Fields, NEW r \in scenario.ranges, WhereRange(f, r)
          PROVE  BuilderInv(query')
      BY <1>0, <2>4, WhereRangeInv DEF KeyInv
    <2>5. CASE StartFrom
      BY <2>5, CursorInv DEF StartFrom, KeyInv, TypeOK
    <2>k. CASE TakeKey
      BY <2>k, SentWithInv DEF TakeKey, KeyInv, TypeOK
    <2>6. CASE Execute \/ Scan \/ Ensured \/ Refused \/ ReadPage \/ Finished \/ UNCHANGED vars
      <3>1. UNCHANGED query
          BY <2>6 DEF Execute, Scan, Ensured, Refused, ReadPage, ReadFails, Finished, vars
      <3> QED
        BY <2>1, <3>1
    <2> QED
      BY <2>2, <2>3, <2>4, <2>5, <2>k, <2>6 DEF Reader
  <1>4. /\ iek' \in Keys
        /\ iek' = "torn" => put'.stage = "send"
        /\ rpc' \in {"idle", "ensure", "key", "send"}
        /\ pages' \in Nat
    <2>1. /\ iek \in Keys
          /\ iek = "torn" => put.stage = "send"
          /\ rpc \in {"idle", "ensure", "key", "send"}
          /\ pages \in Nat
      BY DEF KeyInv, TypeOK
    <2>2. /\ iek' \in {iek, "name"}
          /\ rpc' \in {rpc, "idle", "ensure", "key", "send"}
          /\ pages' \in {pages, pages + 1}
      BY DEF Reader, Finished, vars, NewRead, WhereHash, WhereRange, StartFrom, Execute,
             Scan, Ensured, TakeKey, Refused, ReadPage, ReadFails
    <2> QED
      BY <1>1, <2>1, <2>2 DEF Keys
  <1>5. /\ out'.outcome \in {"none", "ok", "error", "panic", "refused"}
        /\ out'.next \in Ids \cup {0}
        /\ out'.next # 0 => out'.outcome = "ok"
        /\ BuilderInv(walk'.query) /\ walk'.stable \subseteq ids
        /\ walk' \in [query : Builders, stable : SUBSET Ids, found : SUBSET Ids,
                      steady : BOOLEAN]
    <2>0. /\ walk \in [query : Builders, stable : SUBSET Ids, found : SUBSET Ids,
                       steady : BOOLEAN]
          /\ BuilderInv(query) /\ query \in Builders
          /\ BuilderInv(walk.query) /\ walk.stable \subseteq ids
      BY DEF KeyInv, TypeOK
    <2>1. CASE UNCHANGED <<out, walk>>
      BY <2>0, <2>1 DEF KeyInv, TypeOK
    <2>2. ASSUME NEW outcome \in {"error", "panic", "refused"}, ReadFails(outcome)
          PROVE  <1>5!:
      BY <2>0, <2>2 DEF ReadFails, Nothing
    <2>3. CASE ReadPage
      <3>1. ASSUME NEW i \in Page, NEW f \in Fields, Outcome(i, f) # "ok"
            PROVE  Outcome(i, f) \in {"error", "panic", "refused"}
        BY <3>1 DEF Outcome, ReadOutcome, PopulateOutcome
      <3>2. /\ NextCursor \in Ids \cup {0}
            /\ Page \subseteq ids
        <4>1. query.cursor \in Nat
          <5>1. query.cursor \in Ids \/ query.cursor = 0
            BY <2>0 DEF Builders
          <5>2. \A i \in Ids : i \in Nat
            BY ConstantsOK
          <5> QED
            BY <5>1, <5>2
        <4> QED
          BY <1>0, <4>1, PageFacts
      <3>3. ASSUME out'.outcome = "ok", out'.next = NextCursor,
                   walk' = IF query.cursor = 0
                             THEN [query |-> query, stable |-> ids, found |-> Page,
                                   steady |-> HasKey]
                             ELSE [walk EXCEPT !.query = query,
                                     !.found = walk.found \cup Page,
                                     !.steady = walk.steady /\ HasKey
                                                  /\ SameQuery(query, walk.query)]
            PROVE  <1>5!:
        <4>1. CASE query.cursor = 0
          <5>1. walk' = [query |-> query, stable |-> ids, found |-> Page, steady |-> HasKey]
            BY <3>3, <4>1
          <5>2. HasKey \in BOOLEAN
            BY DEF HasKey
          <5> QED
            BY <1>0, <2>0, <3>2, <3>3, <5>1, <5>2
        <4>2. CASE query.cursor # 0
          <5> DEFINE found == walk.found \cup Page
                     steady == walk.steady /\ HasKey /\ SameQuery(query, walk.query)
          <5>1. walk' = [walk EXCEPT !.query = query, !.found = found, !.steady = steady]
            BY <3>3, <4>2
          <5>2. found \in SUBSET Ids /\ steady \in BOOLEAN
            BY <1>0, <2>0, <3>2
          <5> HIDE DEF found, steady
          <5> QED
            BY <2>0, <3>2, <3>3, <5>1, <5>2
        <4> QED
          BY <4>1, <4>2
      <3> QED
        BY <2>2, <2>3, <3>1, <3>3 DEF ReadPage
    <2>4. CASE Refused
      BY <2>2, <2>4 DEF Refused
    <2>5. CASE (Reader /\ ~ReadPage /\ ~Refused) \/ Finished \/ UNCHANGED vars
      <3>1. UNCHANGED <<out, walk>>
        BY <2>5 DEF Reader, Finished, vars, NewRead, WhereHash, WhereRange, StartFrom,
                    Execute, Scan, Ensured, TakeKey
      <3> QED
        BY <2>1, <3>1
    <2> QED
      BY <2>3, <2>4, <2>5
  <1>6. query' \in Builders /\ (query'.hashes > 0 => query'.options # {})
    BY <1>3 DEF BuilderInv
  <1>7. TypeOK'
    BY <1>1, <1>2, <1>4, <1>5, <1>6 DEF KeyInv, TypeOK
  <1> QED
    BY <1>0, <1>1, <1>2, <1>3, <1>5, <1>7 DEF KeyInv

-----------------------------------------------------------------------------
(* What queries find.                                                      *)

\* Pages of this query with the key of the hash have object i.
Reaches(q, i) ==
  \/ q.kind = "scan"
  \/ Simple(q) /\ ChosenIndex(q) \in IndexSet /\ Findable(q, i)

\* What of a walk was not found yet is after this cursor.
Ahead(c) == \A i \in walk.stable : Reaches(walk.query, i) => i \in walk.found \/ i > c

SearchInv ==
  /\ ResultsMatch
  /\ walk.steady /\ query.cursor # 0 => Ahead(query.cursor)
  /\ walk.steady /\ out.next # 0 => Ahead(out.next)
  /\ walk.steady /\ out.outcome = "ok" /\ out.next = 0 =>
       \A i \in walk.stable : Reaches(walk.query, i) => i \in walk.found

\* What the server has of an object are values its tokens stand for.
LEMMA StoredToken ==
  ASSUME TableInv, NEW i \in ids, NEW idx \in IndexSet
  PROVE  /\ table[i][idx.hash] = Sent(given[i])[idx.hash]
         /\ table[i][idx.hash] \in Values /\ table[i][idx.hash].type \notin {"nil", "map"}
PROOF
  <1>1. Acceptable(given[i]) /\ table[i] = Sent(given[i]) /\ scenario \in Scenarios
    BY DEF TableInv
  <1>2. idx.hash \in Fields
    BY <1>1, IndexType DEF IndexSet, IndexNames
  <1> DEFINE f == idx.hash
             d == scenario.put[f]
             v == given[i][f]
  <1>3. /\ d \in Decls /\ DeclOK(d) /\ v \in Values /\ PutAccepts(d, v)
        /\ table[i][f] = Extracted(d, v) /\ table[i][f] # Nil
    <2>1. Sent(given[i])[f] # Nil
      BY <1>1 DEF Acceptable, PutAcceptsObject
    <2> QED
      BY <1>1, <1>2, <2>1, ObjectType, ScenarioFacts
  <1>4. Extracted(d, v) \in Values /\ Extracted(d, v).type \in Accepted(d.typ)
    <2> HIDE DEF d, v
    <2> QED
      BY <1>3, ExtractedAccepted
  <1>5. d.typ \in {"String", "Int", "Bool", "Time"}
    <2>1. SchemaOK(scenario.put, Indexes) /\ Indexes \in Seq(IndexNames)
      BY <1>1, ConstantsOK DEF ScenarioType, Indexes
    <2> QED
      BY <2>1 DEF SchemaOK, IndexSet
  <1>6. Accepted(d.typ) \cap {"nil", "map"} = {}
    BY <1>5 DEF Accepted
  <1> QED
    BY <1>1, <1>3, <1>4, <1>5, <1>6

LEMMA HitsAreWanted ==
  ASSUME TableInv, KeyInv, NEW i \in ids, Matches(i), Simple(query)
  PROVE  Wanted(query, given[i])
PROOF
  <1> DEFINE idx == ChosenIndex(query)
             a == table[i][idx.hash]
  <1>1. /\ idx \in IndexSet
        /\ Marshal(a) = Marshal(query.hash)
        /\ idx.range # NoField /\ query.ranged =>
             InRange(query.op, query.range, table[i][idx.range].val)
    BY DEF Matches
  <1>2. /\ idx.hash = query.field
        /\ query.ranged => idx.range = query.asked /\ query.asked # NoField
                           /\ query.op = query.range.op
    BY ChosenIsAsked DEF KeyInv, TableInv
  <1> HIDE DEF idx
  <1>3. /\ a = Sent(given[i])[query.field] /\ a \in Values /\ a.type \notin {"nil", "map"}
        /\ table[i] = Sent(given[i])
    BY <1>1, <1>2, StoredToken DEF TableInv
  <1>4. query.hash \in Values
    BY DEF KeyInv, BuilderInv, Builders
  <1> HIDE DEF a
  <1>5. Same(a, query.hash)
    BY <1>1, <1>3, <1>4, TokensAreValues
  <1> QED
    BY <1>1, <1>2, <1>3, <1>5 DEF Wanted

LEMMA ReachedAreHits ==
  ASSUME TableInv, KeyInv, NEW i \in ids, Reaches(query, i), HasKey
  PROVE  i \in Hits
PROOF
  <1> SUFFICES ASSUME query.kind = "query" PROVE Matches(i)
    BY DEF Hits
  <1> DEFINE idx == ChosenIndex(query)
             a == table[i][idx.hash]
  <1>1. Simple(query) /\ idx \in IndexSet /\ Findable(query, i) /\ query.key = "hash"
    BY DEF Reaches, HasKey
  <1>2. /\ idx.hash = query.field
        /\ query.ranged => idx.range = query.asked /\ query.op = query.range.op
    BY <1>1, ChosenIsAsked DEF KeyInv, TableInv
  <1> HIDE DEF idx
  <1>3. /\ a = Sent(given[i])[query.field] /\ a \in Values /\ a.type \notin {"nil", "map"}
        /\ table[i] = Sent(given[i])
    BY <1>1, <1>2, StoredToken DEF TableInv
  <1>4. query.hash \in Values
    BY DEF KeyInv, BuilderInv, Builders
  <1>5. /\ Same(a, query.hash) /\ a.zone = query.hash.zone
        /\ query.ranged => InRange(query.op, query.range, table[i][idx.range].val)
    BY <1>1, <1>2, <1>3 DEF Findable, Wanted
  <1>6. Marshal(a) = Marshal(query.hash)
    <2> HIDE DEF a
    <2> QED
      BY <1>3, <1>4, <1>5, TokensAreValues
  <1> QED
    BY <1>1, <1>5, <1>6 DEF Matches, idx

-----------------------------------------------------------------------------
(* Walks.                                                                  *)

\* A cursor is not part of what is asked for.
LEMMA CursorAsksNothing ==
  ASSUME NEW q, NEW r, BuilderInv(r), SameQuery(q, r)
  PROVE  \A i : Reaches(q, i) <=> Reaches(r, i)
PROOF
  <1>1. q = [r EXCEPT !.cursor = q.cursor]
    BY DEF SameQuery
  <1>2. /\ q.kind = r.kind /\ q.hashes = r.hashes /\ q.ranges = r.ranges
        /\ q.options = r.options /\ q.ranged = r.ranged /\ q.field = r.field
        /\ q.hash = r.hash /\ q.range = r.range /\ q.op = r.op /\ q.asked = r.asked
    BY <1>1 DEF BuilderInv, Builders
  <1> QED
    BY <1>2 DEF Reaches, Simple, ChosenIndex, Findable, Wanted

\* Nothing about a walk changes for an object that stays as it is.
LEMMA ReachesKept ==
  ASSUME scenario' = scenario, NEW q, walk'.query = q, NEW i, given'[i] = given[i]
  PROVE  Reaches(walk.query, i)' <=> Reaches(q, i)
PROOF
  BY DEF Reaches, Simple, ChosenIndex, Findable, Wanted, IndexOf, Indexes, IndexSet, Sent

LEMMA WriterSearch ==
  ASSUME RInv, KeyInv, SearchInv, Writer
  PROVE  SearchInv'
PROOF
  <1>1. UNCHANGED <<scenario, query, out>>
    BY DEF Writer, Delete, Put, PutHasKey, PutStored, PutFails
  <1>2. /\ walk'.query = walk.query /\ walk'.found = walk.found
        /\ walk'.steady = walk.steady /\ walk'.stable \subseteq walk.stable
        /\ \A i \in walk'.stable : given'[i] = given[i]
    <2>0. /\ walk \in [query : Builders, stable : SUBSET Ids, found : SUBSET Ids,
                       steady : BOOLEAN]
          /\ given \in [Ids -> [Fields -> Values]]
      BY DEF KeyInv, TypeOK
    <2>1. CASE UNCHANGED <<walk, given>>
      BY <2>1
    <2>2. ASSUME NEW i, NEW o, walk' = [walk EXCEPT !.stable = walk.stable \ {i}],
                 given' = [given EXCEPT ![i] = o]
          PROVE  <1>2!:
      BY <2>0, <2>2
    <2>3. CASE PutStored
      BY <2>2, <2>3 DEF PutStored
    <2>4. ASSUME NEW i \in Ids, Delete(i) PROVE <1>2!:
      BY <2>2, <2>4 DEF Delete
    <2>5. CASE \/ PutHasKey \/ PutFails \/ \E i \in Ids, o \in Objects : Put(i, o)
      BY <2>1, <2>5 DEF PutHasKey, PutFails, Put
    <2> QED
      BY <2>3, <2>4, <2>5 DEF Writer
  <1>3. \A i \in walk'.stable : Reaches(walk.query, i)' <=> Reaches(walk.query, i)
    BY <1>1, <1>2, ReachesKept
  <1>4. ResultsMatch'
    BY <1>1, <1>2 DEF SearchInv, ResultsMatch, Wanted, Sent
  <1> QED
    BY <1>1, <1>2, <1>3, <1>4 DEF SearchInv, Ahead

LEMMA ReadPageSearch ==
  ASSUME RInv, KeyInv, SearchInv, rpc = "send",
         UNCHANGED <<scenario, ids, given, query>>,
         NEW bad,
         out' = [outcome |-> "ok", items |-> [i \in Page \ bad |-> Item(i)],
                 given |-> [i \in Page \ bad |-> given[i]],
                 count |-> Cardinality(Page), next |-> NextCursor],
         walk' = IF query.cursor = 0
                   THEN [query |-> query, stable |-> ids, found |-> Page,
                         steady |-> HasKey]
                   ELSE [walk EXCEPT !.query = query, !.found = walk.found \cup Page,
                           !.steady = walk.steady /\ HasKey /\ SameQuery(query, walk.query)]
  PROVE  SearchInv'
PROOF
  <1>0. /\ TableInv /\ ids \subseteq Ids /\ Ids \subseteq Nat \ {0} /\ IsFiniteSet(ids)
        /\ walk \in [query : Builders, stable : SUBSET Ids, found : SUBSET Ids,
                     steady : BOOLEAN]
        /\ walk.stable \subseteq ids
    BY ConstantsOK DEF RInv, TableInv, KeyInv, TypeOK
  <1>1. query.cursor \in Nat
    <2>1. query.cursor \in Ids \/ query.cursor = 0
      BY DEF KeyInv, BuilderInv, Builders
    <2>2. \A i \in Ids : i \in Nat
      BY <1>0
    <2> QED
      BY <2>1, <2>2
  <1>2. /\ Page \subseteq ids /\ NextCursor \in Ids \cup {0}
        /\ \A i \in Hits : i > query.cursor =>
             i \in Page \/ (NextCursor # 0 /\ i > NextCursor)
    BY <1>0, <1>1, PageFacts
  <1>3. out'.outcome = "ok" /\ out'.next = NextCursor /\ DOMAIN out'.items = Page \ bad
        /\ \A i \in Page \ bad : out'.given[i] = given[i]
    OBVIOUS
  <1>4. walk'.query = query
    BY <1>0
  <1>5. ResultsMatch'
    <2> SUFFICES ASSUME Simple(query), NEW i \in Page \ bad
                 PROVE  Wanted(query, given[i])'
      BY <1>3, <1>4 DEF ResultsMatch, Simple
    <2>1. i \in ids /\ Matches(i)
      BY <1>2 DEF Page, Hits, Simple
    <2>2. Wanted(query, given[i])
      BY <1>0, <2>1, HitsAreWanted
    <2> QED
      BY <2>2 DEF Wanted, Sent
  <1>6. ASSUME walk'.steady, NEW i \in walk'.stable, Reaches(query, i)
        PROVE  i \in walk'.found \/ (NextCursor # 0 /\ i > NextCursor)
    <2>1. CASE query.cursor = 0
      <3>1. walk'.steady = HasKey /\ walk'.stable = ids /\ walk'.found = Page
        BY <2>1
      <3>2. i \in Hits
        BY <1>0, <1>6, <3>1, ReachedAreHits
      <3>3. i > query.cursor
        BY <1>0, <1>6, <2>1, <3>1
      <3> QED
        BY <1>2, <3>1, <3>2, <3>3
    <2>2. CASE query.cursor # 0
      <3>1. /\ walk'.steady = (walk.steady /\ HasKey /\ SameQuery(query, walk.query))
            /\ walk'.stable = walk.stable /\ walk'.found = walk.found \cup Page
        BY <1>0, <2>2
      <3>2. walk.steady /\ HasKey /\ SameQuery(query, walk.query) /\ i \in walk.stable
        BY <1>6, <3>1
      <3>3. Reaches(walk.query, i)
        BY <1>6, <3>2, CursorAsksNothing DEF KeyInv
      <3>4. i \in walk.found \/ i > query.cursor
        BY <2>2, <3>2, <3>3 DEF SearchInv, Ahead
      <3>5. i \in Hits
        BY <1>0, <1>6, <3>2, ReachedAreHits
      <3> QED
        BY <1>2, <3>1, <3>4, <3>5
    <2> QED
      BY <2>1, <2>2
  <1>7. \A i : Reaches(walk.query, i)' <=> Reaches(query, i)
    BY <1>4, ReachesKept
  <1>8. walk'.steady /\ query'.cursor # 0 => Ahead(query.cursor)'
    <2> SUFFICES ASSUME walk'.steady, query.cursor # 0, NEW i \in walk'.stable,
                        Reaches(query, i)
                 PROVE  i \in walk'.found \/ i > query.cursor
      BY <1>7 DEF Ahead
    <2>1. /\ walk'.steady = (walk.steady /\ HasKey /\ SameQuery(query, walk.query))
          /\ walk'.stable = walk.stable /\ walk'.found = walk.found \cup Page
      BY <1>0
    <2>2. walk.steady /\ SameQuery(query, walk.query) /\ i \in walk.stable
      BY <2>1
    <2>3. Reaches(walk.query, i)
      BY <2>2, CursorAsksNothing DEF KeyInv
    <2> QED
      BY <2>1, <2>2, <2>3 DEF SearchInv, Ahead
  <1> QED
    BY <1>3, <1>5, <1>6, <1>7, <1>8 DEF SearchInv, Ahead

LEMMA ReaderSearch ==
  ASSUME RInv, KeyInv, SearchInv, Reader \/ Finished \/ UNCHANGED vars
  PROVE  SearchInv'
PROOF
  <1>0. UNCHANGED <<scenario, ids, table, given, put>>
    BY DEF Reader, Finished, vars, NewRead, WhereHash, WhereRange, StartFrom, Execute, Scan,
           Ensured, TakeKey, Refused, ReadPage, ReadFails
  <1>1. ASSUME UNCHANGED <<out, walk>>, query'.cursor \in {0, query.cursor}
        PROVE  SearchInv'
    <2>1. \A i : Reaches(walk.query, i)' <=> Reaches(walk.query, i)
      BY <1>0, <1>1, ReachesKept
    <2>2. ResultsMatch'
      BY <1>0, <1>1 DEF SearchInv, ResultsMatch, Wanted, Sent
    <2> QED
      BY <1>1, <2>1, <2>2 DEF SearchInv, Ahead
  <1>2. ASSUME NEW outcome, outcome # "ok", ReadFails(outcome) PROVE SearchInv'
    <2>1. out'.outcome = outcome /\ out'.next = 0 /\ UNCHANGED <<walk, query>>
      BY <1>2 DEF ReadFails, Nothing
    <2>2. \A i : Reaches(walk.query, i)' <=> Reaches(walk.query, i)
      BY <1>0, <2>1, ReachesKept
    <2>3. ResultsMatch'
      BY <1>2, <2>1 DEF ResultsMatch
    <2> QED
      BY <1>2, <2>1, <2>2, <2>3 DEF SearchInv, Ahead
  <1>3. CASE StartFrom
    <2>1. query' = [query EXCEPT !.cursor = out.next] /\ UNCHANGED <<out, walk>> /\ out.next # 0
      BY <1>3 DEF StartFrom
    <2>2. query'.cursor = out.next
      BY <2>1 DEF KeyInv, BuilderInv, Builders
    <2>3. \A i : Reaches(walk.query, i)' <=> Reaches(walk.query, i)
      BY <1>0, <2>1, ReachesKept
    <2>4. ResultsMatch'
      BY <1>0, <2>1 DEF SearchInv, ResultsMatch, Wanted, Sent
    <2> QED
      BY <2>1, <2>2, <2>3, <2>4 DEF SearchInv, Ahead
  <1>4. ASSUME NEW kind \in {"scan", "query"}, NewRead(kind) PROVE SearchInv'
    BY <1>1, <1>4 DEF NewRead, NewBuilder
  <1>5. ASSUME NEW f \in Fields, NEW v \in scenario.values[f], WhereHash(f, v)
        PROVE  SearchInv'
    <2>1. query'.cursor = query.cursor
      BY <1>5 DEF WhereHash, KeyInv, BuilderInv, Builders
    <2> QED
      BY <1>1, <1>5, <2>1 DEF WhereHash
  <1>6. ASSUME NEW f \in Fields, NEW r \in scenario.ranges, WhereRange(f, r)
        PROVE  SearchInv'
    <2>1. query'.cursor = query.cursor
      BY <1>6 DEF WhereRange, KeyInv, BuilderInv, Builders
    <2> QED
      BY <1>1, <1>6, <2>1 DEF WhereRange
  <1>7. CASE Execute \/ Scan \/ Ensured \/ Finished \/ UNCHANGED vars
    <2>1. UNCHANGED <<out, walk, query>>
      BY <1>7 DEF Execute, Scan, Ensured, Finished, vars
    <2> QED
      BY <1>1, <2>1
  <1>k. CASE TakeKey
    <2>1. query'.cursor = query.cursor
      BY <1>k, SentWithInv DEF TakeKey, KeyInv, TypeOK
    <2> QED
      BY <1>1, <1>k, <2>1 DEF TakeKey
  <1>8. CASE Refused
    BY <1>2, <1>8 DEF Refused
  <1>9. CASE ReadPage
    <2>1. PICK bad \in (IF BadKeys THEN SUBSET Page ELSE {{}}) :
            \/ \E i \in Page \ bad, f \in Fields :
                 Outcome(i, f) # "ok" /\ ReadFails(Outcome(i, f))
            \/ /\ out' = [outcome |-> "ok", items |-> [i \in Page \ bad |-> Item(i)],
                          given |-> [i \in Page \ bad |-> given[i]],
                          count |-> Cardinality(Page), next |-> NextCursor]
               /\ walk' = IF query.cursor = 0
                            THEN [query |-> query, stable |-> ids, found |-> Page,
                                  steady |-> HasKey]
                            ELSE [walk EXCEPT !.query = query,
                                    !.found = walk.found \cup Page,
                                    !.steady = walk.steady /\ HasKey
                                                 /\ SameQuery(query, walk.query)]
               /\ UNCHANGED query
      BY <1>9 DEF ReadPage
    <2>2. rpc = "send"
      BY <1>9 DEF ReadPage
    <2> QED
      BY <1>0, <1>2, <2>1, <2>2, ReadPageSearch
  <1> QED
    BY <1>3, <1>4, <1>5, <1>6, <1>7, <1>k, <1>8, <1>9 DEF Reader

IInv == RInv /\ KeyInv /\ SearchInv

LEMMA InvInit == Init => IInv
PROOF
  <1>1. Init => SearchInv
    BY DEF Init, SearchInv, ResultsMatch, Nothing, NoWalk, NewBuilder
  <1> QED
    BY <1>1, ReadsInit, KeyInit DEF IInv

LEMMA InvStep == IInv /\ [Next]_vars => IInv'
PROOF
  <1> SUFFICES ASSUME IInv, [Next]_vars PROVE IInv'
    OBVIOUS
  <1>1. RInv'
    BY TableStep, PagesStep DEF IInv, RInv
  <1>2. CASE Writer
    BY <1>1, <1>2, WriterTypes, WriterSearch DEF IInv
  <1>3. CASE Reader \/ Finished \/ UNCHANGED vars
    BY <1>1, <1>3, ReaderTypes, ReaderSearch DEF IInv
  <1> QED
    BY <1>2, <1>3 DEF Next

LEMMA Invariant == Spec => []IInv
PROOF
  BY InvInit, InvStep, PTL DEF Spec

\* Every variable keeps its type; half a key is seen only while Put writes it.
THEOREM TypeCorrect == Spec => []TypeOK
PROOF
  <1>1. IInv => TypeOK
    BY DEF IInv, KeyInv
  <1> QED
    BY Invariant, <1>1, PTL

\* What Put accepts can be read, for every model and value: no object makes a page
\* fail unless a field is fragile (populate, after validate and extract).
THEOREM PagesStayReadable == Spec => []PagesAreReadable
PROOF
  <1>1. IInv => PagesAreReadable
    BY DEF IInv, RInv, PagesInv
  <1> QED
    BY Invariant, <1>1, PTL

\* A field comes back as it was put last, but for the changes the property names,
\* whatever became of the object in between.
THEOREM FieldsComeBack == Spec => []ItemsAreWhatWasPut
PROOF
  <1>1. IInv => ItemsAreWhatWasPut
    BY DEF IInv, RInv, PagesInv
  <1> QED
    BY Invariant, <1>1, PTL

\* An object that was read can be put back as it is, by Update or by its reader:
\* Put accepts it, it reads the same again, and queries find it as before, but
\* for the fields the property names.
THEOREM ReadsGoBack == Spec => []ReadsCanBePutBack
PROOF
  <1>1. IInv => ReadsCanBePutBack
    BY DEF IInv, RInv, PagesInv
  <1> QED
    BY Invariant, <1>1, PTL

\* A query with one WhereHash and at most one WhereRange returns only what was
\* asked for, with any indexes (WhereHash, WhereRange, Execute).
THEOREM QueriesMatch == Spec => []ResultsMatch
PROOF
  <1>1. IInv => ResultsMatch
    BY DEF IInv, SearchInv
  <1> QED
    BY Invariant, <1>1, PTL

\* Scan and Query, page by page, miss no object that stayed as it was: for every
\* page size, whatever else comes, changes and goes between the pages.
THEOREM ReadsMissNothing == Spec => []NothingMissed
PROOF
  <1>1. IInv => NothingMissed
    BY DEF IInv, SearchInv, NothingMissed, AllFound, Reaches
  <1> QED
    BY Invariant, <1>1, PTL

-----------------------------------------------------------------------------
(* A handle that only reads.                                               *)

\* Its key is that of the table's name, and pages of its queries are empty.
FindsNothing ==
  ~scenario.shared =>
    /\ {iek, query.key} \subseteq {"nil", "name"}
    /\ out.outcome = "ok" /\ walk.query.kind = "query" =>
         DOMAIN out.items = {} /\ out.count = 0 /\ out.next = 0

LEMMA FindsNothingStep == IInv /\ FindsNothing /\ [Next]_vars => FindsNothing'
PROOF
  <1> SUFFICES ASSUME IInv, FindsNothing, [Next]_vars, ~scenario.shared PROVE FindsNothing'
    BY DEF FindsNothing, Next, Writer, Delete, Put, PutHasKey, PutStored, PutFails, Reader, NewRead,
           WhereHash, WhereRange, StartFrom, Execute, Scan, Ensured, TakeKey, Refused, ReadFails, ReadPage,
           Finished, vars
  <1>0. walk \in [query : Builders, stable : SUBSET Ids, found : SUBSET Ids, steady : BOOLEAN]
    BY DEF IInv, KeyInv, TypeOK
  <1>k. iek \in {"nil", "name"} /\ query.key \in {"nil", "name"} /\ query \in Builders
    BY DEF FindsNothing, IInv, KeyInv, TypeOK
  <1>1. ASSUME iek' \in {"nil", "name"}, query'.key \in {"nil", "name"}, out' = out,
               walk'.query = walk.query
        PROVE  FindsNothing'
    BY <1>1 DEF FindsNothing
  <1>2. CASE Writer
    <2>1. iek' \in {"nil", "name"} /\ query' = query
      BY <1>k, <1>2 DEF Writer, Delete, Put, PutHasKey, PutStored, PutFails, Settled
    <2>2. out' = out
      BY <1>2 DEF Writer, Delete, Put, PutHasKey, PutStored, PutFails
    <2>3. walk' = walk \/ \E S : walk' = [walk EXCEPT !.stable = S]
      BY <1>2 DEF Writer, Delete, Put, PutHasKey, PutStored, PutFails
    <2>4. walk'.query = walk.query
      BY <1>0, <2>3
    <2> QED
      BY <1>1, <1>k, <2>1, <2>2, <2>4
  <1>3. CASE ReadPage
    <2>1. CASE \E outcome : ReadFails(outcome) /\ outcome # "ok"
      BY <1>k, <2>1 DEF ReadFails, FindsNothing, Nothing
    <2>2. CASE ~\E outcome : ReadFails(outcome) /\ outcome # "ok"
      <3>1. PICK bad \in IF BadKeys THEN SUBSET Page ELSE {{}} :
              /\ out' = [outcome |-> "ok", items |-> [i \in Page \ bad |-> Item(i)],
                         given |-> [i \in Page \ bad |-> given[i]],
                         count |-> Cardinality(Page), next |-> NextCursor]
              /\ iek' = iek /\ query' = query /\ walk'.query = query
        <4>1. \A i, f : ~(Outcome(i, f) # "ok" /\ ReadFails(Outcome(i, f)))
          BY <2>2
        <4>2. PICK bad \in IF BadKeys THEN SUBSET Page ELSE {{}} :
                /\ out' = [outcome |-> "ok", items |-> [i \in Page \ bad |-> Item(i)],
                           given |-> [i \in Page \ bad |-> given[i]],
                           count |-> Cardinality(Page), next |-> NextCursor]
                /\ walk' = IF query.cursor = 0
                             THEN [query |-> query, stable |-> ids, found |-> Page,
                                   steady |-> HasKey]
                             ELSE [walk EXCEPT !.query = query, !.found = @ \cup Page,
                                     !.steady = @ /\ HasKey /\ SameQuery(query, walk.query)]
                /\ iek' = iek /\ query' = query
          BY <1>3, <4>1, Zenon DEF ReadPage
        <4>3. walk'.query = query
          <5>1. CASE query.cursor = 0
            BY <4>2, <5>1
          <5>2. CASE query.cursor # 0
            <6> DEFINE W == [walk EXCEPT !.query = query, !.found = @ \cup Page,
                               !.steady = @ /\ HasKey /\ SameQuery(query, walk.query)]
            <6>1. walk' = W
              BY <4>2, <5>2
            <6>2. W.query = query
              BY <1>0
            <6> QED
              BY <6>1, <6>2
          <5> QED
            BY <5>1, <5>2
        <4> QED
          BY <4>2, <4>3
      <3>2. ASSUME query.kind = "query" PROVE Page = {} /\ NextCursor = 0
        <4>1. Hits = {}
          BY <1>k, <3>2 DEF Hits, Matches
        <4> QED
          BY <4>1 DEF Page, NextCursor
      <3>3. ASSUME query.kind = "query"
            PROVE  DOMAIN out'.items = {} /\ out'.count = 0 /\ out'.next = 0
        <4>1. Page = {} /\ Page \ bad = {} /\ NextCursor = 0 /\ Cardinality(Page) = 0
          BY <3>2, <3>3, FS_EmptySet
        <4> QED
          BY <3>1, <4>1
      <3> QED
        BY <1>k, <3>1, <3>3 DEF FindsNothing
    <2> QED
      BY <2>1, <2>2
  <1>4. CASE Refused
    BY <1>k, <1>4 DEF Refused, ReadFails, Nothing, FindsNothing
  <1>5. CASE \/ \E kind \in {"scan", "query"} : NewRead(kind)
             \/ \E f \in Fields : \/ \E v \in scenario.values[f] : WhereHash(f, v)
                                 \/ \E r \in scenario.ranges : WhereRange(f, r)
             \/ StartFrom \/ Execute \/ Scan \/ Ensured \/ TakeKey \/ Finished
             \/ UNCHANGED vars
    <2>1. out' = out /\ walk' = walk /\ iek' \in {iek, "name"}
      BY <1>5 DEF NewRead, WhereHash, WhereRange, StartFrom, Execute, Scan, Ensured, TakeKey,
                  Finished, vars
    <2>2. query'.key \in {"nil", query.key, iek}
      <3>1. ASSUME NEW kind, NewRead(kind) PROVE query'.key = "nil"
        BY <3>1 DEF NewRead, NewBuilder
      <3>2. ASSUME NEW f, NEW v, WhereHash(f, v) PROVE query'.key = query.key
        BY <1>k, <3>2 DEF WhereHash, Builders
      <3>3. ASSUME NEW f, NEW r, WhereRange(f, r) PROVE query'.key = query.key
        BY <1>k, <3>3 DEF WhereRange, Builders
      <3>4. CASE StartFrom
        BY <1>k, <3>4 DEF StartFrom, Builders
      <3>5. CASE TakeKey
        BY <1>k, <3>5 DEF TakeKey, Builders
      <3>6. CASE Execute \/ Scan \/ Ensured \/ Finished \/ UNCHANGED vars
        BY <3>6 DEF Execute, Scan, Ensured, Finished, vars
      <3> QED
        BY <1>5, <3>1, <3>2, <3>3, <3>4, <3>5, <3>6
    <2> QED
      BY <1>k, <1>1, <2>1, <2>2
  <1> QED
    BY <1>2, <1>3, <1>4, <1>5 DEF Next, Reader

\* Through a handle no Put was called on, as in a program that only reads, every
\* query of an indexed field returns an empty page without an error, whatever the
\* table holds: ensureTableIEK asks for the key of the table's name, and Put's
\* tokens are made with that of its hash (schema.go, put.go, query.go).
THEOREM ReadersFindNothing == Spec => []FindsNothing
PROOF
  <1>1. Init => FindsNothing
    BY DEF Init, FindsNothing, Nothing, NewBuilder
  <1> QED
    BY <1>1, FindsNothingStep, Invariant, PTL DEF Spec

=============================================================================
