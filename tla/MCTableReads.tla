---------------------------- MODULE MCTableReads ----------------------------
(***************************************************************************)
(* TLC instances of TableReads: models, indexes and values.                *)
(***************************************************************************)
EXTENDS TableReads, TLC

CONSTANTS a, b

TwoFields == {a, b}
TwoIds == {1, 2}
ThreeIds == {1, 2, 3}

\* An int of five bits and a float with a mantissa of two: 5 becomes 4, and 15
\* becomes 16, which the int cannot hold.
SmallMaxInt == 15
SmallFloats == {0, 1, 2, 3, 4, 6, 8, 12, 16} \cup {-1, -2, -3, -4, -6, -8, -12, -16}
SmallOverflow == -16

Plain(typ, go) == Decl(typ, go, Nil, FALSE)
Number == Plain("Int", "int64")
One == {Value("int64", 1)}

On(f) == [hash |-> f, range |-> NoField]
OnBoth(f, g) == [hash |-> f, range |-> g]

\* A later WhereHash makes them conditions for equality.
Below == [op |-> "Lt", lo |-> 1, hi |-> 1]
Ranges == {Below, [op |-> "Between", lo |-> 0, hi |-> 1]}

\* One handle, two numbers, and these indexes.
Indexed(indexes, n) ==
  [put |-> (a :> Number @@ b :> Number), read |-> (a :> Number @@ b :> Number),
   values |-> (a :> One @@ b :> One), indexes |-> indexes, ranges |-> Ranges,
   shared |-> TRUE, maxPuts |-> 2, maxPages |-> n]

\* One field is put and read with these declarations; the other one is a zero.
Typed(putA, readA, values, indexes) ==
  [put |-> (a :> putA @@ b :> Number), read |-> (a :> readA @@ b :> Number),
   values |-> (a :> values @@ b :> {}), indexes |-> indexes, ranges |-> {},
   shared |-> putA = readA, maxPuts |-> 1, maxPages |-> 1]

IndexScenarios ==
  {[Indexed(<<On(a), OnBoth(a, b)>>, 2) EXCEPT !.ranges = {Below}], Indexed(<<OnBoth(a, b), OnBoth(a, a)>>, 1),
   Indexed(<<On(a), On(b)>>, 1), [Indexed(<<On(a)>>, 1) EXCEPT !.shared = FALSE]}

Times == {Value("time", 1), LocalTime(1)}
TimeScenarios ==
  {Typed(Plain("Time", "time"), Plain("Time", "time"), Times, <<On(a)>>),
   Typed(Decl("Time", "any", LocalTime(1), FALSE), Decl("Time", "any", LocalTime(1), FALSE),
         Times, <<On(a)>>)}

Large == {Value("int64", n) : n \in {1, 5, 15}}
Maps == {Map("text", 1), Map("ints", -5), Map("times", 1)}
Declared ==
  {<<Number, Large>>, <<Decl("Int", "any", Value("int64", 15), FALSE), Large>>,
   <<Plain("Int", "namedInt"), {Value("namedInt", 1)}>>,
   <<Decl("String", "any", Value("string", 1), TRUE), {Value("string", 2)}>>,
   <<Plain("String", "string"), {Value("string", 1)}>>,
   <<Decl("String", "pointer", Value("string", 1), FALSE), {}>>,
   <<Plain("Float", "float64"), {Value("float64", 1)}>>,
   <<Plain("Float", "float32"), {Value("float32", 1)}>>,
   <<Plain("String", "namedString"), {Value("namedString", 1)}>>,
   <<Decl("Bool", "bool", Value("bool", 1), FALSE), {Value("bool", 1)}>>,
   <<Plain("JSON", "map"), {Map("text", 1)}>>,
   <<Plain("JSON", "any"), Maps>>}

\* Each declaration by itself, and tables put with one and read with another.
CodecScenarios ==
  {Typed(d[1], d[1], d[2], << >>) : d \in Declared}
  \cup {Typed(d[1], e[1], d[2], << >>) : d, e \in Declared}

AllScenarios == IndexScenarios \cup TimeScenarios \cup CodecScenarios
OneIndex == {Indexed(<<On(a)>>, 1)}
OneMap == {Typed(Plain("JSON", "map"), Plain("JSON", "map"), {Map("text", 1)}, << >>)}

=============================================================================
