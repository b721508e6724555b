----------------------------- MODULE TableReads -----------------------------
(***************************************************************************)
(* Scan and Query of one table, page by page, by one goroutine while       *)
(* another one puts and deletes objects.  The two use one schema handle,   *)
(* or the writer is another client, with the same model or an older one.   *)
(*                                                                         *)
(* Modelled are the key the tokens of a query are made with (ensureTableIEK*)
(* and Put share s.tableIEK without a lock), the calls of the query        *)
(* builder in any order, the index Execute chooses, and what becomes of    *)
(* every field between Put and the page (FieldCodec).                      *)
(*                                                                         *)
(* The server is outside this repository: it finds the entries of one      *)
(* index whose hash token is that of the query and whose range token is in *)
(* range, in the order of the ids.  A token tells apart the key, the index *)
(* it was made for and the JSON text of the value; the table hash is one.  *)
(***************************************************************************)
EXTENDS FieldCodec, Sequences, FiniteSets

CONSTANTS
  Fields,      \* the fields of the objects
  NoField,     \* the nil RangeField
  Ids,         \* the ids of the objects, in the server's order
  Scenarios,   \* models, indexes, values, sharing of handles, and bounds to choose from
  Limit,       \* the page size callers ask for
  MaxChain,    \* bound: how many calls of WhereHash and WhereRange a query has
  BadKeys      \* keys of single objects may fail to unseal

RangeConditions == [op : {"Eq", "Lt", "Between"}, lo : Int, hi : Int]
IndexNames == [hash : Fields, range : Fields \cup {NoField}]

\* "put" and "read" are the models of the writer's and of the reader's handle,
\* "shared" says that they are one; "maxPuts" and "maxPages" are bounds.
ScenarioType ==
  [put : [Fields -> Decls], read : [Fields -> Decls], values : [Fields -> SUBSET Values],
   indexes : Seq(IndexNames), ranges : SUBSET RangeConditions, shared : BOOLEAN,
   maxPuts : Nat, maxPages : Nat]

\* Schema() returns a handle for the model and these indexes.
SchemaOK(model, indexes) ==
  /\ \A f \in Fields : DeclOK(model[f])
  /\ \A n \in DOMAIN indexes :
       /\ model[indexes[n].hash].typ \in {"String", "Int", "Bool", "Time"}
       /\ indexes[n].range # NoField =>
            model[indexes[n].range].typ \in {"String", "Int", "Bool", "Float", "Time"}

ASSUME ConstantsOK ==
  /\ NoField \notin Fields
  /\ Ids \subseteq Nat \ {0}
  /\ Limit \in Nat \ {0}
  /\ MaxChain \in Nat
  /\ BadKeys \in BOOLEAN
  /\ Scenarios \subseteq ScenarioType
  /\ \A s \in Scenarios : SchemaOK(s.put, s.indexes) /\ SchemaOK(s.read, s.indexes)

VARIABLES
  scenario,  \* what of Scenarios this is
  ids,       \* server: the objects in the table
  table,     \* server: id -> the value Put sent for each field
  given,     \* history: id -> the object Put was given
  iek,       \* the tableIEK of the reader's handle: nil, of the name, of the hash
  put,       \* the Put under way, or NoPut
  query,     \* the reader's QueryBuilder or ScanInput, and the key it was sent with
  rpc,       \* where in Execute the reader is
  out,       \* what the last page read returned
  puts,      \* Puts made (the bound)
  pages,     \* pages asked for (the bound)
  walk       \* history: the pages read since the last first one

vars == <<scenario, ids, table, given, iek, put, query, rpc, out, puts, pages, walk>>

None == [f \in Fields |-> Nil]
NoPut == [stage |-> "none", id |-> 0, object |-> None]

NoRange == [op |-> "Eq", lo |-> 0, hi |-> 0]

\* schema.Query(): nothing chosen yet.  An option is the call of WhereHash that
\* added it and its position in Indexes.  "field", "asked", "hashes" and "ranges"
\* are history: the last fields asked for and how many calls there were.
NewBuilder(kind) ==
  [kind |-> kind, options |-> {}, hash |-> Nil, ranged |-> FALSE, range |-> NoRange,
   op |-> "Eq", cursor |-> 0, key |-> "nil", field |-> NoField, asked |-> NoField, hashes |-> 0, ranges |-> 0]

Nothing == [outcome |-> "none", items |-> << >>, given |-> << >>, count |-> 0, next |-> 0]

\* "stable" are the objects that were in the table at the first page and are
\* unchanged since, "found" those the pages had, or skipped; "steady" says that
\* all pages were asked for by the same query and with the key of the hash.
NoWalk == [query |-> NewBuilder("scan"), stable |-> {}, found |-> {}, steady |-> FALSE]

Init ==
  /\ scenario \in Scenarios
  /\ ids = {}
  /\ table = [i \in Ids |-> None]
  /\ given = [i \in Ids |-> None]
  /\ iek = "nil"
  /\ put = NoPut
  /\ query = NewBuilder("scan")
  /\ rpc = "idle"
  /\ out = Nothing
  /\ puts = 0
  /\ pages = 0
  /\ walk = NoWalk

-----------------------------------------------------------------------------
(* Put and Delete, by the other goroutine.                                 *)

Indexes == scenario.indexes
IndexSet == {Indexes[n] : n \in 1..Len(Indexes)}

\* What field f of a struct can hold: its zero value, and values of its type.
Held(f) ==
  {ZeroOf(scenario.put[f].go)}
    \cup {v \in scenario.values[f] : scenario.put[f].go \in {"any", v.type}}

\* The structs the caller can fill.
Objects ==
  {o \in [Fields -> UNION {Held(f) : f \in Fields}] : \A f \in Fields : o[f] \in Held(f)}

Sent(o) == [f \in Fields |-> Extracted(scenario.put[f], o[f])]

\* validate and extract accept the object, and its indexes have their keys.
PutAcceptsObject(o) ==
  /\ \A f \in Fields : PutAccepts(scenario.put[f], o[f])
  /\ \A idx \in IndexSet :
       /\ Sent(o)[idx.hash] # Nil
       /\ idx.range # NoField => Sent(o)[idx.range] # Nil

\* Put asks the enclave for a data key.
Put(i, o) ==
  /\ put = NoPut
  /\ puts < scenario.maxPuts
  /\ PutAcceptsObject(o)
  /\ puts' = puts + 1
  /\ put' = [stage |-> "key", id |-> i, object |-> o]
  /\ UNCHANGED <<scenario, ids, table, given, iek, query, rpc, out, pages, walk>>

\* s.tableIEK = iek: a slice is written in several words, and a reader of a
\* handle that had no key can see some of them.
PutHasKey ==
  /\ put.stage = "key"
  /\ put' = [put EXCEPT !.stage = "send"]
  /\ iek' \in CASE ~scenario.shared -> {iek}
                 [] scenario.shared /\ iek = "nil" -> {"torn", "hash"}
                 [] OTHER -> {"hash"}
  /\ UNCHANGED <<scenario, ids, table, given, query, rpc, out, puts, pages, walk>>

\* By now the slice is written.
Settled == iek' = IF iek = "torn" THEN "hash" ELSE iek

\* The server stores the object under tokens made with the key of the hash.
PutStored ==
  /\ put.stage = "send"
  /\ ids' = ids \cup {put.id}
  /\ table' = [table EXCEPT ![put.id] = Sent(put.object)]
  /\ given' = [given EXCEPT ![put.id] = put.object]
  /\ walk' = [walk EXCEPT !.stable = @ \ {put.id}]
  /\ put' = NoPut
  /\ Settled
  /\ UNCHANGED <<scenario, query, rpc, out, puts, pages>>

\* No data key, or no success from the server.
PutFails ==
  /\ put # NoPut
  /\ put' = NoPut
  /\ Settled
  /\ UNCHANGED <<scenario, ids, table, given, query, rpc, out, puts, pages, walk>>

Delete(i) ==
  /\ put = NoPut
  /\ i \in ids
  /\ ids' = ids \ {i}
  /\ walk' = [walk EXCEPT !.stable = @ \ {i}]
  /\ table' = [table EXCEPT ![i] = None]
  /\ given' = [given EXCEPT ![i] = None]
  /\ UNCHANGED <<scenario, iek, put, query, rpc, out, puts, pages>>

-----------------------------------------------------------------------------
(* The query builder.                                                      *)

\* Bound: a read is prepared only when there is a page left to ask for.
MoreCalls == query.hashes + query.ranges < MaxChain /\ pages < scenario.maxPages

\* schema.Query(ctx), or a ScanInput for the first page.
NewRead(kind) ==
  /\ rpc = "idle"
  /\ pages < scenario.maxPages
  /\ query' = NewBuilder(kind)
  /\ UNCHANGED <<scenario, ids, table, given, iek, put, rpc, out, puts, pages, walk>>

\* The index of an option, and the first option of some.
IndexOf(o) == Indexes[o[2]]
First(S) == CHOOSE o \in S : \A p \in S : o[1] < p[1] \/ (o[1] = p[1] /\ o[2] <= p[2])

\* findIndexByHash, as the options of the next call, and findIndexByRange.
WithHash(f) == {<<query.hashes, n>> : n \in {n \in 1..Len(Indexes) : Indexes[n].hash = f}}
WithRange(f) == {o \in query.options : IndexOf(o).range = f}

\* Mutant: a field without an index does not panic.
WhereHashUnchecked(f, v) ==
  /\ rpc = "idle" /\ query.kind = "query"
  /\ MoreCalls
  /\ query' = [query EXCEPT !.options = @ \cup WithHash(f), !.hash = v, !.op = "Eq",
                 !.field = f, !.hashes = @ + 1]
  /\ UNCHANGED <<scenario, ids, table, given, iek, put, rpc, out, puts, pages, walk>>

\* WhereHash adds the indexes of the field and resets the operator; it panics
\* when there are none.
WhereHash(f, v) ==
  /\ rpc = "idle" /\ query.kind = "query"
  /\ WithHash(f) # {}
  /\ MoreCalls
  /\ query' = [query EXCEPT !.options = @ \cup WithHash(f), !.hash = v, !.op = "Eq",
                 !.field = f, !.hashes = @ + 1]
  /\ UNCHANGED <<scenario, ids, table, given, iek, put, rpc, out, puts, pages, walk>>

\* Mutants: the other indexes are kept, or the operator is.
WhereRangeKeepsOptions(f, r) ==
  /\ rpc = "idle" /\ query.kind = "query"
  /\ WithRange(f) # {}
  /\ MoreCalls
  /\ query' = [query EXCEPT !.ranged = TRUE, !.range = r, !.op = r.op, !.asked = f,
                 !.ranges = @ + 1]
  /\ UNCHANGED <<scenario, ids, table, given, iek, put, rpc, out, puts, pages, walk>>
WhereRangeKeepsOp(f, r) ==
  /\ rpc = "idle" /\ query.kind = "query"
  /\ WithRange(f) # {}
  /\ MoreCalls
  /\ query' = [query EXCEPT !.options = {First(WithRange(f))}, !.ranged = TRUE, !.range = r,
                 !.asked = f, !.ranges = @ + 1]
  /\ UNCHANGED <<scenario, ids, table, given, iek, put, rpc, out, puts, pages, walk>>

\* WhereRange keeps the first index with that range field; it panics when there
\* is none.
WhereRange(f, r) ==
  /\ rpc = "idle" /\ query.kind = "query"
  /\ WithRange(f) # {}
  /\ MoreCalls
  /\ query' = [query EXCEPT !.options = {First(WithRange(f))}, !.ranged = TRUE, !.range = r,
                 !.op = r.op, !.asked = f, !.ranges = @ + 1]
  /\ UNCHANGED <<scenario, ids, table, given, iek, put, rpc, out, puts, pages, walk>>

\* StartFrom(NextCursor), or the same in a ScanInput.
StartFrom ==
  /\ rpc = "idle"
  /\ pages < scenario.maxPages
  /\ out.next # 0
  /\ query' = [query EXCEPT !.cursor = out.next]
  /\ UNCHANGED <<scenario, ids, table, given, iek, put, rpc, out, puts, pages, walk>>

-----------------------------------------------------------------------------
(* Execute and Scan.                                                       *)

\* The index Execute settles on: with more than one to choose from it is the
\* hash field of the first alone, or the first that has the first's range field.
ChosenIndex(q) ==
  LET first == IndexOf(First(q.options)) IN
  IF Cardinality(q.options) > 1 /\ ~q.ranged
    THEN [hash |-> first.hash, range |-> NoField]
    ELSE first

InRange(op, r, n) ==
  CASE op = "Lt" -> n < r.lo
    [] op = "Between" -> r.lo <= n /\ n <= r.hi
    [] OTHER -> n = r.lo

\* The server finds entry i: the table has the index, and the tokens match.
Matches(i) ==
  LET idx == ChosenIndex(query) IN
  /\ query.key = "hash"
  /\ idx \in IndexSet
  /\ Marshal(table[i][idx.hash]) = Marshal(query.hash)
  /\ idx.range # NoField /\ query.ranged =>
       InRange(query.op, query.range, table[i][idx.range].val)

Hits == {i \in ids : query.kind = "query" => Matches(i)}

\* The page after the cursor.
Page == {i \in Hits : /\ i > query.cursor
                      /\ Cardinality({j \in Hits : query.cursor < j /\ j < i}) < Limit}

MaxOf(S) == CHOOSE n \in S : \A m \in S : m <= n

NextCursor == IF \E i \in Hits : i > query.cursor /\ i \notin Page THEN MaxOf(Page) ELSE 0

Outcome(i, f) == ReadOutcome(scenario.read[f], Marshal(table[i][f]))
Item(i) == [f \in Fields |-> ReadValue(scenario.read[f], Marshal(table[i][f]))]

\* ensureTableIEK: the first query of a handle without a key asks for one.
Execute ==
  /\ rpc = "idle" /\ query.kind = "query"
  /\ pages < scenario.maxPages
  /\ pages' = pages + 1
  /\ rpc' = IF iek = "nil" THEN "ensure" ELSE "key"
  /\ UNCHANGED <<scenario, ids, table, given, iek, put, query, out, puts, walk>>

Scan ==
  /\ rpc = "idle" /\ query.kind = "scan"
  /\ pages < scenario.maxPages
  /\ pages' = pages + 1
  /\ rpc' = "send"
  /\ UNCHANGED <<scenario, ids, table, given, iek, put, query, out, puts, walk>>

\* The key for the name of the table arrives.
Ensured ==
  /\ rpc = "ensure"
  /\ iek' = "name"
  /\ rpc' = "key"
  /\ UNCHANGED <<scenario, ids, table, given, put, query, out, puts, pages, walk>>

\* The request is built with the key the handle has now.
TakeKey ==
  /\ rpc = "key"
  /\ query' = [query EXCEPT !.key = iek]
  /\ rpc' = "send"
  /\ UNCHANGED <<scenario, ids, table, given, iek, put, out, puts, pages, walk>>

\* A read fails, for whatever reason, or panics.
ReadFails(outcome) ==
  /\ rpc' = "idle"
  /\ out' = [Nothing EXCEPT !.outcome = outcome]
  /\ UNCHANGED <<scenario, ids, table, given, iek, put, query, puts, pages, walk>>

\* The enclave, the server or S3 fails, or the builder's calls do not add up.
Refused ==
  /\ rpc # "idle"
  /\ ReadFails("refused")

\* No index, the pair of Between under another operator, or half a key.
Unusable ==
  \/ query.options = {}
  \/ query.ranged /\ query.op = "Eq" /\ query.range.op = "Between"
  \/ query.key = "torn"

HasKey == query.kind = "query" => query.key = "hash"
SameQuery(q, r) == q = [r EXCEPT !.cursor = q.cursor]

\* The page arrives: objects whose key fails are skipped, any other failure is
\* the page's.
ReadPage ==
  /\ rpc = "send"
  /\ query.kind = "query" => ~Unusable
  /\ \E bad \in IF BadKeys THEN SUBSET Page ELSE {{}} :
       LET good == Page \ bad IN
       \/ \E i \in good, f \in Fields : Outcome(i, f) # "ok" /\ ReadFails(Outcome(i, f))
       \/ /\ \A i \in good, f \in Fields : Outcome(i, f) = "ok"
          /\ rpc' = "idle"
          /\ out' = [outcome |-> "ok", items |-> [i \in good |-> Item(i)],
                     given |-> [i \in good |-> given[i]],
                     count |-> Cardinality(Page), next |-> NextCursor]
          /\ walk' = IF query.cursor = 0
                       THEN [query |-> query, stable |-> ids, found |-> Page,
                             steady |-> HasKey]
                       ELSE [walk EXCEPT !.query = query, !.found = @ \cup Page,
                               !.steady = @ /\ HasKey /\ SameQuery(query, walk.query)]
          /\ UNCHANGED <<scenario, ids, table, given, iek, put, query, puts, pages>>

-----------------------------------------------------------------------------
Writer ==
  \/ \E i \in Ids : Delete(i) \/ \E o \in Objects : Put(i, o)
  \/ PutHasKey \/ PutStored \/ PutFails

Reader ==
  \/ \E kind \in {"scan", "query"} : NewRead(kind)
  \/ \E f \in Fields : \/ \E v \in scenario.values[f] : WhereHash(f, v)
                      \/ \E r \in scenario.ranges : WhereRange(f, r)
  \/ StartFrom \/ Execute \/ Scan \/ Ensured \/ TakeKey \/ Refused \/ ReadPage

\* The two may stop calling; a call that cannot go on is a deadlock.
Finished == put = NoPut /\ rpc = "idle" /\ UNCHANGED vars

Next == Writer \/ Reader \/ Finished

Spec == Init /\ [][Next]_vars

-----------------------------------------------------------------------------
Keys == {"nil", "torn", "name", "hash"}
Builders ==
  [kind : {"scan", "query"}, options : SUBSET (Nat \X (1..Len(Indexes))), hash : Values, ranged : BOOLEAN,
   range : RangeConditions, op : {"Eq", "Lt", "Between"}, cursor : Ids \cup {0}, key : Keys,
   field : Fields \cup {NoField}, asked : Fields \cup {NoField}, hashes : Nat, ranges : Nat]

\* Every variable holds what the code can put in it; half a key is only seen
\* while a Put is writing it, and a builder that was given a value has an index.
TypeOK ==
  /\ scenario \in Scenarios
  /\ ids \subseteq Ids
  /\ table \in [Ids -> [Fields -> Values]]
  /\ given \in [Ids -> [Fields -> Values]]
  /\ iek \in Keys
  /\ put \in [stage : {"none", "key", "send"}, id : Ids \cup {0}, object : [Fields -> Values]]
  /\ put.stage # "none" => put.id \in Ids
  /\ iek = "torn" => put.stage = "send"
  /\ query \in Builders
  /\ query.hashes > 0 => query.options # {}
  /\ rpc \in {"idle", "ensure", "key", "send"}
  /\ out.outcome \in {"none", "ok", "error", "panic", "refused"}
  /\ out.next \in Ids \cup {0}
  /\ {puts, pages} \subseteq Nat
  /\ walk \in [query : Builders, stable : SUBSET Ids, found : SUBSET Ids, steady : BOOLEAN]

\* One WhereHash and at most one WhereRange, as the documentation shows queries.
Simple(q) == q.kind = "query" /\ q.hashes = 1 /\ q.ranges <= 1

\* Values that are written alike, as far as indexes can have them.
Alike == {Numbers, {"string", "namedString"}, {"bool"}, {"time"}}
Same(v, w) == v.val = w.val /\ \E kind \in Alike : {v.type, w.type} \subseteq kind

\* What the caller of the query asked for: times are the same in every zone.
Wanted(q, o) ==
  /\ Same(Sent(o)[q.field], q.hash)
  /\ q.ranged => InRange(q.range.op, q.range, Sent(o)[q.asked].val)

\* A query only returns objects that have what was asked for, as they were put
\* last: the value goes to the index it was given for, whichever Execute chooses.
ResultsMatch ==
  out.outcome = "ok" /\ Simple(walk.query)
    => \A i \in DOMAIN out.items : Wanted(walk.query, out.given[i])

\* A token for what was asked for is the token of the object: times are the same
\* only in the same zone.
Findable(q, i) ==
  /\ Wanted(q, given[i])
  /\ Sent(given[i])[q.field].zone = q.hash.zone

\* The pages had every object that was there, unchanged, all the time, unless
\* there are two indexes with the hash field, neither of which is the field alone.
AllFound ==
  /\ walk.query.kind = "scan" => walk.stable \subseteq walk.found
  /\ Simple(walk.query) /\ ChosenIndex(walk.query) \in IndexSet =>
       \A i \in walk.stable : Findable(walk.query, i) => i \in walk.found

\* Reading page by page misses no object while others come and go, as long as
\* the handle has the key of the table's hash.  An object whose own key does not
\* unseal counts as found.
NothingMissed ==
  out.outcome = "ok" /\ out.next = 0 /\ walk.steady => AllFound

\* The same whatever key the handle has (README: "Gardbase supports efficient
\* querying on indexed fields using encrypted search").
QueryFindsMatches ==
  out.outcome = "ok" /\ out.next = 0 /\ walk.query.cursor = 0 => AllFound

\* A field read with the model it was written with comes back as it was, or as
\* its default was, but for what JSON and populate do to it: times are in UTC, a
\* number in an interface has become a float64, integers are rounded to what
\* floats can be, and one that int64 cannot hold then is whatever the processor
\* makes of it; the numbers in a map have become floats, and the times strings.
ItemsAreWhatWasPut ==
  \A i \in DOMAIN out.items, f \in Fields :
    LET d == scenario.read[f]
        v == out.given[i][f]
        u == IF v = Nil THEN d.default ELSE v
        w == out.items[i][f]
    IN
    d = scenario.put[f] =>
      \/ w = u
      \/ u.type = "time" /\ w = [u EXCEPT !.zone = "UTC"]
      \/ /\ u.type \in Numbers
         /\ w = Value(IF d.go = "any" THEN "float64" ELSE u.type, Rounded(u.val))
      \/ /\ u.type \in Integers64 /\ Rounded(u.val) \notin Int64
         /\ w = Value(u.type, Overflow)
      \/ u.holds \in {"ints", "floats"} /\ w = Map("floats", Rounded(u.val))
      \/ u.holds = "times" /\ w = Map("text", u.val)

\* An integer that was read into an interface is a float64, which Int does not
\* accept: Update returns a validation error for every such object.
Unwritable(d, w) == d.typ = "Int" /\ d.go = "any" /\ w # Nil

\* Reading an object and putting it back, as Update does with the fields its
\* mutateFn leaves alone, is accepted and changes nothing: the field reads the
\* same again and its index entries keep their tokens, unless it is Unwritable,
\* was rounded, or holds a default that is a time in another zone.
ReadsCanBePutBack ==
  \A i \in DOMAIN out.items, f \in Fields :
    LET d == scenario.read[f]
        sent == Extracted(d, out.given[i][f])
        w == out.items[i][f]
    IN
    d = scenario.put[f] /\ ~Unwritable(d, w) =>
      /\ PutAccepts(d, w)
      /\ ReadValue(d, Marshal(Extracted(d, w))) = w
      /\ sent.val = w.val /\ sent.zone = "UTC" => Marshal(Extracted(d, w)) = Marshal(sent)

\* Fields whose values Put accepts and no page can contain.
Fragile(f) ==
  LET d == scenario.read[f] IN
  \/ d # scenario.put[f]
  \/ d.go \in {"float32", "namedFloat"}
  \/ d.go = "pointer" /\ d.default # Nil
  \/ d.typ = "JSON" /\ (d.go = "map" \/ Value("map", 0) \in scenario.values[f] \cup {d.default})

\* What Put accepts can be read: no object makes the pages it is on fail, unless
\* a field was declared differently when it was put, is a float32, a named float
\* or a pointer with a default, or is a JSON field that can hold a nil map.
PagesAreReadable ==
  (\A f \in Fields : ~Fragile(f)) => out.outcome \notin {"error", "panic"}

\* A page that cannot be read is an error (Schema.Scan: "An error if any step of
\* the retrieval, decryption, or unmarshalling process fails").
FailuresAreErrors == out.outcome # "panic"

=============================================================================
