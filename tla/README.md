# A formal model of gardbase-sdk-go

The SDK stores end-to-end encrypted objects: it validates and encrypts an object in the client, with
keys that an attested enclave hands out over a secure session, and sends it to the gardbase server,
which keeps versions and knows no plaintext. This directory holds TLA+ models of the parts of the SDK
whose correctness depends on the order in which things happen, the TLC instances that check them, and
TLAPS proofs of the main properties.

| module | what it is |
|---|---|
| `GardbObjects` | `Put`, `Update`, `Get`, `Scan`/`Query` results, `Delete`, `Recover` by concurrent callers |
| `AtomicObjects` | what the object operations promise: a sequence of atomic changes per object |
| `GardbObjectsProofs` | proofs about `GardbObjects`: what objects, requests and answers carry; the refinement |
| `GardbObjectsCallsProofs` | more proofs about `GardbObjects`: conflicts, retries, objects nobody knows of |
| `GardbObjectsProgressProofs` | more proofs about `GardbObjects`: calls come to an end; what holds without losses or lists |
| `LargeObjects` | `Put` and `Get` of objects of any size: one request or three, one read or two |
| `LargeObjectsProofs` | proofs about `LargeObjects` |
| `FieldCodec` | one field's value from the struct to the server and back, as operators |
| `TableReads` | `Scan` and `Query` page by page, the query builder, the index key; uses `FieldCodec` |
| `TableReadsProofs` | proofs about `FieldCodec` and `TableReads` |
| `EnclaveSession` | the shared enclave session and the lock around it |
| `EnclaveSessionProofs` | proofs about `EnclaveSession` |
| `TableHashCache` | `cache.json`: the lookup in `Schema`, `Cache.Set`, saves, kills, restarts |
| `TableHashCacheProofs` | proofs about `TableHashCache` |
| `MC*` | values of the constants for TLC; one per model, shared by its `.cfg` files |

`PROJECT.json` maps every definition to the lines it translates, and lists runs, mutants, findings,
hazards and theorems. Run a model with `tlc -config ObjectsRace.cfg MCGardbObjects.tla`, check proofs with
`tlapm GardbObjectsProofs.tla`.

## 1. The system

### Components

**Object operations** (`gardb/put.go`, `update.go`, `get.go`, `scan.go`, `query.go`, `delete.go`,
`recover.go`, `internal/api.go`). State: none in the SDK but the caller's object and its `GardbMeta`
(ID, timestamps, version); the truth is on the server. `Put` asks the enclave for a data key, encrypts,
and sends `currentVersion+1`; the server takes only the successor of the stored version. `Update` is a loop
around `Get`, the caller's function and `Put`. Hard: races between callers, lost answers, requests that
outlive their call, retries of what was already stored. Correct when: no acknowledged change is
overwritten; the version in hand belongs to the data in hand; a mutation is applied once; a conflict is
recognisable as one; every call ends.

**Enclave session** (`internal/enclave.go`). State: `ess`, the session pointer, under the RWMutex `essMu`.
Operations: `GenerateDEK`, `GetTableIEK`, `DecryptDEKs`, `GetTableHash` (make sure of a session under the
exclusive lock, then use it under the shared one), `GetSessionInfo`, `Close`. Hard: two critical sections
per operation with a gap between; a renewal that closes the old session and then fails; a lock held across
network calls. Correct when: no session leaks or changes under an operation, a lost session is an error
and not a panic, nobody waits for ever.

**Table hash cache** (`internal/cache.go`, the end of `Schema` in `gardb/client.go`). State: a map under an
RWMutex, and the files `cache.json` and `cache.json.tmp` in a directory that is the OS temp dir by default.
Operations: `NewCache`, `Get`, `Set`. Hard: crash during a save, a full disk, several processes (or clients)
on one directory. Correct when: the file always loads, keeps what was stored and changes as a whole.

**Large objects** (`internal/api.go:104-196`, `251-286`). From 100 KiB `Put` is: ask for an upload URL, upload
to S3, confirm; `Get` is: read the metadata, then the blob. Hard: partial failure between the three requests,
two writers that upload before either confirms, a read between another's two writes. Correct when: a version
is never returned with the data of another, a visible version has its blob, and three requests are one change.

**Query builder** (`gardb/query.go`, `queryConditions.go`). State: the indexes still possible, the hash and range
value, the operator, the cursor. `WhereHash`, `WhereRange` in any order, then `Execute` chooses the index and
makes the token. Hard: the order and repetition of builder calls, composite indexes. Correct when: a query
returns what was asked for and nothing else.

**Page reads** (`scan.go`, `query.go:87-207`, `api.go:307-431`). Pages of objects with cursors: fetch blobs, decrypt
keys in one batch, skip what cannot be unsealed, populate. Hard: reading on while objects come and go, partly
failed pages, one object that spoils a page. Correct when: a reader misses nothing that stayed.

**Field codec** (`schema/field.go`, `gardb/schema.go:116-274`). Constructors, validation, defaults, extraction to a
map, JSON, and population by reflection. Hard: numeric conversions, zero values and nil, types that validate
and cannot be populated. Correct when: what `Put` accepts can be read and is what it was.

**Index encryption and table IEK** (`internal/utils.go`, `schema.go:35-53`). Each schema handle keeps one `tableIEK`,
set by `Put` and by `ensureTableIEK`. Hard: unsynchronised writes, and the two places ask for the key of
different names. Correct when: a query's tokens are made as those of the objects were.

**Client configuration** (`client.go:70-145`), **errors** (`errors/errors.go`), **HTTP client**
(`internal/httpClient.go`): straight-line code.

### Interactions

A `Schema` call reads the cache, asks the enclave (`GetTableHash`) on a miss and stores the answer. `Put`
calls `GenerateDEK` and then `APIClient.Put`; `Get`, `Scan` and `Query` call the API and then `DecryptDEKs`;
a failure there ends the call (`Refusals` contains `"session"`), so the object models see the session only as
an outcome and the session model stands on its own. The cache meets the others only through the table hash,
which the models treat as a name. `GardbObjects` and `LargeObjects` describe the same server from two sides, one
with every operation and the other with blobs, and implement the same abstract specification. `TableReads` has
the third side: what is in a table rather than how one object changes.

## 2. GardbObjects

State and code:

| variable | code |
|---|---|
| `handle` | the caller's object with its `GardbMeta`; `seen` is history |
| `pc`, `call` | where in `Put`/`Update`/`Delete`/`Recover` a call is, its id, `MaxRetries` and loop counter |
| `ctxDone` | the context of the call is done |
| `ret` | the sentinel error the call returned, or `"ok"` |
| `reqs`, `resp` | requests on their way, the answer a caller has received |
| `store` | the server's objects: state, version, data |
| `asked`, `acked`, `unanswered`, `resent`, `call.base`, `call.conflicts` | history for the properties |

What an object holds is counted: caller `p`'s component of `content` is the number of `p`'s mutations in it.
So "was this change overwritten" and "was it applied twice" are comparisons of numbers, whatever the fields
are. Time stamps are left out: no operation reads them.

Actions: `New`, `Get`, `List` fill an object (`List` leaves the version at zero, as `Scan` and `Execute` do).
`Put` and `Update` begin a call; `UpdateGet`, `UpdateGetFails`, `UpdateRejects`, `SendPut`, `PutAborts`,
`Receive`, `GiveUp`, `Backoff` are its steps, each ending where the code returns, sends or sleeps. `PutFailed`
is the error branch of `Update`'s loop, condition for condition: it backs off after *every* error except
`ErrVersionConflict` while attempts are left. `ErrorOf` is the status switches of `api.go`.

The server is not in this repository. It is modelled from the requests and the answers `api.go` understands:
create without an ID, compare-and-store on `Version`, conflict, delete, recover, 404/410, and refusals by
status. It may serve a request at any time after it was sent, also after the caller has given up, in any
order; it serves a request at most once (Go's transport does not repeat these POSTs by itself).

`AtomicObjects` is the abstract specification: an object is created, modified by one caller's mutations on
top of the version before, deleted or recovered, each in one step. `IsAtomic` says `GardbObjects` implements
it, with the server's store as the abstract objects.

| run | instance | properties |
|---|---|---|
| `ObjectsRace` | 2 callers, 3 calls each, 1 id, `MaxRetries` 0 or 2, all ways to fill an object, refusals, nothing lost | `HandlesAreSnapshots`, `ConflictOnlyIfRaced`, `EachConflictHasAWinner`, `IsAtomic` |
| `ObjectsFaults` | 2 callers with 2 and 1 calls, 2 ids, `MaxRetries` -1 or 1; loss, time-outs, cancellation | `TypeOK`, `NoLostUpdate`, `AppliedAtMostOnce`, `UnknownObjectsHadNoAnswer`, `IsAtomic`, `CallsReturn` |
| `ObjectsConflictReported` | no faults | `ConflictIsReported`: violated |
| `ObjectsListed` | no faults, `Scan`/`Query` | `PutOfAnyObjectOnlyConflictsIfRaced`: violated |

`AppliedAtMostOnce` says how far `Update`'s retries go: a caller's mutation takes effect once for each call, and
once more for each attempt that followed one *without an answer* (`resent`). An attempt that was refused is not
among them. `UnknownObjectsHadNoAnswer` is the same for creations: an object nobody was told of is owed to one
creating `Put` that had no answer. The first application after a lost answer is thus counted and not excluded: the
code does not prevent it. `EachConflictHasAWinner` says that each attempt an `Update` lost, another version won, and
`ConflictOnlyIfRaced` that a refused object is older than the stored one. `ObjectsRace` loses nothing, so there the
winner is another caller; where answers are lost it may be the caller's own earlier request, served late: the second
attempt of an `Update` can conflict with its first. Section 8 says what is proved of either case.

Why the bounds are enough. Every safety property compares one object and at most two callers: the one that
loses and the one it loses to. Three calls (create, update, one more that races) are the shortest history in
which an object read before a write is put after it; the retry gives a call a second attempt after that, and
`MaxRetries` 2 a third. One id is enough where ids do not meet; `ObjectsFaults` has two because an object can be
created twice. `ObjectsRace` uses the symmetry of the callers, which only safety properties are checked under.
The proofs have none of the bounds.

Bounds by name: `MaxCalls` (calls per caller), `IdsLeft` (creations never exceed the ids of the instance),
`RetryOptions`. Versions and contents are unbounded numbers; the code's `int32` version would overflow after
2^31 writes of one object.

Fairness: `CallsReturn` assumes `WF(Proceed(p))`. The code justifies it: `HTTPTimeout` bounds every exchange
(`NewClient` sets 30 s if none is given), the back-off is a timer, the rest is straight-line code of a
goroutine. Nothing is assumed of the server: an answer that never comes is `GiveUp`.

## 3. EnclaveSession

`ess`, `open` and `due` are the session pointer, the sessions whose keys are in memory, and whether
`shouldRenewSession` would say yes; `writer` and `readers` are the state of `essMu`; `pc` and `op` say where a
goroutine is; `panicked`, `gap` and `closed` are history. An operation is `Call`, then `Announce` and `Acquire`
(the two halves of `Lock`), then `Reuse` or `Renew` with `HandshakeOK`/`HandshakeError` under the lock, then
`RLock`, then `Use` or, if the pointer is nil by then, `NilSession`. `Close` closes the session and leaves the
pointer, as the code does. `SessionAges` is the clock. The model has no bound on the number of operations.

`sync.RWMutex` is external and modelled from its documentation: a writer that has announced itself keeps
later readers out, waits for the present ones, and its `Unlock` lets the readers in that waited.

| run | instance | properties |
|---|---|---|
| `SessionShared` | 3 goroutines, all operations, 2 sessions, handshakes may fail | `TypeOK`, `NoSessionLeaks`, `SessionLostOnlyInGap`, `SessionHeldInUse`, `OperationsReturn` |
| `SessionPanics` | 2 goroutines | `FailuresAreErrors`: violated |

Three goroutines are what the gap needs (one in the gap, one that renews, one that waits or closes), and two
sessions an old one and its successor. Fairness: weak for what a goroutine does once it is let through -
`HTTPTimeout` ends handshakes and requests, unlocks are deferred - and strong for `Announce`, since a writer
may find the mutex taken again and again, and `sync.Mutex`, which queues the writers of an `RWMutex`, hands
over to the longest waiter in its starvation mode. With weak fairness only, `OperationsReturn` fails: the
property rests on that mode.

## 4. TableHashCache

`mem` and `mu` are `Cache.data` and its lock, per process; `path` and `tmp` are the directory entries
`cache.json` and `cache.json.tmp`, `data` the contents of inodes, `fd` the descriptor of a running `WriteFile`.
`Load` is `NewCache`; `Miss` and `Fetch` are `Schema`'s look-up and request; `Set`, `Open`, `Write`, `Rename`
and their failures are `Cache.Set` with `save`, one file-system call to a step; `Kill` ends a process anywhere.
A cache entry is the name of its table, and a file either parses to a set of names or is torn. Writing over a
longer text leaves the rest of it behind (`Overwritten`), which happens when two processes hold the same inode.
Two clients in one process behave as two processes.

| run | instance | properties |
|---|---|---|
| `CacheOneProcess` | 1 process, 3 goroutines, 3 tables, 4 inodes; kills, failing saves | `TypeOK`, `CacheFileLoads`, `StoredIsKept`, `FileChangesWhole` |
| `CacheTwoProcesses` | 2 processes, 1 goroutine each | `CacheFileLoads`: violated |

`save` runs under the lock, so one save is active per process; three goroutines give one that saves, one that
waits and one that has read an older map. Four inodes are the two names, one descriptor and a spare.
Deadlock checking stays on. No fairness: nothing here has to happen.

## 5. LargeObjects

State and code:

| variable | code |
|---|---|
| `handle` | the caller's object with its `GardbMeta` |
| `pc` | the request `Put` waits for (`put`, `request`, `upload`, `confirm`) or the blob `Get` waits for (`fetch`) |
| `grant` | `respBody.ObjectID` of `request-put-large`, which the next two requests use |
| `got` | the metadata a `Get` holds while it fetches the blob |
| `reqs`, `resp`, `ret` | as in `GardbObjects` |
| `meta`, `blobs` | the server's metadata and the blobs in S3 |
| `placement` | whether the server has blobs uploaded per version or per object |
| `calls`, `acked`, `versions` | the bound, and history |

`Put` chooses its first request by size; `Granted`, `Uploaded`, `Stored` and `PutRefused` are the places where it
reads an answer; `GetMetadata`, `FetchBlob` and `FetchFails` are the two halves of `Get`. Every `Put` encrypts with
a data key of its own (`KeyOf`), and a blob decrypts only with its key: that is all of the cryptography the
properties need. `Update` is a `Get` and a `Put`, and `Delete` and `Recover` touch no blob; they are in `GardbObjects`.

The server and S3 are external. `confirm-put-large` carries the object and the version and nothing that names an
upload, so the server can place blobs per version or per object and tell them apart no further; both are
checked. It may remove the blobs of older versions when a version is stored, find a conflict at the first
request or only at the last, and serve any request late.

| run | instance | properties |
|---|---|---|
| `LargeObjects` | 2 callers with 2 and 1 Puts, any number of Gets, 1 id, both sizes and placements; loss, late requests, refusals | `TypeOK`, `HandleIsAVersion`, `StoredVersionHasABlob`, `NoLostUpdate`, `IsAtomic`, `RefusedPutsStoreNothing`, `CallsReturn` |

Two Puts by one caller give a request of the first, given up, that arrives during the second; the other caller's
Put races with both. Bounds by name: `MaxCalls`, and `IdsLeft` (as in `GardbObjects`). Fairness is that of
`GardbObjects`: `WF(Proceed(p))`, nothing of the server or S3.

`StoredVersionHasABlob` says that a large version is visible only after an upload, and that its place is never empty
afterwards and never has the blob of another *stored* version. It does not say that the blob there is the version's
own, because the code cannot see to that: a blob can be replaced by the upload of a `Put` that is not stored.

- With a place for each version that is a `Put` which asked for the same version: another caller's, or an attempt of the
  same caller that had no answer and is uploaded late.
- With a place for each object it is *any* large `Put` of the object between its upload and its confirmation, the
  ordinary next version included, and for good if that `Put` is never confirmed; or an older one, uploaded late.

A `Get` of the version fails to decrypt meanwhile (`HandleIsAVersion` shows that it returns nothing wrong), and so does
the `Get` in `Update`: only a caller who has the object in hand can put it again. Which of the two the server does is
not in this repository.

## 6. FieldCodec and TableReads

`FieldCodec` is a set of operators. A Go value is a dynamic type, a number, for times a zone and for maps the sort of
what is in them (`holds`: text, integers, floats or times; one value stands for all); a declaration is a
`schema.Field` with the Go type of the struct's field. `Valid` and `PutAccepts` are `validate` and the checks of
`ExtractIntoValues`, `Extracted` the value it leaves, `Marshal` the JSON text, `PopulateOutcome` and `Populated` what
`populate` makes of it, panics of `reflect` included. Between the two is `Decoded`, which is `json.Unmarshal` into
`interface{}`: every number, in a map too, is `Rounded` to the nearest float64 and a time in a map is a string.
`ToInt` is the conversion of a float64 back to an integer, which overflows for the integers next to the largest.

The numbers are given by three constants: `MaxInt` (2^63 - 1), `Floats` (the whole numbers a float64 can be) and
`Overflow` (what the processor makes of a float64 that is no int64; Go leaves it open). `FloatsOK` says what the proofs
need of them: the smallest int64 is a float64, the largest two are not, and every int64 has a nearest float64.
What `Values` leaves out is named in the module: strings that are not UTF-8, floats that are no whole numbers, years JSON
cannot write, and the widths below 64 bits, which int64 and float64 stand for.

`TableReads` has two goroutines: one puts and deletes, the other prepares queries and reads pages.

| variable | code |
|---|---|
| `scenario` | the models, indexes and values of the run; whether the two share a handle |
| `ids`, `table` | the objects on the server, with the values `Put` sent |
| `iek` | `s.tableIEK` of the reader: nil, the key of the name, of the hash, or half written |
| `put` | where the writer's `Put` is |
| `query`, `rpc` | the `QueryBuilder` or `ScanInput`, and where in `Execute` or `Scan` the reader is |
| `out` | what the last page returned |
| `given`, `puts`, `pages`, `walk`, and the history fields of `query` | bounds and history |

`WhereHash`, `WhereRange` and `StartFrom` are the builder's methods, one step each, so that `Put` can store a key
between any two. `Execute` and `Scan` begin, `Ensured` is `ensureTableIEK`, `ReadPage` is the rest of the call.
`TakeKey` reads the key when the request is built, before it is sent. `PutHasKey` assigns the slice: without a lock a
reader may see some of its words (`torn`) until `Put` goes on. The server finds the entries of an index whose hash
token equals that of the query and whose range token is in range. A token is equal to another when key, index and JSON
text are (`Matches`).

| run | instance | properties |
|---|---|---|
| `TableReads` | 2 ids, pages of 1, up to 2 Puts and 2 pages; 12 field declarations, each read back with each, 2 of times, 4 tables with indexes; keys that do not unseal | `TypeOK`, `ResultsMatch`, `NothingMissed`, `ItemsAreWhatWasPut`, `PagesAreReadable`, `ReadsCanBePutBack` |
| `QueryKey` | 1 index | `QueryFindsMatches`: violated |
| `FieldPanics` | 1 JSON field | `FailuresAreErrors`: violated |

Two objects to pages of one give a page, a cursor and an object that comes, changes or goes before the next page.
Three builder calls (`MaxChain`) are a complete query and one call too many, in every order. An int of five bits and a
float with a mantissa of two (`SmallMaxInt`, `SmallFloats`) make 5 an integer that is rounded and 15 one that
overflows. Bounds by name: `maxPuts` and `maxPages` of a scenario, `MaxChain`, `Limit` (the page size, which callers
give to `Limit` or `ScanInput`).

`ReadsCanBePutBack` is what `Update` needs of the codec: the object it gets is the object it puts. Whatever was read
must pass `Put`, read the same once more and keep its index tokens, or a no-op update makes an object unfindable.

What the properties leave out they name: `Fragile` lists the declarations whose values `Put` accepts and no page can
contain (a nil map in a JSON field among them); `ItemsAreWhatWasPut` the ways a value may differ when it comes back -
a time is in UTC, a number in an interface is a float64, an integer is rounded to a float64 or, next to the largest,
overflows, the numbers in a map are floats and the times strings; `Findable` that a time is found only by a time in
the zone it was stored in, UTC; `ReadsCanBePutBack` an `Int` field held in an interface; `AllFound` the table with two
composite indexes on one hash field; `Simple` that a query calls `WhereHash` once and `WhereRange` at most once, as
the README shows them (with more calls the builder mixes the indexes of one call with the value of another).

## 7. Findings

1. `api.go:89` turns every status of a put that is not a success, 401, 403 or 429 into `ErrNetwork`; no code
   returns `ErrVersionConflict`, which `errors.go:100` declares and an integration test expects
   (`ObjectsConflictReported`).
2. Objects from `Scan` and `Query` carry version zero, so that putting one back is always refused
   (`ObjectsListed`).
3. `ensureTableIEK` asks for the key of the table's *name*, `Put` for that of its *hash*: a handle whose first
   operation is a query finds nothing until its first `Put`, and a query under way can overwrite the key that
   `Put` stores (`QueryKey`).
4. A JSON field with a nil map is stored as null, and every page with that object on it panics (`FieldPanics`).
5. A renewal that fails in one goroutine makes another dereference a nil session (`SessionPanics`).
   `NoFailureNoPanic` proves that the failing renewal is necessary.
6. Two processes on one cache directory can leave a `cache.json` that stops every later `NewClient`
   (`CacheTwoProcesses`).

Seen while modelling, without a run of their own:

- `update.go:74` retries every error *except* a version conflict, where the README says it retries on conflicts.
  Because of finding 1 conflicts are retried all the same, and so are lost answers (`resent`).
- An upload of a Put that is not stored can take the place of a stored version's blob (section 5), which nobody can
  decrypt then.
- The 512 largest int64 values are rounded up to 2^63 by JSON and overflow when `populate` converts
  them (`schema.go:260`): they come back as another number, on amd64 the smallest int64.
- `put.go:90` sets `UpdatedAt` from `CreatedAt`.
- The default of a plain field is never used (`field.go:114`): `schema.Bool().Default(true)` on a `bool`, the
  README's example, stores false.
- An `Int` field declared as `interface{}` is read back as a float64, which `Int` refuses: `Update` fails with a
  validation error for every such object (`field.go:44`).
- float32 and named float fields, and pointer fields with a default, pass `Put` and fail every read
  (`Fragile`).
- The builder of a table with two composite indexes on one hash field asks, without `WhereRange`, for an index
  the table need not have (`query.go:102`).

## 8. What is proved

All theorems hold for every value of the constants that meets the module's `ConstantsOK`: any number of callers, ids,
sessions, processes, any retry option, models, indexes and page size, with and without faults. Nothing else is
assumed, but that the models of the external parts (server, S3, mutex, file system, ciphers, encoding/json) are right
and values are those `FieldCodec` has (section 6); the theorems that count calls or objects assume finitely many
callers and ids.

**AtomicObjects.** `NothingIsUndone` says what the abstract specification is worth: versions only grow, a mutation
once in an object stays, one version has one content, and an id that was created is never unknown again.
`StoreGoesForward` and `VisibleGoesForward` carry it through the two refinements to the server's store and to what is
visible of large objects. The proof showed that `Modify` had left the mutations of callers untyped, so that the
abstract objects could lose some; `Mutates` now says that they are additions.

**GardbObjects** (`GardbObjectsProofs`). `TypeCorrect`, `UpdatesAreKept` (`NoLostUpdate`), `SnapshotsAreCoherent`
(`HandlesAreSnapshots`) and `ObjectsAreAtomic` (the refinement of `AtomicObjects`). `NoLostUpdate` is not
inductive: a late Put could overwrite anything unless one knows what it carries. The inductive invariant
`IInv` says it, from the caller to the server and back: an object in hand at version `v` differs from the
stored one at `v` only by its owner's additions (`HandleInv`), which are real additions once a Put is under
way (`DirtyInv`); the same holds of every request in flight however old (`PutInv`); attempts are numbered, so
an answer is matched to the request of this attempt (`FreshInv`, `AwaitedInv`); and an answer `ok` reports what
the store has (`AnswerInv`). `StoreInv` covers ids not assigned and `ControlInv` where a call can be. Refinement
follows: the only step of the server that changes data is the acceptance of a version successor, and `PutInv`
makes that `AtomicObjects!Create` or `Modify`.

**Calls of GardbObjects** (`GardbObjectsCallsProofs`). `ConflictsAreRaces`, `ConflictsHaveWinners`, `CallsApplyOnce` and
`UnknownObjectsAreUnanswered`, on top of `IInv`. A lemma first says what a caller's step does, component by
component (`Moves`), and what an answer does (`Answers`, `Settles`), so that later proofs see a few kinds of step
instead of every action. `LoneInv`: a caller waits for one request at most. `RaceInv` relates the version a caller
has seen, its attempts and the versions stored since. `SureInv` is about the case that nothing is lost or cancelled:
every request under way is awaited, and when the stored version is later than the one in hand, the object has a mutation
of another caller that the one in hand has not (`Outrun`). So `ConflictsAreRaces` has two parts: a refused object is
older than the stored one, always; and without losses another caller has changed it since. `ConflictsHaveWinners` too:
as many versions as conflicts, always; and without losses none of them is the call's own, since the step that stores a
caller's mutation answers `ok` to the call that waits for it (`OwnWritesAreTold`). With losses both second parts are
false. `CountInv` is an account: what the store holds of a
caller's mutations, plus what its requests may still add (`Open`), is covered by what it asked for and sent again
(`Allowed`). The account of unknown objects (`OwedInv`) is one of cardinalities: objects nobody knows and
creations under way are no more than Puts without an answer and Puts that wait.

**Progress of GardbObjects** (`GardbObjectsProgressProofs`). What `CallsReturn` rests on, short of fairness:
`CallsOnlyAdvance` (a `Distance`, four for each attempt left and less within one, falls with every step of a call and
rises with nobody's) with `UpdatesAreBounded` (`MaxRetries + 1` attempts), and `NobodyWaitsInVain` (a waiting call has its
answer, or the request it waits for is under way). Then two theorems on special cases that show what is to
blame for what: `OnceWithoutLosses` (no loss, no mutation twice, though refusals are retried) and
`OnlyListedObjectsConflict` (see below).

**LargeObjects** (`LargeObjectsProofs`). `TypeCorrect`, `GetsAreVersions`, `BlobsAreThere`, `UpdatesAreKept`,
`RefusedIsNotStored`, `LargePutsAreAtomic`: all safety properties of the run. The invariant has four parts. A key
names one Put, and everything under it - requests, blob, version - has the same data (`KeyInv`, `VersionInv`,
`BlobInv`); a Put under way has one request or one answer, and none for a later stage (`RequestInv`, `GrantInv`). An
object in hand, a request and a half-finished Get are each a stored version with their owner's changes on top (`Held`,
`Sound`, `Readable`). From upload to confirmation the blob of a version that is not stored yet, or one that competes
with it, is in its place (`UploadInv`). `RefusedIsNotStored` is `RequestInv` with `VersionInv`: a refused Put has no
other request under way and has stored nothing. `VersionsAreMadeOnce` adds the uniqueness of versions (`LedgerInv`),
and `CallsOnlyAdvance` and `NobodyWaitsInVain` are as above, with three requests to a Put.

**FieldCodec and TableReads** (`TableReadsProofs`). Lemmas about one field come first: what `Put` accepts of a
`Robust` declaration can be populated, and comes back as `ComesBack` says. From there `PagesStayReadable`,
`FieldsComeBack` and `ReadsGoBack` (`RInv`: what is on the server was extracted from an object of the writer's model);
`QueriesMatch` (`BuilderInv`: the index a simple query ends with has the fields it was asked for, so that the values
meet the tokens of those fields); `ReadsMissNothing` (`KeyInv` and `SearchInv`: up to the cursor, every object that
stayed and matches was found; the next cursor exists because every set of ids beyond a cursor has a least element).
`TypeCorrect` as everywhere.

**EnclaveSession.** `TypeCorrect`, `NoLeaks`, `LostOnlyInGap`, `HeldInUse`, `NoFailureNoPanic`. The invariant adds
`LockInv` (who is between `Lock` and `Unlock` is the writer, no reader is active with it, a handshake starts
from a nil pointer), `ClosedInv`, and `GapInv`: past `ensureSession`, an operation with a nil pointer is waiting
for a handshake, or one has failed since. `UnlockFrees` states once what `Unlock` does.
`NobodyWaitsInACircle` (whoever is blocked waits for a goroutine that can take a step) and `OperationsOnlyAdvance`
(seven steps at most) are what `OperationsReturn` rests on, short of fairness.

**TableHashCache.** `TypeCorrect` for any number of processes; `OnlyOverlapsBreakTheFile`, for any number as well, as
long as no two have `cache.json.tmp` open at once (`SavesApart`); and `FileLoads`, `EntriesAreKept`, `FileIsReplacedWhole`
for one process on the directory (`OneProcess`), which is a real restriction: `CacheTwoProcesses` breaks
the first. The invariant says what the temporary file holds at each step of a save (`SaveInv`) and that memory
contains what was stored (`MemoryInv`).

**How far the findings reach.** A violated property says that something can go wrong; these theorems say that
nothing else makes it go wrong, or that it always does.

| finding | theorem |
|---|---|
| 2, `ObjectsListed` | `OnlyListedObjectsConflict`: where nobody lists, the violated property holds |
| 3, `QueryKey` | `ReadersFindNothing`: through a handle no `Put` was called on, every page of every query is empty |
| 4, `FieldPanics` | `PagesStayReadable`: apart from the declarations in `Fragile`, no value spoils a page |
| 5, `SessionPanics` | `NoFailureNoPanic`: while handshakes succeed nothing panics |
| 6, `CacheTwoProcesses` | `OnlyOverlapsBreakTheFile`: while saves do not overlap the file loads, with any kills |

**Model-checked only.** The liveness properties, `CallsReturn` of both object models and `OperationsReturn`:
liveness under fairness and `ENABLED` are outside TLAPS's backends here. Their safety halves are proved - calls only
advance, by a bounded number of steps, and the step they need is there - and what remains for TLC is that fairness then
takes it. Every safety property of a passing run
is also proved.

## 9. Not modelled

- Cryptography, attestation and the session protocol (libraries), the server's own code, S3 beyond
  put/get/remove. The models say what the code in this repository relies on.
- `Limit` and `OrderBy` of the builder: one number and one flag that are passed on. The page size is a constant,
  the order that of the ids.
- Blobs on pages: `ensureObjectBlob` reads one as `Get` does, after the metadata; a blob that cannot be fetched
  refuses the page (`Refused`).
- The matching of keys with objects by position in `DecryptDEKs`: the enclave answers in the order it was asked.
- Time stamps, the wording of errors, the syntax of strings and dates, strings that are not UTF-8, floats that are no
  integers, NaN, the rounding of float32.
- `NewClient`'s defaults, the error types, the header-adding transport: straight-line code without state.
- The `int32` version, which overflows after 2^31 writes of one object; a table hash of another tenant in a shared
  cache directory, whose effect is the server's.
