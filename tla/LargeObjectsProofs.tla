------------------------- MODULE LargeObjectsProofs -------------------------
(***************************************************************************)
(* Proofs about LargeObjects for every set of callers and ids, every bound *)
(* and placement of blobs, with or without faults.                         *)
(***************************************************************************)
EXTENDS LargeObjects, TLAPS

-----------------------------------------------------------------------------
(* The inductive invariant.                                                *)

PutStages == {"put", "request", "upload", "confirm"}
Putting(p) == pc[p] \in PutStages

\* The key of the Put p is in, and the object its next request is about.
Current(p) == KeyOf(p, calls[p])
Target(p) == IF pc[p] \in {"put", "request"} THEN handle[p].id ELSE grant[p]

\* Everything a key encrypts.
Sent == reqs \cup blobs \cup versions

\* An answer is held only by a Put; that of request-put-large grants an id.
ControlInv ==
  \A p \in Procs :
    /\ resp[p].status # "none" => Putting(p)
    /\ pc[p] = "request" /\ resp[p].status = "ok" => resp[p].id \in Ids

\* A grant for a known object is that object.
GrantInv ==
  \A p \in Procs : handle[p].id # NoId =>
    /\ pc[p] = "request" /\ resp[p].status = "ok" => resp[p].id = handle[p].id
    /\ pc[p] \in {"upload", "confirm"} => grant[p] = handle[p].id

\* A key names one Put and what it stores.
KeyInv ==
  /\ \A x \in Sent, p \in Procs, n \in Nat : n > calls[p] => x.key # KeyOf(p, n)
  /\ \A x \in Sent, y \in Sent : x.key = y.key => x.content = y.content
  /\ \A x \in Sent, p \in Procs :
       Putting(p) /\ x.key = Current(p) => x.content = handle[p].content
  /\ \A r \in reqs : r.key = KeyOf(r.from, r.call)

\* A Put has one request under way, the one it waits for, and none once it is
\* answered or its version is stored.
RequestInv ==
  /\ \A r \in reqs, s \in reqs : r.key = s.key => r = s
  /\ \A r \in reqs, v \in versions : v.key # r.key
  /\ \A r \in reqs, p \in Procs : Putting(p) /\ r.key = Current(p) =>
       /\ resp[p].status = "none"
       /\ r.kind = pc[p] /\ r.id = Target(p) /\ r.version = handle[p].version + 1

\* A Put stores its version last, and only if it is not refused.
VersionInv ==
  \A p \in Procs :
    pc[p] \in {"request", "upload"} \/ resp[p].status \notin {"none", "ok"} =>
      \A v \in versions : v.key # Current(p)

\* A blob is where the Put that uploaded it wants it.
BlobInv ==
  /\ \A b \in blobs, r \in reqs : b.key = r.key =>
       r.kind = "confirm" /\ b.id = r.id /\ b.version = r.version
  /\ \A b \in blobs, p \in Procs : Putting(p) /\ b.key = Current(p) =>
       /\ pc[p] \in {"upload", "confirm"}
       /\ b.id = grant[p] /\ b.version = handle[p].version + 1

\* What is visible was stored; the rest holds nothing.
StoreInv ==
  \A i \in Ids :
    IF meta[i].status = "active"
      THEN /\ meta[i].version >= 1
           /\ [id |-> i, version |-> meta[i].version, key |-> meta[i].key,
               content |-> meta[i].content] \in versions
      ELSE meta[i].version = 0 /\ \A q \in Procs : meta[i].content[q] = 0

\* Data c under version v of an object s: if v is still the stored version, p
\* alone has changed c since it was read.
Follows(p, v, c, s) ==
  /\ v <= s.version
  /\ v = s.version => /\ \A q \in Procs \ {p} : c[q] = s.content[q]
                      /\ c[p] >= s.content[p]

\* Data c adds mutations of p to version v.
Adds(p, v, c, s) == v = s.version => c[p] > s.content[p]

\* Object h in the hands of p, which is at stage "at": a stored version with
\* changes of p, or an object that was never stored.
Held(p, h, at) ==
  IF h.id = NoId
    THEN /\ h.version = 0 /\ \A q \in Procs \ {p} : h.content[q] = 0
         /\ at \in PutStages => h.content[p] > 0
    ELSE /\ Follows(p, h.version, h.content, meta[h.id])
         /\ at \in PutStages => Adds(p, h.version, h.content, meta[h.id])
         /\ \E v \in versions : /\ v.id = h.id /\ v.version = h.version
                                /\ \A q \in Procs \ {p} : h.content[q] = v.content[q]
                                /\ h.content[p] >= v.content[p]

HandleInv == \A p \in Procs : Held(p, handle[p], pc[p])

\* Request r carries what its caller made of the version before.
Sound(r) ==
  IF r.id = NoId
    THEN /\ r.version = 1 /\ r.content[r.from] > 0
         /\ \A q \in Procs \ {r.from} : r.content[q] = 0
    ELSE /\ r.version >= 1
         /\ Follows(r.from, r.version - 1, r.content, meta[r.id])
         /\ Adds(r.from, r.version - 1, r.content, meta[r.id])

PutInv == \A r \in reqs : Sound(r)

\* The metadata a Get has read belongs to a version, perhaps no longer the last.
Readable(g) ==
  /\ \E v \in versions : v.id = g.id /\ v.version = g.version /\ v.key = g.key
  /\ meta[g.id].status = "active"
  /\ g.version <= meta[g.id].version
  /\ g.version = meta[g.id].version => g.key = meta[g.id].key

GotInv == \A p \in Procs : pc[p] = "fetch" => Readable(got[p])

\* A Put of p with data c took effect: it made version n of i.
Done(p, i, n, c) ==
  /\ i \in Ids
  /\ Follows(p, n, c, meta[i])
  /\ c[p] <= meta[i].content[p]
  /\ \E v \in versions : v.id = i /\ v.version = n /\ v.content = c

AnswerInv ==
  \A p \in Procs : pc[p] \in {"put", "confirm"} /\ resp[p].status = "ok" =>
    Done(p, IF pc[p] = "put" THEN resp[p].id ELSE grant[p], resp[p].version, handle[p].content)

\* A blob that no stored version encrypts is where version v of i belongs.
Awaits(i, v) == \E b \in BlobsAt(i, v) : \A x \in versions : x.key # b.key

\* Until its version is stored, an upload or a later one like it is there.
UploadInv ==
  /\ \A r \in reqs : r.kind = "confirm" /\ r.version > meta[r.id].version =>
       Awaits(r.id, r.version)
  /\ \A p \in Procs :
       /\ pc[p] = "upload" /\ resp[p].status = "ok"
       /\ handle[p].version + 1 > meta[grant[p]].version
       => Awaits(grant[p], handle[p].version + 1)

KeysInv == GrantInv /\ KeyInv /\ RequestInv /\ VersionInv /\ BlobInv
DataInv == StoreInv /\ HandleInv /\ PutInv /\ GotInv /\ AnswerInv /\ NoLostUpdate
BlobsInv == UploadInv /\ StoredVersionHasABlob

TypeInv == TypeOK /\ ControlInv
IInv == TypeInv /\ KeysInv /\ DataInv /\ BlobsInv

-----------------------------------------------------------------------------
(* Types and control.                                                      *)

USE ConstantsOK DEF PutStages, Content, Handle, Object, Version, Response, Statuses, Errors

Stages == {"idle", "put", "request", "upload", "confirm", "fetch"}

\* The operators on data keep their types.
LEMMA MutatedType ==
  ASSUME NEW h \in Handle, NEW p \in Procs
  PROVE  /\ Mutated(h, p) \in Handle
         /\ Mutated(h, p).id = h.id /\ Mutated(h, p).version = h.version
         /\ Mutated(h, p).content[p] = h.content[p] + 1
         /\ \A q \in Procs \ {p} : Mutated(h, p).content[q] = h.content[q]
PROOF
  BY DEF Mutated

LEMMA RequestType ==
  ASSUME NEW p \in Procs, NEW kind \in {"put", "request", "upload", "confirm"},
         NEW i \in Ids \cup {NoId}, kind \in {"upload", "confirm"} => i \in Ids,
         NEW h \in Handle, NEW n \in Nat
  PROVE  LET r == Request(p, kind, i, h, n) IN
         /\ r \in Requests
         /\ r.kind = kind /\ r.from = p /\ r.id = i /\ r.version = h.version + 1
         /\ r.key = KeyOf(p, n) /\ r.content = h.content /\ r.call = n
PROOF
  BY DEF Request, Requests, Key, KeyOf

\* What a request holds.
LEMMA RequestFields ==
  ASSUME NEW r \in Requests
  PROVE  /\ r.kind \in {"put", "request", "upload", "confirm"} /\ r.from \in Procs
         /\ r.id \in Ids \cup {NoId} /\ (r.kind \in {"upload", "confirm"} => r.id \in Ids)
         /\ r.version \in Nat /\ r.key \in Key /\ r.content \in Content /\ r.call \in Nat
PROOF
  BY DEF Requests

\* Returning keeps the caller's variables well typed.
LEMMA ReturnType ==
  ASSUME TypeInv, NEW p \in Procs, NEW err \in Errors \cup {"ok"}, Return(p, err)
  PROVE  /\ pc' \in [Procs -> Stages]
         /\ ret' \in [Procs -> Errors \cup {"ok", "none"}]
         /\ resp' \in [Procs -> Response]
         /\ grant' \in [Procs -> Ids \cup {NoId}]
         /\ \A q \in Procs : pc'[q] \in {"upload", "confirm"} => grant'[q] \in Ids
         /\ \A q \in Procs \ {p} : /\ pc'[q] = pc[q] /\ resp'[q] = resp[q]
                                  /\ grant'[q] = grant[q]
         /\ pc'[p] = "idle" /\ resp'[p].status = "none"
PROOF
  BY DEF TypeInv, TypeOK, Return, NoResp, Stages

LEMMA SendType ==
  ASSUME TypeInv, NEW p \in Procs, NEW kind \in {"upload", "confirm"}, NEW i \in Ids,
         Send(p, kind, i)
  PROVE  TypeInv'
PROOF
<1>1. Request(p, kind, i, handle[p], calls[p]) \in Requests
  <2>1. handle[p] \in Handle /\ calls[p] \in Nat
    BY DEF TypeInv, TypeOK
  <2>. HIDE DEF Handle
  <2>. QED  BY <2>1, RequestType
<1>2. TypeOK'
  BY <1>1 DEF TypeInv, TypeOK, Send, NoResp
<1>3. ControlInv'
  BY DEF TypeInv, TypeOK, ControlInv, Putting, Send, NoResp
<1>. QED  BY <1>2, <1>3 DEF TypeInv

LEMMA AnswerType ==
  ASSUME TypeInv, NEW r \in reqs, NEW status \in Statuses, NEW i \in Ids \cup {NoId},
         NEW v \in Nat, Answer(r, status, i, v), meta' \in [Ids -> Object],
         blobs' \subseteq Version, versions' \subseteq Version,
         r.kind = "request" /\ status = "ok" => i \in Ids
  PROVE  TypeInv'
PROOF
<1>. r.from \in Procs /\ r.kind \in {"put", "request", "upload", "confirm"}
  BY RequestFields DEF TypeInv, TypeOK
<1>1. TypeOK'
  BY DEF TypeInv, TypeOK, Answer
<1>2. ControlInv'
  BY DEF TypeInv, TypeOK, ControlInv, Putting, Answer, Awaited
<1>. QED  BY <1>1, <1>2 DEF TypeInv

LEMMA TypeInit == Init => TypeInv
PROOF
<1>. SUFFICES ASSUME Init PROVE TypeInv
  OBVIOUS
<1>1. /\ NoResp \in Response /\ FreshObject \in Handle /\ Absent \in Object
      /\ NoMetadata \in [id : Ids \cup {NoId}, version : Nat, key : Key]
  BY DEF NoResp, FreshObject, Absent, Zero, NoMetadata, NoKey, Key
<1>2. TypeOK
  BY <1>1 DEF Init, TypeOK
<1>3. ControlInv
  BY DEF Init, ControlInv, NoResp
<1>. QED  BY <1>2, <1>3 DEF TypeInv

LEMMA ServeType ==
  ASSUME TypeInv, NEW r \in reqs,
         ServeRequest(r) \/ ServeUpload(r) \/ ServeStore(r) \/ ServeConflict(r) \/ Refuse(r)
  PROVE  TypeInv'
PROOF
<1>. /\ r.from \in Procs /\ r.version \in Nat /\ r.content \in Content /\ r.key \in Key
     /\ r.id \in Ids \cup {NoId} /\ (r.kind \in {"upload", "confirm"} => r.id \in Ids)
  BY RequestFields DEF TypeInv, TypeOK
<1>. meta \in [Ids -> Object] /\ blobs \subseteq Version /\ versions \subseteq Version
  BY DEF TypeInv, TypeOK
<1>1. CASE ServeRequest(r)
  <2>. blobs' = blobs /\ versions' = versions
    BY <1>1 DEF ServeRequest
  <2>1. CASE r.id = NoId
    <3>1. PICK i \in Ids : /\ meta' = [meta EXCEPT ![i].status = "reserved"]
                           /\ Answer(r, "ok", i, 0)
      BY <1>1, <2>1 DEF ServeRequest
    <3>2. meta' \in [Ids -> Object]
      BY <3>1
    <3>. QED  BY <3>1, <3>2, AnswerType
  <2>2. CASE r.id # NoId
    BY <1>1, <2>2, AnswerType DEF ServeRequest
  <2>. QED  BY <2>1, <2>2
<1>2. CASE ServeUpload(r)
  BY <1>2, AnswerType DEF ServeUpload
<1>3. CASE ServeStore(r)
  <2>1. PICK i \in Ids :
          /\ meta' = [meta EXCEPT ![i] = [status |-> "active", version |-> r.version,
                                          key |-> r.key, inline |-> r.kind = "put",
                                          content |-> r.content]]
          /\ versions' = versions \cup
               {[id |-> i, version |-> r.version, key |-> r.key, content |-> r.content]}
          /\ Answer(r, "ok", i, r.version)
          /\ blobs' \in {blobs, blobs \ OldBlobs(i)}
    BY <1>3 DEF ServeStore
  <2>2. meta' \in [Ids -> Object]
    <3>1. (r.kind = "put") \in BOOLEAN
      OBVIOUS
    <3>. QED  BY <2>1, <3>1
  <2>3. versions' \subseteq Version /\ blobs' \subseteq Version
    BY <2>1
  <2>. QED  BY <2>1, <2>2, <2>3, AnswerType
<1>4. CASE ServeConflict(r)
  BY <1>4, AnswerType DEF ServeConflict
<1>5. CASE Refuse(r)
  BY <1>5, AnswerType DEF Refuse, BadStatuses
<1>. QED  BY <1>1, <1>2, <1>3, <1>4, <1>5

LEMMA ErrorOfType ==
  ASSUME NEW kind, NEW status
  PROVE  ErrorOf(kind, status) \in Errors
PROOF
  BY DEF ErrorOf

\* The object Get fills.
LEMMA LoadedType ==
  ASSUME NEW i \in Ids, NEW v \in Nat, NEW k, NEW c \in Content
  PROVE  LET h == Loaded([id |-> i, version |-> v, key |-> k], c) IN
         h \in Handle /\ h.id = i /\ h.version = v /\ h.content = c
PROOF
  BY DEF Loaded

\* The object in hand becomes version v of i.
LEMMA StoredType ==
  ASSUME handle \in [Procs -> Handle], NEW p \in Procs, NEW i \in Ids \cup {NoId}, NEW v \in Nat,
         handle' = [handle EXCEPT ![p].id = i, ![p].version = v]
  PROVE  /\ handle' \in [Procs -> Handle]
         /\ handle'[p].id = i /\ handle'[p].version = v /\ handle'[p].content = handle[p].content
         /\ \A q \in Procs \ {p} : handle'[q] = handle[q]
PROOF
<1>1. /\ handle'[p].id = i /\ handle'[p].version = v /\ handle'[p].content = handle[p].content
      /\ \A q \in Procs \ {p} : handle'[q] = handle[q]
  OBVIOUS
<1>2. handle'[p] \in Handle /\ handle' = [handle EXCEPT ![p] = handle'[p]]
  OBVIOUS
<1>. QED  BY <1>1, <1>2

LEMMA CallerType ==
  ASSUME TypeInv, NEW p \in Procs, CallerStep(p)
  PROVE  TypeInv'
PROOF
<1>. /\ meta \in [Ids -> Object] /\ handle \in [Procs -> Handle] /\ calls \in [Procs -> Nat]
     /\ blobs \subseteq Version /\ pc \in [Procs -> Stages]
     /\ got \in [Procs -> [id : Ids \cup {NoId}, version : Nat, key : Key]]
  BY DEF TypeInv, TypeOK, Stages
<1>m. \A h \in Handle : Mutated(h, p) \in Handle
  <2>. HIDE DEF Handle
  <2>. QED  BY MutatedType
<1>1. ASSUME NEW size \in Sizes, Put(p, size) PROVE TypeInv'
  <2>. DEFINE h == Mutated(handle[p], p)
              kind == IF size = "small" THEN "put" ELSE "request"
              r == Request(p, kind, h.id, h, calls[p] + 1)
  <2>1. /\ handle' = [handle EXCEPT ![p] = h] /\ reqs' = reqs \cup {r}
        /\ pc[p] = "idle" /\ pc' = [pc EXCEPT ![p] = kind]
        /\ calls' = [calls EXCEPT ![p] = calls[p] + 1] /\ ret' = [ret EXCEPT ![p] = "none"]
        /\ UNCHANGED <<placement, meta, blobs, resp, grant, got, acked, versions>>
    BY <1>1 DEF Put
  <2>2. h \in Handle
    BY <1>m
  <2>3. r \in Requests
    <3>1. /\ kind \in {"put", "request", "upload", "confirm"} /\ calls[p] + 1 \in Nat
          /\ h.id \in Ids \cup {NoId} /\ ~(kind \in {"upload", "confirm"})
      BY <2>2
    <3>. HIDE DEF Handle, h, kind
    <3>. QED  BY <2>2, <3>1, RequestType
  <2>. HIDE DEF h, r
  <2>4. TypeOK'
    BY <2>1, <2>2, <2>3 DEF TypeInv, TypeOK
  <2>5. ControlInv'
    BY <2>1 DEF TypeInv, ControlInv, Putting
  <2>. QED  BY <2>4, <2>5 DEF TypeInv
<1>2. CASE PutAborts(p)
  <2>1. handle' = [handle EXCEPT ![p] = Mutated(handle[p], p)]
    BY <1>2 DEF PutAborts
  <2>2. handle' \in [Procs -> Handle]
    BY <1>m, <2>1
  <2>3. TypeOK'
    BY <1>2, <2>2 DEF PutAborts, TypeInv, TypeOK
  <2>. QED  BY <1>2, <2>3 DEF PutAborts, TypeInv, ControlInv, Putting
<1>3. ASSUME NEW i \in Ids, GetMetadata(p, i) PROVE TypeInv'
  <2>1. CASE meta[i].inline
    <3>1. Loaded(Metadata(i), meta[i].content) \in Handle
      BY LoadedType DEF Metadata
    <3>2. handle' \in [Procs -> Handle]
      <4>. HIDE DEF Handle
      <4>. QED  BY <1>3, <2>1, <3>1 DEF GetMetadata
    <3>. QED  BY <1>3, <2>1, <3>2 DEF GetMetadata, TypeInv, TypeOK, ControlInv, Putting
  <2>2. CASE ~meta[i].inline
    <3>1. Metadata(i) \in [id : Ids \cup {NoId}, version : Nat, key : Key] /\ Metadata(i).id \in Ids
      BY DEF Metadata
    <3>2. /\ got' = [got EXCEPT ![p] = Metadata(i)] /\ pc' = [pc EXCEPT ![p] = "fetch"]
          /\ ret' = [ret EXCEPT ![p] = "none"] /\ pc[p] = "idle"
          /\ UNCHANGED <<placement, meta, blobs, reqs, resp, grant, calls, acked, versions, handle>>
      BY <1>3, <2>2, Zenon DEF GetMetadata
    <3>. QED  BY <3>1, <3>2 DEF TypeInv, TypeOK, ControlInv, Putting
  <2>. QED  BY <2>1, <2>2
<1>4. CASE Granted(p)
  <2>1. pc[p] = "request" /\ resp[p].status = "ok" /\ Send(p, "upload", resp[p].id)
    BY <1>4 DEF Granted
  <2>2. resp[p].id \in Ids
    BY <2>1 DEF TypeInv, ControlInv
  <2>. QED  BY <2>1, <2>2, SendType
<1>5. CASE Uploaded(p)
  <2>1. Send(p, "confirm", grant[p]) /\ grant[p] \in Ids
    BY <1>5 DEF Uploaded, TypeInv, TypeOK
  <2>. QED  BY <2>1, SendType
<1>6. CASE Stored(p)
  <2>. DEFINE i == IF pc[p] = "put" THEN resp[p].id ELSE grant[p]
  <2>1. /\ handle' = [handle EXCEPT ![p].id = i, ![p].version = resp[p].version]
        /\ acked' = [acked EXCEPT ![p][i] = handle[p].content[p]]
        /\ Return(p, "ok") /\ UNCHANGED <<placement, meta, blobs, reqs, got, calls, versions>>
    BY <1>6 DEF Stored
  <2>2. /\ i \in Ids \cup {NoId} /\ resp[p].version \in Nat /\ handle[p].content[p] \in Nat
        /\ acked \in [Procs -> [Ids -> Nat]]
    BY DEF TypeInv, TypeOK
  <2>. HIDE DEF i
  <2>3. handle' \in [Procs -> Handle]
    <3>. HIDE DEF Handle
    <3>. QED  BY <2>1, <2>2, StoredType
  <2>4. acked' \in [Procs -> [Ids -> Nat]]
    BY <2>1, <2>2
  <2>5. TypeOK'
    BY <2>1, <2>3, <2>4, ReturnType DEF TypeInv, TypeOK, Stages
  <2>6. ControlInv'
    BY <2>1, ReturnType DEF TypeInv, ControlInv, Putting
  <2>. QED  BY <2>5, <2>6 DEF TypeInv
<1>7. ASSUME NEW err \in Errors, Return(p, err),
             UNCHANGED <<placement, meta, blobs, reqs, handle, got, calls, acked, versions>>
      PROVE  TypeInv'
  <2>1. TypeOK'
    BY <1>7, ReturnType DEF TypeInv, TypeOK, Stages
  <2>. QED  BY <1>7, <2>1, ReturnType DEF TypeInv, ControlInv, Putting
<1>8. CASE PutRefused(p)
  <2>. HIDE DEF Errors
  <2>. QED  BY <1>7, <1>8, ErrorOfType DEF PutRefused
<1>9. CASE GiveUp(p)
  BY <1>7, <1>9 DEF GiveUp
<1>10. ASSUME NEW err \in Errors \cup {"ok"}, GetReturns(p, err), handle' \in [Procs -> Handle]
       PROVE  TypeInv'
  <2>1. NoMetadata \in [id : Ids \cup {NoId}, version : Nat, key : Key]
    BY DEF NoMetadata, NoKey, Key
  <2>2. /\ Return(p, err) /\ got' = [got EXCEPT ![p] = NoMetadata]
        /\ UNCHANGED <<placement, meta, blobs, reqs, calls, acked, versions>>
    BY <1>10 DEF GetReturns
  <2>3. TypeOK'
    BY <1>10, <2>1, <2>2, ReturnType DEF TypeInv, TypeOK, Stages
  <2>. QED  BY <2>2, <2>3, ReturnType DEF TypeInv, ControlInv, Putting
<1>11. CASE FetchBlob(p)
  <2>1. PICK b \in BlobsAt(got[p].id, got[p].version) :
          \/ handle' = [handle EXCEPT ![p] = Loaded(got[p], b.content)] /\ GetReturns(p, "ok")
          \/ GetReturns(p, "encryption") /\ handle' = handle
    BY <1>11 DEF FetchBlob
  <2>2. Loaded(got[p], b.content) \in Handle
    BY DEF Loaded, BlobsAt
  <2>3. handle' \in [Procs -> Handle]
    <3>. HIDE DEF Handle
    <3>. QED  BY <2>1, <2>2
  <2>. QED  BY <1>10, <2>1, <2>3
<1>12. CASE FetchFails(p)
  <2>1. PICK err \in Errors : GetReturns(p, err)
    <3>1. {"notFound", "network", "cancelled", "session"} \subseteq Errors
      OBVIOUS
    <3>. HIDE DEF Errors
    <3>. QED  BY <1>12, <3>1, ErrorOfType DEF FetchFails
  <2>2. handle' = handle
    BY <1>12 DEF FetchFails
  <2>. QED  BY <1>10, <2>1, <2>2
<1>. QED  BY <1>1, <1>2, <1>3, <1>4, <1>5, <1>6, <1>8, <1>9, <1>11, <1>12 DEF CallerStep, Proceed

LEMMA TypeStep == TypeInv /\ [Next]_vars => TypeInv'
PROOF
<1>. SUFFICES ASSUME TypeInv, [Next]_vars PROVE TypeInv'
  OBVIOUS
<1>1. CASE UNCHANGED vars
  BY <1>1 DEF vars, TypeInv, TypeOK, ControlInv, Putting
<1>. QED  BY <1>1, ServeType, CallerType DEF Next, ServerStep, Finished

\* Whatever the callers do, and whatever is lost or refused, the SDK and the
\* server hold what the code can put in each variable.
THEOREM TypeCorrect == Spec => []TypeOK
PROOF
<1>1. TypeInv => TypeOK
  BY DEF TypeInv
<1>. QED  BY <1>1, TypeInit, TypeStep, PTL DEF Spec

-----------------------------------------------------------------------------
(* Keys, and the requests, blobs and versions that carry them.             *)

LEMMA KeyOfInjective ==
  ASSUME NEW p \in Procs, NEW q \in Procs, NEW n \in Nat, NEW m \in Nat, KeyOf(p, n) = KeyOf(q, m)
  PROVE  p = q /\ n = m
PROOF
  BY DEF KeyOf

\* Callers that do nothing, or are in no Put before and after.
LEMMA QuietStep ==
  ASSUME TypeInv, KeysInv, UNCHANGED <<reqs, blobs, versions>>, calls' \in [Procs -> Nat],
         \A q \in Procs :
           \/ UNCHANGED <<pc[q], resp[q], grant[q], handle[q], calls[q]>>
           \/ pc'[q] \in {"idle", "fetch"} /\ resp'[q].status = "none" /\ calls'[q] >= calls[q]
  PROVE  KeysInv'
PROOF
<1>. calls \in [Procs -> Nat]
  BY DEF TypeInv, TypeOK
<1>1. GrantInv'
  BY DEF KeysInv, GrantInv
<1>2. ASSUME NEW q \in Procs, Putting(q)'
      PROVE  /\ UNCHANGED <<pc[q], resp[q], grant[q], handle[q], calls[q]>>
             /\ Putting(q) /\ Current(q)' = Current(q) /\ Target(q)' = Target(q)
  BY <1>2 DEF Putting, Current, Target
<1>3. KeyInv'
  <2>1. \A x \in Sent, q \in Procs, n \in Nat : n > calls'[q] => x.key # KeyOf(q, n)
    BY DEF KeysInv, KeyInv
  <2>2. Sent' = Sent
    BY DEF Sent
  <2>. QED  BY <1>2, <2>1, <2>2 DEF KeysInv, KeyInv
<1>4. RequestInv'
  BY <1>2 DEF KeysInv, RequestInv
<1>5. VersionInv'
  <2>. SUFFICES ASSUME NEW q \in Procs,
                       pc'[q] \in {"request", "upload"} \/ resp'[q].status \notin {"none", "ok"},
                       NEW v \in versions
                PROVE  v.key # Current(q)'
    BY DEF VersionInv
  <2>1. UNCHANGED <<pc[q], resp[q], calls[q]>>
    OBVIOUS
  <2>. QED  BY <2>1 DEF KeysInv, VersionInv, Current
<1>6. BlobInv'
  BY <1>2 DEF KeysInv, BlobInv
<1>. QED  BY <1>1, <1>3, <1>4, <1>5, <1>6 DEF KeysInv

\* p sends r, the one request of its Put that is now under way.
Issues(p, r) ==
  /\ reqs' = reqs \cup {r} /\ UNCHANGED <<blobs, versions>> /\ calls' \in [Procs -> Nat]
  /\ \A q \in Procs \ {p} : UNCHANGED <<pc[q], resp[q], grant[q], handle[q], calls[q]>>
  /\ calls'[p] >= calls[p] /\ pc'[p] = r.kind /\ resp'[p].status = "none"
  /\ r.kind \in {"put", "request", "upload", "confirm"}
  /\ handle'[p].id # NoId /\ r.kind \in {"upload", "confirm"} => grant'[p] = handle'[p].id
  /\ r.from = p /\ r.call = calls'[p] /\ r.key = KeyOf(p, calls'[p])
  /\ r.id = IF r.kind \in {"put", "request"} THEN handle'[p].id ELSE grant'[p]
  /\ r.version = handle'[p].version + 1 /\ r.content = handle'[p].content
  /\ \A x \in reqs \cup versions : x.key # r.key
  /\ \A b \in blobs : b.key = r.key => /\ r.kind = "confirm" /\ b.id = r.id
                                      /\ b.version = r.version /\ b.content = r.content

LEMMA SendStep ==
  ASSUME TypeInv, KeysInv, NEW p \in Procs, NEW r, Issues(p, r)
  PROVE  KeysInv'
PROOF
<1>. calls \in [Procs -> Nat]
  BY DEF TypeInv, TypeOK
<1>. USE DEF Issues
<1>1. GrantInv'
  BY DEF KeysInv, GrantInv
<1>2. ASSUME NEW q \in Procs \ {p}
      PROVE  /\ Putting(q)' = Putting(q) /\ Current(q)' = Current(q) /\ Target(q)' = Target(q)
             /\ Current(q) # r.key
  <2>1. Current(q) # r.key
    BY KeyOfInjective DEF Current
  <2>. QED  BY <2>1 DEF Putting, Current, Target
<1>3. Current(p)' = r.key /\ Sent' = Sent \cup {r} /\ r.id = Target(p)'
  BY DEF Current, Sent, Target
<1>4. KeyInv'
  <2>1. \A x \in Sent', q \in Procs, n \in Nat : n > calls'[q] => x.key # KeyOf(q, n)
    <3>. SUFFICES ASSUME NEW x \in Sent', NEW q \in Procs, NEW n \in Nat, n > calls'[q]
                  PROVE  x.key # KeyOf(q, n)
      OBVIOUS
    <3>1. CASE x = r
      BY <3>1, KeyOfInjective
    <3>2. CASE x \in Sent
      BY <3>2 DEF KeysInv, KeyInv
    <3>. QED  BY <1>3, <3>1, <3>2
  <2>2. \A x \in Sent : x.key = r.key => x.content = r.content
    BY DEF Sent
  <2>3. \A x \in Sent', y \in Sent' : x.key = y.key => x.content = y.content
    BY <1>3, <2>2 DEF KeysInv, KeyInv
  <2>4. \A x \in Sent', q \in Procs : Putting(q)' /\ x.key = Current(q)' =>
          x.content = handle'[q].content
    <3>. SUFFICES ASSUME NEW x \in Sent', NEW q \in Procs, Putting(q)', x.key = Current(q)'
                  PROVE  x.content = handle'[q].content
      OBVIOUS
    <3>1. CASE q = p
      BY <1>3, <2>2, <3>1
    <3>2. CASE q # p
      BY <1>2, <1>3, <3>2 DEF KeysInv, KeyInv
    <3>. QED  BY <3>1, <3>2
  <2>5. \A x \in reqs' : x.key = KeyOf(x.from, x.call)
    BY DEF KeysInv, KeyInv
  <2>. QED  BY <2>1, <2>3, <2>4, <2>5 DEF KeyInv
<1>5. RequestInv'
  <2>1. \A x \in reqs', q \in Procs : Putting(q)' /\ x.key = Current(q)' =>
          /\ resp'[q].status = "none"
          /\ x.kind = pc'[q] /\ x.id = Target(q)' /\ x.version = handle'[q].version + 1
    <3>. SUFFICES ASSUME NEW x \in reqs', NEW q \in Procs, Putting(q)', x.key = Current(q)'
                  PROVE  /\ resp'[q].status = "none"
                         /\ x.kind = pc'[q] /\ x.id = Target(q)'
                         /\ x.version = handle'[q].version + 1
      OBVIOUS
    <3>1. CASE q = p
      BY <1>3, <3>1
    <3>2. CASE q # p
      BY <1>2, <3>2 DEF KeysInv, RequestInv
    <3>. QED  BY <3>1, <3>2
  <2>. QED  BY <2>1 DEF KeysInv, RequestInv
<1>6. VersionInv'
  <2>. SUFFICES ASSUME NEW q \in Procs,
                       pc'[q] \in {"request", "upload"} \/ resp'[q].status \notin {"none", "ok"},
                       NEW v \in versions
                PROVE  v.key # Current(q)'
    BY DEF VersionInv
  <2>. QED  BY <1>2, <1>3 DEF KeysInv, VersionInv
<1>7. BlobInv'
  <2>1. \A b \in blobs, x \in reqs' : b.key = x.key =>
          x.kind = "confirm" /\ b.id = x.id /\ b.version = x.version
    BY DEF KeysInv, BlobInv
  <2>2. \A b \in blobs, q \in Procs : Putting(q)' /\ b.key = Current(q)' =>
          /\ pc'[q] \in {"upload", "confirm"}
          /\ b.id = grant'[q] /\ b.version = handle'[q].version + 1
    <3>. SUFFICES ASSUME NEW b \in blobs, NEW q \in Procs, Putting(q)', b.key = Current(q)'
                  PROVE  /\ pc'[q] \in {"upload", "confirm"}
                         /\ b.id = grant'[q] /\ b.version = handle'[q].version + 1
      OBVIOUS
    <3>1. CASE q = p
      BY <1>3, <3>1 DEF Target
    <3>2. CASE q # p
      BY <1>2, <3>2 DEF KeysInv, BlobInv
    <3>. QED  BY <3>1, <3>2
  <2>. QED  BY <2>1, <2>2 DEF BlobInv
<1>. QED  BY <1>1, <1>4, <1>5, <1>6, <1>7 DEF KeysInv

\* A request is awaited exactly when the Put it belongs to is under way.
LEMMA AwaitedIsCurrent ==
  ASSUME TypeInv, KeysInv, NEW r \in reqs
  PROVE  /\ r.from \in Procs
         /\ Awaited(r) => Putting(r.from) /\ r.key = Current(r.from)
         /\ \A p \in Procs : Putting(p) /\ r.key = Current(p) => p = r.from /\ Awaited(r)
PROOF
<1>. /\ r.from \in Procs /\ r.call \in Nat /\ r.kind \in {"put", "request", "upload", "confirm"}
     /\ calls \in [Procs -> Nat]
  BY RequestFields DEF TypeInv, TypeOK
<1>1. r.key = KeyOf(r.from, r.call)
  BY DEF KeysInv, KeyInv
<1>2. Awaited(r) => Putting(r.from) /\ r.key = Current(r.from)
  BY <1>1 DEF Awaited, Putting, Current
<1>3. ASSUME NEW p \in Procs, Putting(p), r.key = Current(p)
      PROVE  p = r.from /\ Awaited(r)
  <2>1. p = r.from /\ r.call = calls[p]
    <3>1. KeyOf(p, calls[p]) = KeyOf(r.from, r.call) /\ calls[p] \in Nat
      BY <1>1, <1>3 DEF Current
    <3>. QED  BY <3>1, KeyOfInjective
  <2>2. r.kind = pc[p]
    BY <1>3 DEF KeysInv, RequestInv
  <2>. QED  BY <2>1, <2>2 DEF Awaited
<1>. QED  BY <1>2, <1>3

\* r is served: its version may be stored, or its blob placed.
LEMMA AnswerStep ==
  ASSUME TypeInv, KeysInv, NEW r \in reqs, NEW status \in Statuses, NEW i \in Ids \cup {NoId},
         NEW v \in Nat, Answer(r, status, i, v),
         r.kind = "request" /\ status = "ok" /\ r.id # NoId => i = r.id,
         \A x \in versions' \ versions :
           /\ r.kind \in {"put", "confirm"} /\ status = "ok"
           /\ x.key = r.key /\ x.content = r.content,
         \A b \in blobs' \ blobs :
           /\ r.kind = "upload" /\ b.key = r.key /\ b.content = r.content
           /\ b.id = r.id /\ b.version = r.version
  PROVE  KeysInv'
PROOF
<1>. /\ r.from \in Procs /\ resp \in [Procs -> Response]
  BY RequestFields DEF TypeInv, TypeOK
<1>1. /\ reqs' = reqs \ {r} /\ UNCHANGED <<handle, pc, grant, calls>>
      /\ \A q \in Procs : Putting(q)' = Putting(q) /\ Current(q)' = Current(q)
                          /\ Target(q)' = Target(q)
  BY DEF Answer, Putting, Current, Target
<1>2. \A q \in Procs : resp'[q] # resp[q] =>
        /\ q = r.from /\ Awaited(r)
        /\ resp'[q] = [status |-> status, id |-> i, version |-> v]
  BY DEF Answer
<1>3. \A q \in Procs : Putting(q) /\ r.key = Current(q) =>
        /\ r.kind = pc[q] /\ r.id = Target(q) /\ r.version = handle[q].version + 1
        /\ r.content = handle[q].content
  BY DEF KeysInv, RequestInv, KeyInv, Sent
<1>4. GrantInv'
  <2>. SUFFICES ASSUME NEW q \in Procs, handle[q].id # NoId, pc[q] = "request",
                       resp'[q].status = "ok"
                PROVE  resp'[q].id = handle[q].id
    BY <1>1 DEF KeysInv, GrantInv
  <2>1. CASE resp'[q] = resp[q]
    BY <2>1 DEF KeysInv, GrantInv
  <2>2. CASE resp'[q] # resp[q]
    <3>1. q = r.from /\ Awaited(r) /\ resp'[q] = [status |-> status, id |-> i, version |-> v]
      BY <1>2, <2>2
    <3>2. r.kind = "request" /\ r.id = handle[q].id
      BY <1>3, <3>1, AwaitedIsCurrent DEF Target
    <3>. QED  BY <3>1, <3>2
  <2>. QED  BY <2>1, <2>2
<1>5. KeyInv'
  <2>1. \A x \in Sent' : \E y \in Sent : x.key = y.key /\ x.content = y.content
    BY <1>1 DEF Sent
  <2>. HIDE DEF Sent
  <2>2. \A x \in Sent', q \in Procs, n \in Nat : n > calls'[q] => x.key # KeyOf(q, n)
    BY <1>1, <2>1 DEF KeysInv, KeyInv
  <2>3. \A x \in Sent', y \in Sent' : x.key = y.key => x.content = y.content
    BY <2>1 DEF KeysInv, KeyInv
  <2>4. \A x \in Sent', q \in Procs : Putting(q)' /\ x.key = Current(q)' =>
          x.content = handle'[q].content
    BY <1>1, <2>1 DEF KeysInv, KeyInv
  <2>5. \A x \in reqs' : x.key = KeyOf(x.from, x.call)
    BY <1>1 DEF KeysInv, KeyInv
  <2>. QED  BY <2>2, <2>3, <2>4, <2>5 DEF KeyInv
<1>6. RequestInv'
  <2>1. \A x \in reqs' : x \in reqs /\ x.key # r.key
    BY <1>1 DEF KeysInv, RequestInv
  <2>2. \A x \in reqs', y \in versions' : y.key # x.key
    BY <2>1 DEF KeysInv, RequestInv
  <2>3. ASSUME NEW x \in reqs', NEW q \in Procs, Putting(q), x.key = Current(q)
        PROVE  resp'[q].status = "none"
    <3>1. resp[q].status = "none" /\ q = x.from /\ x.key = Current(q)
      BY <2>1, <2>3, AwaitedIsCurrent DEF KeysInv, RequestInv
    <3>2. ~(q = r.from /\ Awaited(r))
      BY <2>1, <2>3, AwaitedIsCurrent
    <3>. QED  BY <1>2, <3>1, <3>2
  <2>. QED  BY <1>1, <2>1, <2>2, <2>3 DEF KeysInv, RequestInv
<1>7. VersionInv'
  <2>. SUFFICES ASSUME NEW q \in Procs,
                       pc[q] \in {"request", "upload"} \/ resp'[q].status \notin {"none", "ok"},
                       NEW x \in versions'
                PROVE  x.key # Current(q)
    BY <1>1 DEF VersionInv
  <2>1. CASE x \in versions
    <3>1. CASE resp'[q] = resp[q]
      BY <2>1, <3>1 DEF KeysInv, VersionInv
    <3>2. CASE resp'[q] # resp[q]
      <4>1. r.key = Current(q)
        BY <1>2, <3>2, AwaitedIsCurrent
      <4>. QED  BY <2>1, <4>1 DEF KeysInv, RequestInv
    <3>. QED  BY <3>1, <3>2
  <2>2. CASE x \notin versions
    <3>1. r.kind \in {"put", "confirm"} /\ status = "ok" /\ x.key = r.key
      BY <2>2
    <3>2. SUFFICES ASSUME r.key = Current(q) PROVE FALSE
      BY <3>1
    <3>3. Putting(q)
      <4>1. CASE resp'[q] = resp[q]
        BY <4>1 DEF TypeInv, ControlInv, Putting
      <4>2. CASE resp'[q] # resp[q]
        BY <1>2, <4>2, AwaitedIsCurrent
      <4>. QED  BY <4>1, <4>2
    <3>4. r.kind = pc[q] /\ resp[q].status = "none"
      BY <3>2, <3>3 DEF KeysInv, RequestInv
    <3>5. resp'[q].status \in {"none", "ok"}
      BY <1>2, <3>1, <3>4
    <3>. QED  BY <3>1, <3>4, <3>5
  <2>. QED  BY <2>1, <2>2
<1>8. BlobInv'
  <2>1. \A x \in reqs' : x \in reqs /\ x.key # r.key
    BY <1>1 DEF KeysInv, RequestInv
  <2>2. \A b \in blobs', x \in reqs' : b.key = x.key =>
          x.kind = "confirm" /\ b.id = x.id /\ b.version = x.version
    BY <2>1 DEF KeysInv, BlobInv
  <2>3. \A b \in blobs', q \in Procs : Putting(q) /\ b.key = Current(q) =>
          /\ pc[q] \in {"upload", "confirm"}
          /\ b.id = grant[q] /\ b.version = handle[q].version + 1
    <3>. SUFFICES ASSUME NEW b \in blobs', NEW q \in Procs, Putting(q), b.key = Current(q)
                  PROVE  /\ pc[q] \in {"upload", "confirm"}
                         /\ b.id = grant[q] /\ b.version = handle[q].version + 1
      OBVIOUS
    <3>1. CASE b \in blobs
      BY <3>1 DEF KeysInv, BlobInv
    <3>2. CASE b \notin blobs
      BY <1>3, <3>2 DEF Target
    <3>. QED  BY <3>1, <3>2
  <2>. QED  BY <1>1, <2>2, <2>3 DEF BlobInv
<1>. QED  BY <1>4, <1>5, <1>6, <1>7, <1>8 DEF KeysInv

LEMMA KeysInit == Init => KeysInv
PROOF
<1>. SUFFICES ASSUME Init PROVE KeysInv
  OBVIOUS
<1>1. Sent = {} /\ reqs = {} /\ blobs = {} /\ versions = {}
  BY DEF Init, Sent
<1>. QED  BY <1>1 DEF Init, KeysInv, GrantInv, KeyInv, RequestInv, VersionInv, BlobInv, FreshObject

LEMMA ServeKeys ==
  ASSUME TypeInv, KeysInv, NEW r \in reqs,
         ServeRequest(r) \/ ServeUpload(r) \/ ServeStore(r) \/ ServeConflict(r) \/ Refuse(r)
  PROVE  KeysInv'
PROOF
<1>. /\ r.from \in Procs /\ r.version \in Nat /\ r.id \in Ids \cup {NoId}
     /\ (r.kind \in {"upload", "confirm"} => r.id \in Ids)
  BY RequestFields DEF TypeInv, TypeOK
<1>1. CASE ServeRequest(r)
  <2>1. PICK i \in Ids : Answer(r, "ok", i, 0) /\ (r.id # NoId => i = r.id)
    BY <1>1 DEF ServeRequest
  <2>. QED  BY <1>1, <2>1, AnswerStep DEF ServeRequest
<1>2. CASE ServeUpload(r)
  BY <1>2, AnswerStep DEF ServeUpload
<1>3. CASE ServeStore(r)
  <2>1. PICK i \in Ids :
          /\ versions' = versions \cup
               {[id |-> i, version |-> r.version, key |-> r.key, content |-> r.content]}
          /\ Answer(r, "ok", i, r.version)
          /\ blobs' \in {blobs, blobs \ OldBlobs(i)}
    BY <1>3 DEF ServeStore
  <2>2. r.kind \in {"put", "confirm"}
    BY <1>3 DEF ServeStore
  <2>3. blobs' \ blobs = {}
    BY <2>1
  <2>4. \A x \in versions' \ versions : x.key = r.key /\ x.content = r.content
    BY <2>1
  <2>. QED  BY <2>1, <2>2, <2>3, <2>4, AnswerStep
<1>4. CASE ServeConflict(r)
  BY <1>4, AnswerStep DEF ServeConflict
<1>5. CASE Refuse(r)
  <2>1. PICK status \in BadStatuses : Answer(r, status, r.id, 0)
    BY <1>5 DEF Refuse
  <2>2. status \in Statuses /\ status # "ok"
    BY DEF BadStatuses
  <2>3. versions' \ versions = {} /\ blobs' \ blobs = {}
    BY <1>5 DEF Refuse
  <2>. QED  BY <2>1, <2>2, <2>3, AnswerStep
<1>. QED  BY <1>1, <1>2, <1>3, <1>4, <1>5

LEMMA CallerKeys ==
  ASSUME TypeInv, KeysInv, TypeInv', NEW p \in Procs, CallerStep(p)
  PROVE  KeysInv'
PROOF
<1>. /\ handle \in [Procs -> Handle] /\ calls \in [Procs -> Nat] /\ calls' \in [Procs -> Nat]
     /\ resp \in [Procs -> Response] /\ grant \in [Procs -> Ids \cup {NoId}]
     /\ pc \in [Procs -> Stages] /\ reqs \subseteq Requests
  BY DEF TypeInv, TypeOK, Stages
<1>1. ASSUME NEW size \in Sizes, Put(p, size) PROVE KeysInv'
  <2>. DEFINE h == Mutated(handle[p], p)
              kind == IF size = "small" THEN "put" ELSE "request"
              r == Request(p, kind, h.id, h, calls[p] + 1)
  <2>1. /\ handle' = [handle EXCEPT ![p] = h] /\ reqs' = reqs \cup {r}
        /\ pc[p] = "idle" /\ pc' = [pc EXCEPT ![p] = kind]
        /\ calls' = [calls EXCEPT ![p] = calls[p] + 1]
        /\ UNCHANGED <<blobs, resp, grant, versions>>
    BY <1>1 DEF Put
  <2>2. h \in Handle /\ h.id \in Ids \cup {NoId}
    <3>1. h \in Handle
      <4>. HIDE DEF Handle
      <4>. QED  BY MutatedType
    <3>. QED  BY <3>1
  <2>3. kind \in {"put", "request"}
    OBVIOUS
  <2>. HIDE DEF h, kind
  <2>4. /\ r.kind = kind /\ r.from = p /\ r.id = h.id /\ r.version = h.version + 1
        /\ r.key = KeyOf(p, calls[p] + 1) /\ r.content = h.content /\ r.call = calls[p] + 1
    BY DEF Request
  <2>. HIDE DEF r
  <2>5. \A x \in Sent : x.key # r.key
    <3>1. calls[p] + 1 \in Nat /\ calls[p] + 1 > calls[p]
      OBVIOUS
    <3>. QED  BY <2>4, <3>1 DEF KeysInv, KeyInv
  <2>6. /\ pc'[p] = kind /\ handle'[p] = h /\ calls'[p] = calls[p] + 1
        /\ resp'[p].status = "none"
        /\ \A q \in Procs \ {p} : UNCHANGED <<pc[q], resp[q], grant[q], handle[q], calls[q]>>
    BY <2>1, <2>3 DEF TypeInv, ControlInv, Putting, Target
  <2>7. (\A x \in reqs \cup versions : x.key # r.key) /\ \A b \in blobs : b.key # r.key
    BY <2>5 DEF Sent
  <2>8. Issues(p, r)
    BY <2>1, <2>3, <2>4, <2>6, <2>7 DEF Issues
  <2>. QED  BY <2>8, SendStep
<1>2. ASSUME NEW kind \in {"upload", "confirm"}, NEW i \in Ids, Send(p, kind, i),
             Putting(p), handle[p].id # NoId => i = handle[p].id,
             \A x \in reqs \cup versions : x.key # Current(p),
             \A b \in blobs : b.key = Current(p) =>
               kind = "confirm" /\ b.id = i /\ b.version = handle[p].version + 1
      PROVE  KeysInv'
  <2>. DEFINE r == Request(p, kind, i, handle[p], calls[p])
  <2>1. /\ r.kind = kind /\ r.from = p /\ r.id = i /\ r.version = handle[p].version + 1
        /\ r.key = KeyOf(p, calls[p]) /\ r.content = handle[p].content /\ r.call = calls[p]
    BY DEF Request
  <2>2. /\ reqs' = reqs \cup {r} /\ UNCHANGED <<blobs, versions, handle, calls>>
        /\ pc'[p] = kind /\ grant'[p] = i /\ resp'[p].status = "none"
        /\ \A q \in Procs \ {p} : UNCHANGED <<pc[q], resp[q], grant[q], handle[q], calls[q]>>
    BY <1>2 DEF Send, NoResp
  <2>. HIDE DEF r
  <2>3. r.key = Current(p)
    BY <2>1 DEF Current
  <2>4. \A b \in blobs : b.key = r.key => b.content = r.content
    BY <1>2, <2>1, <2>3 DEF KeysInv, KeyInv, Sent
  <2>5. Issues(p, r)
    BY <1>2, <2>1, <2>2, <2>3, <2>4 DEF Issues
  <2>. QED  BY <2>5, SendStep
<1>3. CASE Granted(p)
  <2>1. pc[p] = "request" /\ resp[p].status = "ok" /\ Send(p, "upload", resp[p].id)
    BY <1>3 DEF Granted
  <2>2. Putting(p) /\ resp[p].id \in Ids
    BY <2>1 DEF Putting, TypeInv, ControlInv
  <2>3. handle[p].id # NoId => resp[p].id = handle[p].id
    BY <2>1 DEF KeysInv, GrantInv
  <2>4. \A x \in reqs \cup versions : x.key # Current(p)
    BY <2>1, <2>2 DEF KeysInv, RequestInv, VersionInv
  <2>5. \A b \in blobs : b.key # Current(p)
    BY <2>1, <2>2 DEF KeysInv, BlobInv
  <2>. QED  BY <1>2, <2>1, <2>2, <2>3, <2>4, <2>5
<1>4. CASE Uploaded(p)
  <2>1. pc[p] = "upload" /\ resp[p].status = "ok" /\ Send(p, "confirm", grant[p])
    BY <1>4 DEF Uploaded
  <2>2. Putting(p) /\ grant[p] \in Ids
    BY <2>1 DEF Putting, TypeInv, TypeOK
  <2>3. handle[p].id # NoId => grant[p] = handle[p].id
    BY <2>1 DEF KeysInv, GrantInv
  <2>4. \A x \in reqs \cup versions : x.key # Current(p)
    BY <2>1, <2>2 DEF KeysInv, RequestInv, VersionInv
  <2>5. \A b \in blobs : b.key = Current(p) => b.id = grant[p] /\ b.version = handle[p].version + 1
    BY <2>2 DEF KeysInv, BlobInv
  <2>. QED  BY <1>2, <2>1, <2>2, <2>3, <2>4, <2>5
<1>5. CASE ~(Granted(p) \/ Uploaded(p) \/ \E size \in Sizes : Put(p, size))
  <2>1. UNCHANGED <<reqs, blobs, versions>>
    BY <1>5 DEF CallerStep, Proceed, PutAborts, GetMetadata, Stored, PutRefused, GiveUp,
       FetchBlob, FetchFails, GetReturns
  <2>2. \A q \in Procs \ {p} : UNCHANGED <<pc[q], resp[q], grant[q], handle[q], calls[q]>>
    BY <1>5 DEF CallerStep, Proceed, PutAborts, GetMetadata, Stored, PutRefused, GiveUp,
       FetchBlob, FetchFails, GetReturns, Return
  <2>3. pc'[p] \in {"idle", "fetch"} /\ calls'[p] >= calls[p]
    BY <1>5 DEF CallerStep, Proceed, PutAborts, GetMetadata, Stored, PutRefused, GiveUp,
       FetchBlob, FetchFails, GetReturns, Return
  <2>4. resp'[p].status = "none"
    BY <2>3 DEF TypeInv, ControlInv, Putting
  <2>. QED  BY <2>1, <2>2, <2>3, <2>4, QuietStep
<1>. QED  BY <1>1, <1>3, <1>4, <1>5

-----------------------------------------------------------------------------
(* The data of objects in hand, on the way and stored.                     *)

LEMMA DataInit == Init => DataInv
PROOF
<1>. SUFFICES ASSUME Init PROVE DataInv
  OBVIOUS
<1>1. StoreInv /\ HandleInv /\ NoLostUpdate
  BY DEF Init, StoreInv, HandleInv, Held, NoLostUpdate, Absent, FreshObject, Zero
<1>2. PutInv /\ GotInv /\ AnswerInv
  BY DEF Init, PutInv, GotInv, AnswerInv, NoResp
<1>. QED  BY <1>1, <1>2 DEF DataInv

\* A step of caller p that leaves what is stored alone.
Acts(p) ==
  /\ UNCHANGED <<meta, versions>>
  /\ \A q \in Procs \ {p} : UNCHANGED <<pc[q], resp[q], grant[q], handle[q], got[q]>>
  /\ resp'[p].status = "none"
  /\ \A r \in reqs' \ reqs : Sound(r)
  /\ Held(p, handle'[p], pc'[p])
  /\ pc'[p] = "fetch" => Readable(got'[p])
  /\ NoLostUpdate'

LEMMA ActsKeepsData ==
  ASSUME TypeInv, DataInv, NEW p \in Procs, Acts(p)
  PROVE  DataInv'
PROOF
<1>. USE DEF Acts
<1>1. StoreInv'
  BY DEF DataInv, StoreInv
<1>2. HandleInv'
  <2>1. \A q \in Procs : Held(q, handle'[q], pc'[q])
    BY DEF DataInv, HandleInv
  <2>. QED  BY <2>1 DEF HandleInv, Held
<1>3. PutInv'
  <2>1. \A r \in reqs' : Sound(r)
    BY DEF DataInv, PutInv
  <2>. QED  BY <2>1 DEF PutInv, Sound
<1>4. GotInv'
  <2>1. \A q \in Procs : pc'[q] = "fetch" => Readable(got'[q])
    BY DEF DataInv, GotInv
  <2>. QED  BY <2>1 DEF GotInv, Readable
<1>5. AnswerInv'
  <2>. SUFFICES ASSUME NEW q \in Procs, pc'[q] \in {"put", "confirm"}, resp'[q].status = "ok"
                PROVE  Done(q, IF pc'[q] = "put" THEN resp'[q].id ELSE grant'[q],
                            resp'[q].version, handle'[q].content)
    BY DEF AnswerInv, Done
  <2>1. UNCHANGED <<pc[q], resp[q], grant[q], handle[q]>>
    OBVIOUS
  <2>. QED  BY <2>1 DEF DataInv, AnswerInv
<1>. QED  BY <1>1, <1>2, <1>3, <1>4, <1>5 DEF DataInv

\* What a Get fills in or a Put changes is held as it should be.
LEMMA MutatedHeld ==
  ASSUME TypeInv, NEW p \in Procs, NEW h \in Handle, Held(p, h, "idle"), NEW at
  PROVE  Held(p, Mutated(h, p), at)
PROOF
<1>1. /\ Mutated(h, p) \in Handle
      /\ Mutated(h, p).id = h.id /\ Mutated(h, p).version = h.version
      /\ Mutated(h, p).content[p] = h.content[p] + 1
      /\ \A q \in Procs \ {p} : Mutated(h, p).content[q] = h.content[q]
  <2>. HIDE DEF Handle
  <2>. QED  BY MutatedType
<1>. DEFINE m == Mutated(h, p)
<1>. HIDE DEF m
<1>2. CASE h.id = NoId
  BY <1>1, <1>2 DEF Held, m
<1>3. CASE h.id # NoId
  <2>1. meta[h.id] \in Object /\ versions \subseteq Version
    BY <1>3 DEF TypeInv, TypeOK
  <2>2. Follows(p, h.version, h.content, meta[h.id])
    BY <1>3 DEF Held
  <2>3. PICK v \in versions : /\ v.id = h.id /\ v.version = h.version
                              /\ \A q \in Procs \ {p} : h.content[q] = v.content[q]
                              /\ h.content[p] >= v.content[p]
    BY <1>3 DEF Held
  <2>4. h.content[p] \in Nat /\ v.content[p] \in Nat /\ meta[h.id].content[p] \in Nat
    BY <2>1
  <2>5. /\ Follows(p, m.version, m.content, meta[m.id]) /\ Adds(p, m.version, m.content, meta[m.id])
    BY <1>1, <2>2, <2>4 DEF Follows, Adds, m
  <2>6. /\ v.id = m.id /\ v.version = m.version /\ m.content[p] >= v.content[p]
        /\ \A q \in Procs \ {p} : m.content[q] = v.content[q]
    BY <1>1, <2>3, <2>4 DEF m
  <2>. QED  BY <1>1, <1>3, <2>3, <2>5, <2>6 DEF Held, m
<1>. QED  BY <1>2, <1>3

LEMMA LoadedHeld ==
  ASSUME TypeInv, NEW p \in Procs, NEW h \in Handle, h.id # NoId, NEW v \in versions,
         v.id = h.id, v.version = h.version, v.content = h.content,
         h.version <= meta[h.id].version,
         h.version = meta[h.id].version => h.content = meta[h.id].content
  PROVE  Held(p, h, "idle")
PROOF
<1>1. meta[h.id] \in Object
  BY DEF TypeInv, TypeOK
<1>. QED  BY <1>1 DEF Held, Follows

\* The requests of a Put are sound, those that name a newly granted id too.
LEMMA HeldIsSound ==
  ASSUME TypeInv, StoreInv, NEW p \in Procs, NEW h \in Handle, NEW at \in PutStages, Held(p, h, at),
         NEW i \in Ids \cup {NoId}, h.id # NoId => i = h.id, NEW kind, NEW n
  PROVE  Sound(Request(p, kind, i, h, n))
PROOF
<1>. DEFINE r == Request(p, kind, i, h, n)
<1>1. r.from = p /\ r.id = i /\ r.version = h.version + 1 /\ r.content = h.content
  BY DEF Request
<1>. SUFFICES Sound(r)
  OBVIOUS
<1>. HIDE DEF r
<1>2. meta \in [Ids -> Object]
  BY DEF TypeInv, TypeOK
<1>3. r.version - 1 = h.version /\ r.version >= 1
  BY <1>1
<1>4. CASE h.id # NoId
  <2>1. Follows(p, h.version, h.content, meta[h.id]) /\ Adds(p, h.version, h.content, meta[h.id])
    BY <1>4 DEF Held
  <2>2. r.id = h.id
    BY <1>1, <1>4
  <2>. QED  BY <1>1, <1>3, <1>4, <2>1, <2>2 DEF Sound
<1>5. CASE h.id = NoId /\ i = NoId
  <2>1. /\ h.version = 0 /\ h.content[p] > 0 /\ \A q \in Procs \ {p} : h.content[q] = 0
    BY <1>5 DEF Held
  <2>. QED  BY <1>1, <1>3, <1>5, <2>1 DEF Sound
<1>6. CASE h.id = NoId /\ i # NoId
  <2>1. /\ h.version = 0 /\ h.content[p] > 0 /\ \A q \in Procs \ {p} : h.content[q] = 0
    BY <1>6 DEF Held
  <2>2. i \in Ids
    BY <1>6
  <2>3. meta[i].version \in Nat
    BY <1>2, <2>2
  <2>4. meta[i].version = 0 => \A q \in Procs : meta[i].content[q] = 0
    <3>1. CASE meta[i].status = "active"
      <4>1. meta[i].version >= 1
        BY <2>2, <3>1 DEF StoreInv
      <4>. QED  BY <2>3, <4>1
    <3>2. CASE meta[i].status # "active"
      BY <2>2, <3>2 DEF StoreInv
    <3>. QED  BY <3>1, <3>2
  <2>5. Follows(p, 0, h.content, meta[i]) /\ Adds(p, 0, h.content, meta[i])
    BY <2>1, <2>3, <2>4 DEF Follows, Adds
  <2>. QED  BY <1>1, <1>3, <1>6, <2>1, <2>5 DEF Sound
<1>. QED  BY <1>4, <1>5, <1>6

LEMMA CallerData ==
  ASSUME TypeInv, KeysInv, DataInv, TypeInv', NEW p \in Procs, CallerStep(p)
  PROVE  DataInv'
PROOF
<1>. /\ handle \in [Procs -> Handle] /\ meta \in [Ids -> Object] /\ blobs \subseteq Version
     /\ resp \in [Procs -> Response] /\ acked \in [Procs -> [Ids -> Nat]]
     /\ pc \in [Procs -> Stages] /\ versions \subseteq Version
     /\ got \in [Procs -> [id : Ids \cup {NoId}, version : Nat, key : Key]]
     /\ StoreInv /\ Held(p, handle[p], pc[p]) /\ NoLostUpdate
  BY DEF TypeInv, TypeOK, Stages, DataInv, HandleInv
<1>a. Acts(p) => DataInv'
  BY ActsKeepsData
<1>1. ASSUME NEW size \in Sizes, Put(p, size) PROVE DataInv'
  <2>. DEFINE h == Mutated(handle[p], p)
              kind == IF size = "small" THEN "put" ELSE "request"
              r == Request(p, kind, h.id, h, calls[p] + 1)
  <2>1. /\ handle' = [handle EXCEPT ![p] = h] /\ reqs' = reqs \cup {r}
        /\ pc[p] = "idle" /\ pc' = [pc EXCEPT ![p] = kind]
        /\ UNCHANGED <<meta, resp, grant, got, acked, versions>>
    BY <1>1 DEF Put
  <2>2. kind \in PutStages /\ kind # "fetch"
    OBVIOUS
  <2>. HIDE DEF kind
  <2>3. Held(p, h, kind) /\ h \in Handle
    <3>1. Held(p, handle[p], "idle") /\ handle[p] \in Handle
      BY <2>1
    <3>. HIDE DEF Handle
    <3>. QED  BY <3>1, MutatedHeld, MutatedType
  <2>4. Sound(r)
    <3>1. h.id \in Ids \cup {NoId}
      BY <2>3
    <3>. HIDE DEF Handle, PutStages, h
    <3>. QED  BY <2>2, <2>3, <3>1, HeldIsSound
  <2>. HIDE DEF h, r
  <2>5. resp[p].status = "none"
    BY <2>1 DEF TypeInv, ControlInv, Putting
  <2>6. NoLostUpdate'
    BY <2>1 DEF NoLostUpdate
  <2>7. Acts(p)
    BY <2>1, <2>2, <2>3, <2>4, <2>5, <2>6 DEF Acts
  <2>. QED  BY <2>7, <1>a
<1>2. ASSUME NEW kind \in {"upload", "confirm"}, NEW i \in Ids, Send(p, kind, i),
             Putting(p), handle[p].id # NoId => i = handle[p].id
      PROVE  DataInv'
  <2>1. Sound(Request(p, kind, i, handle[p], calls[p]))
    <3>1. handle[p] \in Handle /\ pc[p] \in PutStages /\ i \in Ids \cup {NoId}
      BY <1>2 DEF Putting
    <3>. HIDE DEF Handle, PutStages
    <3>. QED  BY <1>2, <3>1, HeldIsSound
  <2>2. Held(p, handle[p], kind)
    BY <1>2 DEF Held, Putting
  <2>3. NoLostUpdate'
    BY <1>2 DEF Send, NoLostUpdate
  <2>4. Acts(p)
    BY <1>2, <2>1, <2>2, <2>3 DEF Acts, Send, NoResp
  <2>. QED  BY <2>4, <1>a
<1>3. CASE Granted(p)
  <2>1. pc[p] = "request" /\ resp[p].status = "ok" /\ Send(p, "upload", resp[p].id)
    BY <1>3 DEF Granted
  <2>. QED  BY <1>2, <2>1 DEF Putting, TypeInv, ControlInv, KeysInv, GrantInv
<1>4. CASE Uploaded(p)
  <2>1. pc[p] = "upload" /\ Send(p, "confirm", grant[p])
    BY <1>4 DEF Uploaded
  <2>. QED  BY <1>2, <2>1 DEF Putting, TypeInv, TypeOK, KeysInv, GrantInv
<1>5. CASE Stored(p)
  <2>. DEFINE i == IF pc[p] = "put" THEN resp[p].id ELSE grant[p]
  <2>1. /\ handle' = [handle EXCEPT ![p].id = i, ![p].version = resp[p].version]
        /\ acked' = [acked EXCEPT ![p][i] = handle[p].content[p]]
        /\ Return(p, "ok") /\ UNCHANGED <<meta, reqs, got, versions>>
    BY <1>5 DEF Stored
  <2>2. Done(p, i, resp[p].version, handle[p].content) /\ i \in Ids
    BY <1>5 DEF Stored, DataInv, AnswerInv, Done
  <2>. HIDE DEF i
  <2>3. /\ handle'[p].id = i /\ handle'[p].version = resp[p].version
        /\ handle'[p].content = handle[p].content
        /\ \A q \in Procs \ {p} : handle'[q] = handle[q]
    <3>1. i \in Ids \cup {NoId} /\ resp[p].version \in Nat
      BY <2>2
    <3>2. handle' = [handle EXCEPT ![p].id = i, ![p].version = resp[p].version]
      BY <2>1
    <3>3. \A q \in Procs \ {p} : handle'[q] = handle[q]
      BY <3>2
    <3>4. handle'[p].id = i
      BY <3>2
    <3>5. handle'[p].version = resp[p].version
      BY <3>2
    <3>6. handle'[p].content = handle[p].content
      BY <3>2
    <3>. QED  BY <3>3, <3>4, <3>5, <3>6
  <2>4. Held(p, handle'[p], "idle")
    <3>1. PICK v \in versions : v.id = i /\ v.version = resp[p].version
                                /\ v.content = handle[p].content
      BY <2>2 DEF Done
    <3>2. handle[p].content[p] \in Nat
      OBVIOUS
    <3>3. Follows(p, handle'[p].version, handle'[p].content, meta[handle'[p].id])
      BY <2>2, <2>3 DEF Done
    <3>4. /\ v.id = handle'[p].id /\ v.version = handle'[p].version
          /\ \A q \in Procs \ {p} : handle'[p].content[q] = v.content[q]
          /\ handle'[p].content[p] >= v.content[p]
      BY <2>3, <3>1, <3>2
    <3>5. handle'[p].id # NoId
      BY <2>2, <2>3
    <3>. QED  BY <3>3, <3>4, <3>5 DEF Held
  <2>5. NoLostUpdate'
    BY <2>1, <2>2 DEF NoLostUpdate, Done
  <2>6. Acts(p)
    BY <2>1, <2>3, <2>4, <2>5, ReturnType DEF Acts
  <2>. QED  BY <2>6, <1>a
<1>6. ASSUME NEW err \in Errors, Return(p, err),
             UNCHANGED <<meta, versions, reqs, handle, got, acked>>
      PROVE  DataInv'
  <2>1. Held(p, handle[p], "idle")
    BY DEF Held
  <2>2. NoLostUpdate'
    BY <1>6 DEF NoLostUpdate
  <2>3. Acts(p)
    BY <1>6, <2>1, <2>2, ReturnType DEF Acts
  <2>. QED  BY <2>3, <1>a
<1>7. CASE PutRefused(p)
  <2>. HIDE DEF Errors
  <2>. QED  BY <1>6, <1>7, ErrorOfType DEF PutRefused
<1>8. CASE GiveUp(p)
  BY <1>6, <1>8 DEF GiveUp
<1>9. CASE PutAborts(p)
  <2>1. /\ pc[p] = "idle" /\ handle' = [handle EXCEPT ![p] = Mutated(handle[p], p)]
        /\ UNCHANGED <<meta, reqs, resp, pc, grant, got, acked, versions>>
    BY <1>9 DEF PutAborts
  <2>2. Held(p, Mutated(handle[p], p), "idle")
    <3>1. Held(p, handle[p], "idle") /\ handle[p] \in Handle
      BY <2>1
    <3>. HIDE DEF Handle
    <3>. QED  BY <3>1, MutatedHeld
  <2>3. resp[p].status = "none"
    BY <2>1 DEF TypeInv, ControlInv, Putting
  <2>4. NoLostUpdate'
    BY <2>1 DEF NoLostUpdate
  <2>5. Acts(p)
    BY <2>1, <2>2, <2>3, <2>4 DEF Acts
  <2>. QED  BY <2>5, <1>a
<1>10. ASSUME NEW i \in Ids, GetMetadata(p, i) PROVE DataInv'
  <2>1. /\ pc[p] = "idle" /\ meta[i].status = "active"
        /\ UNCHANGED <<meta, reqs, resp, grant, acked, versions>>
    BY <1>10 DEF GetMetadata
  <2>2. PICK v \in versions : /\ v.id = i /\ v.version = meta[i].version
                              /\ v.key = meta[i].key /\ v.content = meta[i].content
    BY <2>1 DEF StoreInv
  <2>3. resp[p].status = "none"
    BY <2>1 DEF TypeInv, ControlInv, Putting
  <2>4. NoLostUpdate'
    BY <2>1 DEF NoLostUpdate
  <2>5. CASE meta[i].inline
    <3>1. /\ handle' = [handle EXCEPT ![p] = Loaded(Metadata(i), meta[i].content)]
          /\ UNCHANGED <<pc, got>>
      BY <1>10, <2>5, Zenon DEF GetMetadata
    <3>2. LET h == Loaded(Metadata(i), meta[i].content) IN
          h \in Handle /\ h.id = i /\ h.version = meta[i].version /\ h.content = meta[i].content
      BY DEF Loaded, Metadata
    <3>3. Held(p, Loaded(Metadata(i), meta[i].content), "idle")
      <4>. DEFINE h == Loaded(Metadata(i), meta[i].content)
      <4>1. meta[i].version \in Nat /\ i # NoId
        OBVIOUS
      <4>2. h \in Handle /\ h.id = i /\ h.version = meta[i].version /\ h.content = meta[i].content
        BY <3>2
      <4>. HIDE DEF Handle, h
      <4>3. h.version <= meta[h.id].version /\ h.id # NoId
        BY <4>1, <4>2
      <4>4. h.version = meta[h.id].version => h.content = meta[h.id].content
        BY <4>2
      <4>5. v.id = h.id /\ v.version = h.version /\ v.content = h.content
        BY <2>2, <4>2
      <4>6. Held(p, h, "idle")
        BY <4>2, <4>3, <4>4, <4>5, LoadedHeld
      <4>. QED  BY <4>6 DEF h
    <3>4. Acts(p)
      BY <2>1, <2>3, <2>4, <3>1, <3>3 DEF Acts
    <3>. QED  BY <3>4, <1>a
  <2>6. CASE ~meta[i].inline
    <3>1. /\ got' = [got EXCEPT ![p] = Metadata(i)] /\ pc' = [pc EXCEPT ![p] = "fetch"]
          /\ UNCHANGED handle
      BY <1>10, <2>6, Zenon DEF GetMetadata
    <3>2. Readable(Metadata(i))
      <4>1. /\ Metadata(i).id = i /\ Metadata(i).version = meta[i].version
            /\ Metadata(i).key = meta[i].key /\ meta[i].version \in Nat
        BY DEF Metadata
      <4>. QED  BY <2>1, <2>2, <4>1 DEF Readable
    <3>3. Held(p, handle[p], "fetch")
      BY DEF Held
    <3>4. Acts(p)
      BY <2>1, <2>3, <2>4, <3>1, <3>2, <3>3 DEF Acts
    <3>. QED  BY <3>4, <1>a
  <2>. QED  BY <2>5, <2>6
<1>11. ASSUME NEW err \in Errors \cup {"ok"}, GetReturns(p, err),
              \A q \in Procs \ {p} : handle'[q] = handle[q], Held(p, handle'[p], "idle")
       PROVE  DataInv'
  <2>1. /\ Return(p, err) /\ got' = [got EXCEPT ![p] = NoMetadata]
        /\ UNCHANGED <<meta, reqs, acked, versions>>
    BY <1>11 DEF GetReturns
  <2>2. NoLostUpdate'
    BY <2>1 DEF NoLostUpdate
  <2>3. Acts(p)
    BY <1>11, <2>1, <2>2, ReturnType DEF Acts
  <2>. QED  BY <2>3, <1>a
<1>12. CASE FetchBlob(p)
  <2>1. PICK b \in BlobsAt(got[p].id, got[p].version) :
          \/ /\ b.key = got[p].key /\ GetReturns(p, "ok")
             /\ handle' = [handle EXCEPT ![p] = Loaded(got[p], b.content)]
          \/ GetReturns(p, "encryption") /\ handle' = handle
    BY <1>12 DEF FetchBlob
  <2>2. Held(p, handle[p], "idle")
    BY DEF Held
  <2>3. CASE handle' = handle /\ GetReturns(p, "encryption")
    BY <1>11, <2>2, <2>3
  <2>4. CASE /\ b.key = got[p].key /\ GetReturns(p, "ok")
             /\ handle' = [handle EXCEPT ![p] = Loaded(got[p], b.content)]
    <3>1. pc[p] = "fetch" /\ Readable(got[p]) /\ got[p].id \in Ids
      BY <1>12 DEF FetchBlob, DataInv, GotInv, TypeInv, TypeOK
    <3>2. PICK v \in versions : v.id = got[p].id /\ v.version = got[p].version /\ v.key = got[p].key
      BY <3>1 DEF Readable
    <3>3. b \in blobs /\ b.content \in Content
      BY DEF BlobsAt
    <3>4. \A x \in versions : x.key = got[p].key => x.content = b.content
      BY <2>4, <3>3 DEF KeysInv, KeyInv, Sent
    <3>5. got[p].version = meta[got[p].id].version => b.content = meta[got[p].id].content
      <4>. SUFFICES ASSUME got[p].version = meta[got[p].id].version
                    PROVE  b.content = meta[got[p].id].content
        OBVIOUS
      <4>. DEFINE i == got[p].id
                  x == [id |-> i, version |-> meta[i].version, key |-> meta[i].key,
                        content |-> meta[i].content]
      <4>1. x \in versions /\ meta[i].key = got[p].key
        BY <3>1 DEF StoreInv, Readable
      <4>. QED  BY <3>4, <4>1
    <3>. DEFINE h == Loaded(got[p], b.content)
    <3>6. h.id = got[p].id /\ h.version = got[p].version /\ h.content = b.content /\ h \in Handle
      BY <3>3 DEF Loaded
    <3>7. got[p].version <= meta[got[p].id].version /\ got[p].id # NoId
      BY <3>1 DEF Readable
    <3>8. Held(p, h, "idle")
      <4>. HIDE DEF h, Handle
      <4>. QED  BY <3>2, <3>4, <3>5, <3>6, <3>7, LoadedHeld
    <3>. QED  BY <1>11, <2>4, <3>8
  <2>. QED  BY <2>1, <2>3, <2>4
<1>13. CASE FetchFails(p)
  <2>1. PICK err \in Errors : GetReturns(p, err)
    <3>1. {"notFound", "network", "cancelled", "session"} \subseteq Errors
      OBVIOUS
    <3>. HIDE DEF Errors
    <3>. QED  BY <1>13, <3>1, ErrorOfType DEF FetchFails
  <2>2. handle' = handle /\ Held(p, handle[p], "idle")
    BY <1>13 DEF FetchFails, Held
  <2>. QED  BY <1>11, <2>1, <2>2
<1>. QED  BY <1>1, <1>3, <1>4, <1>5, <1>7, <1>8, <1>9, <1>10, <1>12, <1>13 DEF CallerStep, Proceed

\* A request is answered and no version is stored.
LEMMA AnswerKeepsData ==
  ASSUME TypeInv, KeysInv, DataInv, NEW r \in reqs, NEW status \in Statuses,
         NEW i \in Ids \cup {NoId}, NEW n \in Nat, Answer(r, status, i, n), UNCHANGED versions,
         r.kind \in {"put", "confirm"} => status # "ok",
         \A j \in Ids : /\ UNCHANGED <<meta[j].version, meta[j].content, meta[j].key>>
                        /\ meta'[j].status = "active" <=> meta[j].status = "active"
  PROVE  DataInv'
PROOF
<1>. /\ handle \in [Procs -> Handle] /\ resp \in [Procs -> Response] /\ r.from \in Procs
     /\ reqs \subseteq Requests
  BY RequestFields DEF TypeInv, TypeOK
<1>1. /\ UNCHANGED <<handle, pc, grant, got, acked>> /\ reqs' = reqs \ {r}
      /\ \A q \in Procs : resp'[q] = resp[q] \/ (q = r.from /\ Awaited(r) /\ resp'[q].status = status)
  BY DEF Answer
<1>2. StoreInv' /\ NoLostUpdate'
  <2>1. StoreInv'
    <3>. SUFFICES ASSUME NEW j \in Ids
                  PROVE  IF meta'[j].status = "active"
                           THEN /\ meta'[j].version >= 1
                                /\ [id |-> j, version |-> meta'[j].version, key |-> meta'[j].key,
                                    content |-> meta'[j].content] \in versions'
                           ELSE meta'[j].version = 0 /\ \A q \in Procs : meta'[j].content[q] = 0
      BY DEF StoreInv
    <3>1. CASE meta[j].status = "active"
      BY <3>1 DEF DataInv, StoreInv
    <3>2. CASE meta[j].status # "active"
      <4>1. meta[j].version = 0 /\ \A q \in Procs : meta[j].content[q] = 0
        BY <3>2 DEF DataInv, StoreInv
      <4>2. /\ meta'[j].status # "active" /\ meta'[j].version = meta[j].version
            /\ meta'[j].content = meta[j].content
        BY <3>2
      <4>. QED  BY <4>1, <4>2
    <3>. QED  BY <3>1, <3>2
  <2>2. NoLostUpdate'
    BY <1>1 DEF DataInv, NoLostUpdate
  <2>. QED  BY <2>1, <2>2
<1>3. ASSUME NEW q \in Procs, NEW v, NEW c, NEW j \in Ids
      PROVE  /\ Follows(q, v, c, meta'[j]) <=> Follows(q, v, c, meta[j])
             /\ Adds(q, v, c, meta'[j]) <=> Adds(q, v, c, meta[j])
  BY DEF Follows, Adds
<1>4. HandleInv'
  <2>. SUFFICES ASSUME NEW q \in Procs PROVE Held(q, handle[q], pc[q])'
    BY <1>1 DEF HandleInv
  <2>1. Held(q, handle[q], pc[q]) /\ (handle[q].id = NoId \/ handle[q].id \in Ids)
    BY DEF DataInv, HandleInv
  <2>. QED  BY <1>1, <1>3, <2>1 DEF Held
<1>5. PutInv'
  <2>. SUFFICES ASSUME NEW x \in reqs' PROVE Sound(x)'
    BY DEF PutInv
  <2>1. Sound(x) /\ x.from \in Procs /\ (x.id = NoId \/ x.id \in Ids)
    BY <1>1, RequestFields DEF DataInv, PutInv
  <2>. QED  BY <1>3, <2>1 DEF Sound
<1>6. GotInv'
  <2>. SUFFICES ASSUME NEW q \in Procs, pc[q] = "fetch" PROVE Readable(got[q])'
    BY <1>1 DEF GotInv
  <2>1. Readable(got[q]) /\ got[q].id \in Ids
    BY DEF DataInv, GotInv, TypeInv, TypeOK
  <2>. QED  BY <1>1, <2>1 DEF Readable
<1>7. AnswerInv'
  <2>. SUFFICES ASSUME NEW q \in Procs, pc[q] \in {"put", "confirm"}, resp'[q].status = "ok"
                PROVE  Done(q, IF pc[q] = "put" THEN resp[q].id ELSE grant[q],
                            resp[q].version, handle[q].content)'
    BY <1>1 DEF AnswerInv
  <2>1. resp'[q] = resp[q]
    BY <1>1 DEF Awaited
  <2>2. Done(q, IF pc[q] = "put" THEN resp[q].id ELSE grant[q], resp[q].version, handle[q].content)
    BY <2>1 DEF DataInv, AnswerInv
  <2>. DEFINE j == IF pc[q] = "put" THEN resp[q].id ELSE grant[q]
  <2>3. /\ j \in Ids
        /\ \E v \in versions : v.id = j /\ v.version = resp[q].version /\ v.content = handle[q].content
        /\ Follows(q, resp[q].version, handle[q].content, meta[j])
        /\ handle[q].content[q] <= meta[j].content[q]
    BY <2>2 DEF Done
  <2>4. /\ Follows(q, resp[q].version, handle[q].content, meta'[j])
        /\ handle[q].content[q] <= meta'[j].content[q]
    BY <1>3, <2>3
  <2>. QED  BY <1>1, <2>1, <2>3, <2>4 DEF Done
<1>. QED  BY <1>2, <1>4, <1>5, <1>6, <1>7 DEF DataInv

\* A version that is stored leaves what was made of older ones behind.
LEMMA StoreKeepsData ==
  ASSUME TypeInv, KeysInv, DataInv, NEW r \in reqs, ServeStore(r), TypeInv'
  PROVE  DataInv'
PROOF
<1>. /\ handle \in [Procs -> Handle] /\ resp \in [Procs -> Response] /\ meta \in [Ids -> Object]
     /\ r.from \in Procs /\ r.version \in Nat /\ r.content \in Content
     /\ r.id \in Ids \cup {NoId} /\ r.key \in Key /\ reqs \subseteq Requests
  BY RequestFields DEF TypeInv, TypeOK
<1>0. PICK i \in Ids :
        /\ IF r.id = NoId THEN meta[i].status = "absent"
                          ELSE i = r.id /\ r.version = meta[i].version + 1
        /\ meta' = [meta EXCEPT ![i] = [status |-> "active", version |-> r.version,
                                        key |-> r.key, inline |-> r.kind = "put",
                                        content |-> r.content]]
        /\ versions' = versions \cup
             {[id |-> i, version |-> r.version, key |-> r.key, content |-> r.content]}
        /\ Answer(r, "ok", i, r.version)
  BY DEF ServeStore
<1>1. /\ UNCHANGED <<handle, pc, grant, got, acked>> /\ reqs' = reqs \ {r}
      /\ \A q \in Procs : \/ resp'[q] = resp[q]
                          \/ /\ q = r.from /\ Awaited(r)
                             /\ resp'[q] = [status |-> "ok", id |-> i, version |-> r.version]
  BY <1>0 DEF Answer
<1>2. /\ meta'[i].status = "active" /\ meta'[i].version = r.version /\ meta'[i].key = r.key
      /\ meta'[i].content = r.content
      /\ \A j \in Ids \ {i} : meta'[j] = meta[j]
  BY <1>0
<1>3. /\ r.version = meta[i].version + 1
      /\ \A q \in Procs : meta[i].content[q] <= r.content[q]
  <2>1. Sound(r)
    BY DEF DataInv, PutInv
  <2>2. meta[i].content \in Content /\ meta[i].version \in Nat
    OBVIOUS
  <2>3. CASE r.id = NoId
    <3>1. meta[i].version = 0 /\ \A q \in Procs : meta[i].content[q] = 0
      BY <1>0, <2>3 DEF DataInv, StoreInv
    <3>. QED  BY <2>1, <2>3, <3>1 DEF Sound
  <2>4. CASE r.id # NoId
    <3>0. i = r.id /\ r.version = meta[i].version + 1
      BY <1>0, <2>4
    <3>1. i = r.id /\ r.version - 1 = meta[i].version
      BY <2>2, <3>0
    <3>2. Follows(r.from, r.version - 1, r.content, meta[i])
      BY <2>1, <2>4, <3>1 DEF Sound
    <3>3. /\ \A q \in Procs \ {r.from} : r.content[q] = meta[i].content[q]
          /\ r.content[r.from] >= meta[i].content[r.from]
      BY <3>1, <3>2 DEF Follows
    <3>4. r.version = meta[i].version + 1
      BY <1>0, <2>4
    <3>5. ASSUME NEW q \in Procs PROVE meta[i].content[q] <= r.content[q]
      <4>1. meta[i].content[q] \in Nat /\ r.content[q] \in Nat
        BY <2>2
      <4>2. CASE q = r.from
        BY <3>3, <4>2
      <4>3. CASE q # r.from
        <5>1. r.content[q] = meta[i].content[q]
          BY <3>3, <4>3
        <5>. QED  BY <4>1, <5>1
      <4>. QED  BY <4>2, <4>3
    <3>. QED  BY <3>4, <3>5
  <2>. QED  BY <2>3, <2>4
<1>4. versions \subseteq versions' /\
      [id |-> i, version |-> r.version, key |-> r.key, content |-> r.content] \in versions'
  BY <1>0
<1>5. \A j \in Ids : meta[j].version \in Nat
  OBVIOUS
<1>6. ASSUME NEW q \in Procs, NEW v \in Int, NEW c, NEW j \in Ids, Follows(q, v, c, meta[j])
      PROVE  /\ Follows(q, v, c, meta'[j])
             /\ Adds(q, v, c, meta[j]) => Adds(q, v, c, meta'[j])
  <2>1. CASE j = i
    BY <1>2, <1>3, <1>5, <1>6, <2>1 DEF Follows, Adds
  <2>2. CASE j # i
    BY <1>2, <1>6, <2>2
  <2>. QED  BY <2>1, <2>2
<1>7. StoreInv'
  <2>. SUFFICES ASSUME NEW j \in Ids
                PROVE  IF meta'[j].status = "active"
                         THEN /\ meta'[j].version >= 1
                              /\ [id |-> j, version |-> meta'[j].version, key |-> meta'[j].key,
                                  content |-> meta'[j].content] \in versions'
                         ELSE meta'[j].version = 0 /\ \A q \in Procs : meta'[j].content[q] = 0
    BY DEF StoreInv
  <2>1. CASE j = i
    BY <1>2, <1>3, <1>4, <1>5, <2>1
  <2>2. CASE j # i
    BY <1>2, <1>4, <2>2 DEF DataInv, StoreInv
  <2>. QED  BY <2>1, <2>2
<1>8. HandleInv'
  <2>. SUFFICES ASSUME NEW q \in Procs PROVE Held(q, handle[q], pc[q])'
    BY <1>1 DEF HandleInv
  <2>1. Held(q, handle[q], pc[q]) /\ handle[q].version \in Int
    BY DEF DataInv, HandleInv
  <2>2. CASE handle[q].id = NoId
    BY <1>1, <2>1, <2>2 DEF Held
  <2>3. CASE handle[q].id \in Ids
    <3>1. /\ Follows(q, handle[q].version, handle[q].content, meta'[handle[q].id])
          /\ pc[q] \in PutStages =>
               Adds(q, handle[q].version, handle[q].content, meta'[handle[q].id])
      BY <1>6, <2>1, <2>3 DEF Held
    <3>2. PICK v \in versions : /\ v.id = handle[q].id /\ v.version = handle[q].version
                                /\ \A p \in Procs \ {q} : handle[q].content[p] = v.content[p]
                                /\ handle[q].content[q] >= v.content[q]
      BY <2>1, <2>3 DEF Held
    <3>3. v \in versions'
      BY <1>4
    <3>. QED  BY <1>1, <2>3, <3>1, <3>2, <3>3 DEF Held
  <2>. QED  BY <2>2, <2>3
<1>9. PutInv'
  <2>. SUFFICES ASSUME NEW x \in reqs' PROVE Sound(x)'
    BY DEF PutInv
  <2>1. /\ Sound(x) /\ x.from \in Procs /\ x.version - 1 \in Int
        /\ (x.id = NoId \/ x.id \in Ids)
    BY <1>1, RequestFields DEF DataInv, PutInv
  <2>. QED  BY <1>6, <2>1 DEF Sound
<1>10. GotInv'
  <2>. SUFFICES ASSUME NEW q \in Procs, pc[q] = "fetch" PROVE Readable(got[q])'
    BY <1>1 DEF GotInv
  <2>1. Readable(got[q]) /\ got[q].id \in Ids /\ got[q].version \in Nat
    BY DEF DataInv, GotInv, TypeInv, TypeOK
  <2>2. PICK v \in versions : v.id = got[q].id /\ v.version = got[q].version /\ v.key = got[q].key
    BY <2>1 DEF Readable
  <2>3. v \in versions'
    BY <1>4
  <2>4. /\ meta'[got[q].id].status = "active" /\ got[q].version <= meta'[got[q].id].version
        /\ got[q].version = meta'[got[q].id].version => got[q].key = meta'[got[q].id].key
    <3>1. CASE got[q].id = i
      BY <1>2, <1>3, <1>5, <2>1, <3>1 DEF Readable
    <3>2. CASE got[q].id # i
      BY <1>2, <2>1, <3>2 DEF Readable
    <3>. QED  BY <3>1, <3>2
  <2>. QED  BY <1>1, <2>2, <2>3, <2>4 DEF Readable
<1>11. NoLostUpdate'
  <2>. SUFFICES ASSUME NEW q \in Procs, NEW j \in Ids PROVE acked[q][j] <= meta'[j].content[q]
    BY <1>1 DEF NoLostUpdate
  <2>1. acked[q][j] <= meta[j].content[q] /\ acked[q][j] \in Nat /\ meta[j].content[q] \in Nat
    BY DEF DataInv, NoLostUpdate, TypeInv, TypeOK
  <2>2. CASE j = i
    BY <1>2, <1>3, <2>1, <2>2
  <2>3. CASE j # i
    BY <1>2, <2>1, <2>3
  <2>. QED  BY <2>2, <2>3
<1>12. AnswerInv'
  <2>. SUFFICES ASSUME NEW q \in Procs, pc[q] \in {"put", "confirm"}, resp'[q].status = "ok"
                PROVE  Done(q, IF pc[q] = "put" THEN resp[q].id ELSE grant[q],
                            resp[q].version, handle[q].content)'
    BY <1>1 DEF AnswerInv
  <2>1. CASE resp'[q] = resp[q]
    <3>. DEFINE j == IF pc[q] = "put" THEN resp[q].id ELSE grant[q]
                n == resp[q].version
                c == handle[q].content
    <3>1. Done(q, j, n, c) /\ n \in Int
      BY <2>1 DEF DataInv, AnswerInv
    <3>2. j \in Ids /\ c[q] \in Nat /\ meta[j].content[q] \in Nat
      BY <3>1 DEF Done
    <3>. HIDE DEF j, n, c
    <3>3. Follows(q, n, c, meta'[j])
      BY <1>6, <3>1 DEF Done
    <3>4. c[q] <= meta'[j].content[q]
      <4>1. CASE j = i
        BY <1>2, <1>3, <3>1, <3>2, <4>1 DEF Done
      <4>2. CASE j # i
        BY <1>2, <3>1, <3>2, <4>2 DEF Done
      <4>. QED  BY <4>1, <4>2
    <3>5. \E v \in versions' : v.id = j /\ v.version = n /\ v.content = c
      BY <1>4, <3>1 DEF Done
    <3>. QED  BY <1>1, <2>1, <3>2, <3>3, <3>4, <3>5 DEF Done, j, n, c
  <2>2. CASE resp'[q] # resp[q]
    <3>1. /\ q = r.from /\ Awaited(r)
          /\ resp'[q] = [status |-> "ok", id |-> i, version |-> r.version]
      BY <1>1, <2>2
    <3>2. Putting(q) /\ r.key = Current(q)
      BY <3>1, AwaitedIsCurrent
    <3>3. /\ r.kind = pc[q] /\ r.id = Target(q) /\ r.content = handle[q].content
      BY <3>2 DEF KeysInv, RequestInv, KeyInv, Sent
    <3>4. (IF pc[q] = "put" THEN resp'[q].id ELSE grant[q]) = i
      <4>1. pc[q] # "put" => r.id = grant[q] /\ r.id # NoId
        BY <3>3, RequestFields DEF Target
      <4>. QED  BY <1>0, <3>1, <4>1
    <3>5. Follows(q, r.version, handle[q].content, meta'[i])
      BY <1>2, <3>3 DEF Follows
    <3>6. handle[q].content[q] <= meta'[i].content[q]
      BY <1>2, <3>3
    <3>7. \E v \in versions' : v.id = i /\ v.version = r.version /\ v.content = handle[q].content
      BY <1>4, <3>3
    <3>8. resp'[q].version = r.version
      BY <3>1
    <3>. QED  BY <1>1, <3>4, <3>5, <3>6, <3>7, <3>8 DEF Done
  <2>. QED  BY <2>1, <2>2
<1>. QED  BY <1>7, <1>8, <1>9, <1>10, <1>11, <1>12 DEF DataInv

-----------------------------------------------------------------------------
(* The blobs of stored versions.                                           *)

LEMMA SamePlace ==
  ASSUME TypeInv, NEW i, NEW j, NEW v, NEW w, Place(i, v) = Place(j, w)
  PROVE  i = j /\ (placement = "perVersion" => v = w)
PROOF
  BY DEF TypeInv, TypeOK, Place

LEMMA BlobsInit == Init => BlobsInv
PROOF
  BY DEF Init, BlobsInv, UploadInv, StoredVersionHasABlob, NoResp, Absent

LEMMA CallerBlobs ==
  ASSUME TypeInv, BlobsInv, NEW p \in Procs, CallerStep(p), TypeInv'
  PROVE  BlobsInv'
PROOF
<1>. /\ handle \in [Procs -> Handle] /\ resp \in [Procs -> Response]
     /\ pc \in [Procs -> Stages] /\ grant \in [Procs -> Ids \cup {NoId}]
  BY DEF TypeInv, TypeOK, Stages
<1>1. UNCHANGED <<placement, meta, blobs, versions>>
  BY DEF CallerStep, Proceed, Put, PutAborts, GetMetadata, Granted, Uploaded, Send, Stored,
     PutRefused, GiveUp, FetchBlob, FetchFails, GetReturns
<1>2. ASSUME NEW i, NEW v PROVE Awaits(i, v)' <=> Awaits(i, v)
  BY <1>1 DEF Awaits, BlobsAt, Place
<1>3. StoredVersionHasABlob'
  <2>. SUFFICES ASSUME NEW i \in Ids, meta[i].status = "active", ~meta[i].inline
                PROVE  \E b \in BlobsAt(i, meta[i].version)' :
                         b.key = meta[i].key \/ \A x \in versions : x.key # b.key
    BY <1>1, Zenon DEF StoredVersionHasABlob
  <2>1. BlobsAt(i, meta[i].version)' = BlobsAt(i, meta[i].version)
    BY <1>1 DEF BlobsAt, Place
  <2>. QED  BY <2>1 DEF BlobsInv, StoredVersionHasABlob
<1>4. ASSUME NEW r \in reqs' \ reqs, r.kind = "confirm"
      PROVE  /\ pc[p] = "upload" /\ resp[p].status = "ok"
             /\ r.id = grant[p] /\ r.version = handle[p].version + 1
  BY <1>4 DEF CallerStep, Proceed, Put, PutAborts, GetMetadata, Granted, Uploaded, Send, Stored,
     PutRefused, GiveUp, FetchBlob, FetchFails, GetReturns, Request
<1>5. \A r \in reqs' : r.kind = "confirm" /\ r.version > meta[r.id].version =>
        Awaits(r.id, r.version)
  BY <1>4 DEF BlobsInv, UploadInv
<1>6. ASSUME NEW q \in Procs, pc'[q] = "upload", resp'[q].status = "ok"
      PROVE  UNCHANGED <<pc[q], resp[q], grant[q], handle[q]>>
  <2>1. q # p
    <3>. SUFFICES ASSUME q = p PROVE FALSE
      OBVIOUS
    <3>1. Granted(p)
      BY <1>6 DEF CallerStep, Proceed, Put, PutAborts, GetMetadata, Granted, Uploaded, Send, Stored,
         PutRefused, GiveUp, FetchBlob, FetchFails, GetReturns, Return, TypeInv, TypeOK, ControlInv
    <3>. QED  BY <1>6, <3>1 DEF Granted, Send, NoResp, TypeInv, TypeOK
  <2>2. UNCHANGED <<pc[q], resp[q], grant[q]>>
    BY <2>1 DEF CallerStep, Proceed, Put, PutAborts, GetMetadata, Granted, Uploaded, Send,
       Stored, PutRefused, GiveUp, FetchBlob, FetchFails, GetReturns, Return
  <2>3. handle'[q] = handle[q]
    BY <2>1 DEF CallerStep, Proceed, Put, PutAborts, GetMetadata, Granted, Uploaded, Send,
       Stored, PutRefused, GiveUp, FetchBlob, FetchFails, GetReturns
  <2>. QED  BY <2>2, <2>3
<1>7. \A q \in Procs : pc'[q] = "upload" /\ resp'[q].status = "ok"
        /\ handle'[q].version + 1 > meta[grant'[q]].version
        => Awaits(grant'[q], handle'[q].version + 1)
  BY <1>6 DEF BlobsInv, UploadInv
<1>. QED  BY <1>1, <1>2, <1>3, <1>5, <1>7 DEF BlobsInv, UploadInv

\* An upload is in its place, and its key is not that of a stored version.
LEMMA UploadKeepsBlobs ==
  ASSUME TypeInv, KeysInv, BlobsInv, NEW r \in reqs, ServeUpload(r)
  PROVE  BlobsInv'
PROOF
<1>. DEFINE new == [id |-> r.id, version |-> r.version, key |-> r.key, content |-> r.content]
<1>1. /\ blobs' = (blobs \ BlobsAt(r.id, r.version)) \cup {new}
      /\ reqs' = reqs \ {r} /\ UNCHANGED <<placement, meta, versions, handle, pc, grant>>
      /\ r.kind = "upload"
      /\ \A q \in Procs : resp'[q] = resp[q] \/ (q = r.from /\ Awaited(r))
  BY DEF ServeUpload, Answer
<1>2. new.id = r.id /\ new.version = r.version /\ new.key = r.key
  OBVIOUS
<1>. HIDE DEF new
<1>3. \A x \in versions : x.key # new.key
  BY <1>2 DEF KeysInv, RequestInv
<1>4. ASSUME NEW i, NEW v
      PROVE  IF Place(i, v) = Place(r.id, r.version)
               THEN BlobsAt(i, v)' = {new} ELSE BlobsAt(i, v)' = BlobsAt(i, v)
  <2>1. Place(i, v)' = Place(i, v) /\ \A b : Place(b.id, b.version)' = Place(b.id, b.version)
    BY <1>1 DEF Place
  <2>2. \A b : b \in BlobsAt(i, v)' <=> b \in blobs' /\ Place(b.id, b.version) = Place(i, v)
    BY <2>1 DEF BlobsAt
  <2>. QED  BY <1>1, <1>2, <2>2 DEF BlobsAt
<1>5. ASSUME NEW i, NEW v, Awaits(i, v) \/ Place(i, v) = Place(r.id, r.version)
      PROVE  Awaits(i, v)'
  BY <1>1, <1>3, <1>4, <1>5 DEF Awaits
<1>6. StoredVersionHasABlob'
  <2>. SUFFICES ASSUME NEW i \in Ids, meta[i].status = "active", ~meta[i].inline
                PROVE  \E b \in BlobsAt(i, meta[i].version)' :
                         b.key = meta[i].key \/ \A x \in versions : x.key # b.key
    BY <1>1, Zenon DEF StoredVersionHasABlob
  <2>1. CASE Place(i, meta[i].version) = Place(r.id, r.version)
    <3>1. BlobsAt(i, meta[i].version)' = {new}
      BY <1>1, <1>4, <2>1 DEF BlobsAt, Place
    <3>. QED  BY <1>3, <3>1
  <2>2. CASE Place(i, meta[i].version) # Place(r.id, r.version)
    <3>1. BlobsAt(i, meta[i].version)' = BlobsAt(i, meta[i].version)
      BY <1>1, <1>4, <2>2 DEF BlobsAt, Place
    <3>. QED  BY <3>1 DEF BlobsInv, StoredVersionHasABlob
  <2>. QED  BY <2>1, <2>2
<1>7. UploadInv'
  <2>1. \A x \in reqs' : x.kind = "confirm" /\ x.version > meta'[x.id].version =>
          Awaits(x.id, x.version)'
    BY <1>1, <1>5 DEF BlobsInv, UploadInv
  <2>2. ASSUME NEW q \in Procs, pc[q] = "upload", resp'[q].status = "ok",
               handle[q].version + 1 > meta[grant[q]].version
        PROVE  Awaits(grant[q], handle[q].version + 1)'
    <3>. DEFINE i == grant[q]
                v == handle[q].version + 1
    <3>1. CASE resp'[q] = resp[q]
      BY <1>1, <1>5, <2>2, <3>1 DEF BlobsInv, UploadInv
    <3>2. CASE resp'[q] # resp[q]
      <4>1. Putting(q) /\ r.key = Current(q)
        BY <1>1, <3>2, AwaitedIsCurrent
      <4>2. r.id = i /\ r.version = v
        BY <2>2, <4>1 DEF KeysInv, RequestInv, Target
      <4>. QED  BY <1>1, <1>5, <4>2
    <3>. QED  BY <3>1, <3>2
  <2>. QED  BY <1>1, <2>1, <2>2 DEF UploadInv
<1>. QED  BY <1>6, <1>7 DEF BlobsInv

\* Nothing is uploaded or stored.
LEMMA AnswerKeepsBlobs ==
  ASSUME TypeInv, KeysInv, BlobsInv, NEW r \in reqs, NEW status \in Statuses,
         NEW i \in Ids \cup {NoId}, NEW n \in Nat, Answer(r, status, i, n),
         UNCHANGED <<blobs, versions>>, r.kind = "upload" => status # "ok",
         \A j \in Ids : meta'[j].version = meta[j].version
                        /\ (meta'[j] = meta[j] \/ meta'[j].status # "active")
  PROVE  BlobsInv'
PROOF
<1>. resp \in [Procs -> Response] /\ r.from \in Procs
  BY RequestFields DEF TypeInv, TypeOK
<1>1. /\ UNCHANGED <<placement, handle, pc, grant>> /\ reqs' = reqs \ {r}
      /\ \A q \in Procs : resp'[q] = resp[q] \/ (q = r.from /\ Awaited(r) /\ resp'[q].status = status)
  BY DEF Answer
<1>2. ASSUME NEW j, NEW v PROVE Awaits(j, v)' <=> Awaits(j, v)
  BY <1>1 DEF Awaits, BlobsAt, Place
<1>3. StoredVersionHasABlob'
  <2>. SUFFICES ASSUME NEW j \in Ids, meta'[j].status = "active", ~meta'[j].inline
                PROVE  \E b \in BlobsAt(j, meta[j].version)' :
                         b.key = meta'[j].key \/ \A x \in versions : x.key # b.key
    BY Zenon DEF StoredVersionHasABlob
  <2>1. meta'[j] = meta[j]
    OBVIOUS
  <2>2. BlobsAt(j, meta[j].version)' = BlobsAt(j, meta[j].version)
    BY <1>1, <2>1 DEF BlobsAt, Place
  <2>. QED  BY <2>1, <2>2 DEF BlobsInv, StoredVersionHasABlob
<1>4. \A x \in reqs' : x.kind = "confirm" /\ x.version > meta'[x.id].version =>
        Awaits(x.id, x.version)
  <2>. SUFFICES ASSUME NEW x \in reqs', x.kind = "confirm", x.version > meta'[x.id].version
                PROVE  Awaits(x.id, x.version)
    OBVIOUS
  <2>1. x \in reqs /\ x.id \in Ids
    BY <1>1, RequestFields DEF TypeInv, TypeOK
  <2>. QED  BY <2>1 DEF BlobsInv, UploadInv
<1>5. \A q \in Procs : pc[q] = "upload" /\ resp'[q].status = "ok"
        /\ handle[q].version + 1 > meta'[grant[q]].version
        => Awaits(grant[q], handle[q].version + 1)
  <2>. SUFFICES ASSUME NEW q \in Procs, pc[q] = "upload", resp'[q].status = "ok",
                       handle[q].version + 1 > meta'[grant[q]].version
                PROVE  Awaits(grant[q], handle[q].version + 1)
    OBVIOUS
  <2>1. grant[q] \in Ids
    BY DEF TypeInv, TypeOK
  <2>2. resp'[q] = resp[q]
    BY <1>1 DEF Awaited
  <2>. QED  BY <2>1, <2>2 DEF BlobsInv, UploadInv
<1>. QED  BY <1>1, <1>2, <1>3, <1>4, <1>5 DEF BlobsInv, UploadInv

\* What was made of the version before leaves at most one successor.
LEMMA NotBeyondNext ==
  ASSUME TypeInv, KeysInv, DataInv
  PROVE  /\ \A r \in reqs : r.id \in Ids => r.version <= meta[r.id].version + 1
         /\ \A p \in Procs : pc[p] = "upload" =>
              handle[p].version + 1 <= meta[grant[p]].version + 1
PROOF
<1>. /\ meta \in [Ids -> Object] /\ handle \in [Procs -> Handle] /\ reqs \subseteq Requests
  BY DEF TypeInv, TypeOK
<1>1. ASSUME NEW r \in reqs, r.id \in Ids PROVE r.version <= meta[r.id].version + 1
  <2>1. r.version - 1 <= meta[r.id].version /\ r.version \in Nat /\ meta[r.id].version \in Nat
    BY <1>1, RequestFields DEF DataInv, PutInv, Sound, Follows
  <2>. QED  BY <2>1
<1>2. ASSUME NEW p \in Procs, pc[p] = "upload"
      PROVE  handle[p].version + 1 <= meta[grant[p]].version + 1
  <2>1. grant[p] \in Ids
    BY <1>2 DEF TypeInv, TypeOK
  <2>2. Held(p, handle[p], pc[p]) /\ handle[p].version \in Nat /\ meta[grant[p]].version \in Nat
    BY <2>1 DEF DataInv, HandleInv
  <2>3. CASE handle[p].id = NoId
    BY <2>2, <2>3 DEF Held
  <2>4. CASE handle[p].id # NoId
    <3>1. grant[p] = handle[p].id
      BY <1>2, <2>4 DEF KeysInv, GrantInv
    <3>2. handle[p].version <= meta[handle[p].id].version
      BY <2>2, <2>4 DEF Held, Follows
    <3>. QED  BY <2>2, <3>1, <3>2
  <2>. QED  BY <2>3, <2>4
<1>. QED  BY <1>1, <1>2

\* A stored version finds a blob; no other object loses one by it.
LEMMA StoreKeepsBlobs ==
  ASSUME TypeInv, KeysInv, DataInv, BlobsInv, NEW r \in reqs, ServeStore(r)
  PROVE  BlobsInv'
PROOF
<1>. /\ resp \in [Procs -> Response] /\ meta \in [Ids -> Object] /\ reqs \subseteq Requests
     /\ r.from \in Procs /\ r.version \in Nat /\ r.id \in Ids \cup {NoId}
     /\ handle \in [Procs -> Handle] /\ blobs \subseteq Version
  BY RequestFields DEF TypeInv, TypeOK
<1>0. PICK i \in Ids :
        /\ IF r.id = NoId THEN meta[i].status = "absent"
                          ELSE i = r.id /\ r.version = meta[i].version + 1
        /\ meta' = [meta EXCEPT ![i] = [status |-> "active", version |-> r.version,
                                        key |-> r.key, inline |-> r.kind = "put",
                                        content |-> r.content]]
        /\ versions' = versions \cup
             {[id |-> i, version |-> r.version, key |-> r.key, content |-> r.content]}
        /\ Answer(r, "ok", i, r.version)
        /\ blobs' \in {blobs, blobs \ OldBlobs(i)}
  BY DEF ServeStore
<1>1. /\ UNCHANGED <<placement, handle, pc, grant>> /\ reqs' = reqs \ {r}
      /\ \A q \in Procs : resp'[q] = resp[q] \/ (q = r.from /\ Awaited(r))
  BY <1>0 DEF Answer
<1>2. /\ meta'[i].version = r.version /\ meta'[i].key = r.key
      /\ meta'[i].inline = (r.kind = "put")
      /\ \A j \in Ids \ {i} : meta'[j] = meta[j]
  BY <1>0
<1>3. r.version = meta[i].version + 1 /\ (r.kind = "confirm" => r.id = i)
  <2>1. CASE r.id = NoId
    <3>1. r.version = 1
      BY <2>1 DEF DataInv, PutInv, Sound
    <3>2. meta[i].version = 0
      BY <1>0, <2>1 DEF DataInv, StoreInv
    <3>3. r.kind # "confirm"
      BY <2>1, RequestFields
    <3>. QED  BY <3>1, <3>2, <3>3
  <2>2. CASE r.id # NoId
    BY <1>0, <2>2
  <2>. QED  BY <2>1, <2>2
\* A blob of another object, or of a later version of i, is still there, and if no
\* version encrypted it none does now.
<1>4. ASSUME NEW j \in Ids, NEW v \in Nat, j = i => v > meta[i].version,
             NEW b \in BlobsAt(j, v)
      PROVE  b \in BlobsAt(j, v)'
  <2>1. b \in blobs /\ Place(b.id, b.version) = Place(j, v) /\ b.version \in Nat
    BY DEF BlobsAt
  <2>2. b.id = j /\ (placement = "perVersion" => b.version = v)
    BY <2>1, SamePlace
  <2>3. b \notin OldBlobs(i)
    BY <1>4, <2>1, <2>2 DEF OldBlobs
  <2>4. b \in blobs'
    BY <1>0, <2>1, <2>3
  <2>. QED  BY <1>1, <2>1, <2>4 DEF BlobsAt, Place
<1>5. ASSUME NEW j \in Ids \ {i}, NEW v \in Nat, NEW b \in BlobsAt(j, v)
      PROVE  b.key # r.key
  <2>1. b \in blobs /\ Place(b.id, b.version) = Place(j, v)
    BY DEF BlobsAt
  <2>2. b.id = j
    BY <2>1, SamePlace
  <2>3. b.key = r.key => r.kind = "confirm" /\ b.id = r.id
    BY <2>1 DEF KeysInv, BlobInv
  <2>. QED  BY <1>3, <2>2, <2>3
<1>6. \A k : (\A x \in versions : x.key # k) /\ k # r.key => \A x \in versions' : x.key # k
  BY <1>0
<1>7. StoredVersionHasABlob'
  <2>. SUFFICES ASSUME NEW j \in Ids, meta'[j].status = "active", ~meta'[j].inline
                PROVE  \E b \in BlobsAt(j, meta[j].version)' :
                         b.key = meta'[j].key \/ \A x \in versions' : x.key # b.key
    BY Zenon DEF StoredVersionHasABlob
  <2>1. CASE j = i
    <3>1. r.kind = "confirm"
      <4>1. r.kind \in {"put", "confirm"}
        BY DEF ServeStore
      <4>. QED  BY <1>2, <2>1, <4>1
    <3>2. PICK b \in BlobsAt(i, r.version) : \A x \in versions : x.key # b.key
      <4>1. r.id = i /\ r.version > meta[i].version
        BY <1>3, <3>1
      <4>. QED  BY <3>1, <4>1 DEF BlobsInv, UploadInv, Awaits
    <3>3. b \in BlobsAt(i, r.version)'
      <4>1. r.version > meta[i].version
        BY <1>3
      <4>. QED  BY <1>4, <3>2, <4>1
    <3>4. b \in BlobsAt(j, meta[j].version)'
      BY <1>2, <2>1, <3>3 DEF BlobsAt, Place
    <3>5. b.key = meta'[j].key \/ \A x \in versions' : x.key # b.key
      BY <1>2, <1>6, <2>1, <3>2
    <3>. QED  BY <3>4, <3>5
  <2>2. CASE j # i
    <3>1. meta'[j] = meta[j] /\ meta[j].version \in Nat
      BY <1>2, <2>2
    <3>2. PICK b \in BlobsAt(j, meta[j].version) :
            b.key = meta[j].key \/ \A x \in versions : x.key # b.key
      BY <3>1 DEF BlobsInv, StoredVersionHasABlob
    <3>3. b.key # r.key
      BY <1>5, <2>2, <3>1
    <3>. DEFINE v == meta[j].version
    <3>4. b \in BlobsAt(j, v)'
      <4>1. b \in blobs /\ Place(b.id, b.version) = Place(j, v)
        BY DEF BlobsAt
      <4>2. b.id = j
        BY <4>1, SamePlace
      <4>3. b \in blobs'
        BY <1>0, <2>2, <4>1, <4>2 DEF OldBlobs
      <4>. QED  BY <1>1, <3>1, <4>1, <4>3 DEF BlobsAt, Place
    <3>. QED  BY <1>6, <3>1, <3>2, <3>3, <3>4
  <2>. QED  BY <2>1, <2>2
<1>8. ASSUME NEW j \in Ids, NEW v \in Nat, v > meta'[j].version, v <= meta[j].version + 1, Awaits(j, v)
      PROVE  Awaits(j, v)'
  <2>1. j # i /\ meta[j].version \in Nat
    BY <1>2, <1>3, <1>8
  <2>2. PICK b \in BlobsAt(j, v) : \A x \in versions : x.key # b.key
    BY <1>8 DEF Awaits
  <2>3. b \in BlobsAt(j, v)' /\ b.key # r.key
    BY <1>4, <1>5, <2>1
  <2>. QED  BY <1>6, <2>2, <2>3 DEF Awaits
<1>9. \A x \in reqs' : x.kind = "confirm" /\ x.version > meta'[x.id].version =>
        Awaits(x.id, x.version)'
  <2>. SUFFICES ASSUME NEW x \in reqs', x.kind = "confirm", x.version > meta'[x.id].version
                PROVE  Awaits(x.id, x.version)'
    OBVIOUS
  <2>1. x \in reqs /\ x.id \in Ids /\ x.version \in Nat /\ x.version <= meta[x.id].version + 1
    BY <1>1, RequestFields, NotBeyondNext
  <2>2. x.version > meta[x.id].version
    <3>1. CASE x.id = i
      <4>1. x.version > r.version /\ meta[i].version \in Nat
        BY <1>2, <3>1
      <4>. QED  BY <1>3, <2>1, <3>1, <4>1
    <3>2. CASE x.id # i
      BY <1>2, <2>1, <3>2
    <3>. QED  BY <3>1, <3>2
  <2>3. Awaits(x.id, x.version)
    BY <2>1, <2>2 DEF BlobsInv, UploadInv
  <2>. QED  BY <1>8, <2>1, <2>3
<1>10. \A q \in Procs : pc[q] = "upload" /\ resp'[q].status = "ok"
         /\ handle[q].version + 1 > meta'[grant[q]].version
         => Awaits(grant[q], handle[q].version + 1)'
  <2>. SUFFICES ASSUME NEW q \in Procs, pc[q] = "upload", resp'[q].status = "ok",
                       handle[q].version + 1 > meta'[grant[q]].version
                PROVE  Awaits(grant[q], handle[q].version + 1)'
    OBVIOUS
  <2>1. /\ grant[q] \in Ids /\ handle[q].version + 1 \in Nat
        /\ handle[q].version + 1 <= meta[grant[q]].version + 1
    BY NotBeyondNext DEF TypeInv, TypeOK
  <2>2. resp'[q] = resp[q]
    <3>1. r.kind # "upload"
      BY DEF ServeStore
    <3>. QED  BY <1>1, <3>1 DEF Awaited
  <2>3. handle[q].version + 1 > meta[grant[q]].version
    BY <1>2, <1>3, <2>1
  <2>4. Awaits(grant[q], handle[q].version + 1)
    BY <2>2, <2>3 DEF BlobsInv, UploadInv
  <2>5. PICK j \in Ids, v \in Nat : j = grant[q] /\ v = handle[q].version + 1
    BY <2>1
  <2>6. Awaits(j, v)'
    BY <1>8, <2>1, <2>4, <2>5
  <2>. QED  BY <1>1, <2>5, <2>6 DEF Awaits, BlobsAt, Place
<1>11. UploadInv'
  BY <1>1, <1>9, <1>10 DEF UploadInv
<1>. QED  BY <1>7, <1>11 DEF BlobsInv

-----------------------------------------------------------------------------
(* The invariant, and what follows from it.                                *)

LEMMA InvInit == Init => IInv
PROOF
  BY TypeInit, KeysInit, DataInit, BlobsInit DEF IInv

LEMMA ServeStep ==
  ASSUME IInv, NEW r \in reqs,
         ServeRequest(r) \/ ServeUpload(r) \/ ServeStore(r) \/ ServeConflict(r) \/ Refuse(r)
  PROVE  IInv'
PROOF
<1>. /\ r.from \in Procs /\ r.version \in Nat /\ r.id \in Ids \cup {NoId} /\ meta \in [Ids -> Object]
     /\ TypeInv /\ KeysInv /\ DataInv /\ BlobsInv
  BY RequestFields DEF IInv, TypeInv, TypeOK
<1>1. TypeInv' /\ KeysInv'
  BY ServeType, ServeKeys
<1>2. CASE ServeStore(r)
  BY <1>1, <1>2, StoreKeepsData, StoreKeepsBlobs DEF IInv
<1>3. CASE ServeUpload(r)
  <2>1. DataInv'
    BY <1>3, AnswerKeepsData DEF ServeUpload
  <2>. QED  BY <1>1, <1>3, <2>1, UploadKeepsBlobs DEF IInv
<1>4. CASE ServeRequest(r)
  <2>1. PICK i \in Ids :
          /\ Answer(r, "ok", i, 0)
          /\ \/ /\ meta[i].status = "absent"
                /\ meta' = [meta EXCEPT ![i].status = "reserved"]
             \/ meta' = meta
    BY <1>4 DEF ServeRequest
  <2>2. \A j \in Ids : /\ UNCHANGED <<meta[j].version, meta[j].content, meta[j].key>>
                       /\ meta'[j].status = "active" <=> meta[j].status = "active"
                       /\ (meta'[j] = meta[j] \/ meta'[j].status # "active")
    <3>. SUFFICES ASSUME NEW j \in Ids
                  PROVE  /\ UNCHANGED <<meta[j].version, meta[j].content, meta[j].key>>
                         /\ meta'[j].status = "active" <=> meta[j].status = "active"
                         /\ (meta'[j] = meta[j] \/ meta'[j].status # "active")
      OBVIOUS
    <3>1. CASE meta' = meta
      BY <3>1
    <3>2. CASE meta[i].status = "absent" /\ meta' = [meta EXCEPT ![i].status = "reserved"]
      <4>1. /\ UNCHANGED <<meta[j].version, meta[j].content, meta[j].key>>
            /\ IF j = i THEN meta'[j].status = "reserved" ELSE meta'[j] = meta[j]
        BY <3>2
      <4>. QED  BY <3>2, <4>1
    <3>. QED  BY <2>1, <3>1, <3>2
  <2>3. r.kind = "request" /\ UNCHANGED <<blobs, versions>>
    BY <1>4 DEF ServeRequest
  <2>4. DataInv'
    BY <2>1, <2>2, <2>3, AnswerKeepsData
  <2>5. BlobsInv'
    BY <2>1, <2>2, <2>3, AnswerKeepsBlobs
  <2>. QED  BY <1>1, <2>4, <2>5 DEF IInv
<1>5. ASSUME NEW status \in Statuses \ {"ok"}, Answer(r, status, r.id, 0),
             UNCHANGED <<meta, blobs, versions>>
      PROVE  IInv'
  <2>1. DataInv'
    BY <1>5, AnswerKeepsData
  <2>2. BlobsInv'
    BY <1>5, AnswerKeepsBlobs
  <2>. QED  BY <1>1, <2>1, <2>2 DEF IInv
<1>6. CASE ServeConflict(r)
  BY <1>5, <1>6 DEF ServeConflict
<1>7. CASE Refuse(r)
  BY <1>5, <1>7 DEF Refuse, BadStatuses
<1>. QED  BY <1>2, <1>3, <1>4, <1>6, <1>7

LEMMA InvStep == IInv /\ [Next]_vars => IInv'
PROOF
<1>. SUFFICES ASSUME IInv, [Next]_vars PROVE IInv'
  OBVIOUS
<1>1. CASE UNCHANGED vars
  <2>1. TypeInv' /\ GrantInv' /\ VersionInv'
    BY <1>1 DEF vars, IInv, TypeInv, TypeOK, ControlInv, KeysInv, GrantInv, VersionInv, Putting, Current
  <2>2. KeyInv' /\ RequestInv' /\ BlobInv'
    BY <1>1 DEF vars, IInv, KeysInv, KeyInv, RequestInv, BlobInv, Sent, Putting, Current, Target
  <2>3. DataInv'
    BY <1>1 DEF vars, IInv, DataInv, StoreInv, HandleInv, Held, PutInv, Sound, GotInv, Readable,
       AnswerInv, Done, NoLostUpdate
  <2>4. UploadInv'
    <3>1. ASSUME NEW j, NEW v PROVE Awaits(j, v)' <=> Awaits(j, v)
      BY <1>1 DEF vars, Awaits, BlobsAt, Place
    <3>2. UNCHANGED <<meta, reqs, pc, resp, grant, handle>>
      BY <1>1 DEF vars
    <3>3. \A r \in reqs : r.kind = "confirm" /\ r.version > meta[r.id].version =>
            Awaits(r.id, r.version)'
      BY <3>1 DEF IInv, BlobsInv, UploadInv
    <3>4. \A p \in Procs : /\ pc[p] = "upload" /\ resp[p].status = "ok"
                           /\ handle[p].version + 1 > meta[grant[p]].version
                           => Awaits(grant[p], handle[p].version + 1)
      BY DEF IInv, BlobsInv, UploadInv
    <3>. QED  BY <3>1, <3>2, <3>3, <3>4 DEF UploadInv
  <2>5. StoredVersionHasABlob'
    <3>. SUFFICES ASSUME NEW i \in Ids, meta[i].status = "active", ~meta[i].inline
                  PROVE  \E b \in BlobsAt(i, meta[i].version)' :
                           b.key = meta[i].key \/ \A x \in versions : x.key # b.key
      BY <1>1, Zenon DEF vars, StoredVersionHasABlob
    <3>1. BlobsAt(i, meta[i].version)' = BlobsAt(i, meta[i].version)
      BY <1>1 DEF vars, BlobsAt, Place
    <3>. QED  BY <3>1 DEF IInv, BlobsInv, StoredVersionHasABlob
  <2>. QED  BY <2>1, <2>2, <2>3, <2>4, <2>5 DEF IInv, KeysInv, BlobsInv
<1>2. ASSUME NEW p \in Procs, CallerStep(p) PROVE IInv'
  <2>1. TypeInv'
    BY <1>2, CallerType DEF IInv
  <2>. QED  BY <1>2, <2>1, CallerKeys, CallerData, CallerBlobs DEF IInv
<1>. QED  BY <1>1, <1>2, ServeStep DEF Next, ServerStep, Finished

LEMMA Invariant == Spec => []IInv
PROOF
  BY InvInit, InvStep, PTL DEF Spec

\* A Get of two requests, the metadata and then the blob, with any Puts between
\* them, fails or gives a version as it was stored.
THEOREM GetsAreVersions == Spec => []HandleIsAVersion
PROOF
<1>1. IInv => HandleIsAVersion
  BY DEF IInv, DataInv, HandleInv, Held, HandleIsAVersion
<1>. QED  BY <1>1, Invariant, PTL

\* Whichever uploads come late and wherever the server has its blobs, the place of
\* a visible large version is never empty, and its blob is replaced only by that
\* of a Put whose version is not stored.
THEOREM BlobsAreThere == Spec => []StoredVersionHasABlob
PROOF
<1>1. IInv => StoredVersionHasABlob
  BY DEF IInv, BlobsInv
<1>. QED  BY <1>1, Invariant, PTL

\* No update a caller was told of is overwritten, in one request or three.
THEOREM UpdatesAreKept == Spec => []NoLostUpdate
PROOF
<1>1. IInv => NoLostUpdate
  BY DEF IInv, DataInv
<1>. QED  BY <1>1, Invariant, PTL

\* A Put that returns ErrUnauthorized or ErrRateLimited, from any of its requests,
\* has stored nothing and never will.
THEOREM RefusedIsNotStored == Spec => RefusedPutsStoreNothing
PROOF
<1>. DEFINE Refused(p) == /\ pc[p] \notin {"idle", "fetch"} /\ pc'[p] = "idle"
                          /\ ret'[p] \in {"unauthorized", "rateLimited"}
            Step == \A p \in Procs : Refused(p) =>
                      \A v \in versions' \cup {r \in reqs' : r.kind \in {"put", "confirm"}} :
                        v.key # KeyOf(p, calls[p])
<1>1. IInv /\ [Next]_vars => Step
  <2>. SUFFICES ASSUME IInv, [Next]_vars, NEW p \in Procs, Refused(p)
                PROVE  \A v \in versions' \cup reqs' : v.key # KeyOf(p, calls[p])
    OBVIOUS
  <2>. pc \in [Procs -> Stages] /\ ret \in [Procs -> Errors \cup {"ok", "none"}]
    BY DEF IInv, TypeInv, TypeOK, Stages
  <2>1. ~UNCHANGED vars
    BY DEF vars
  <2>2. \A r \in reqs :
          ~(ServeRequest(r) \/ ServeUpload(r) \/ ServeStore(r) \/ ServeConflict(r) \/ Refuse(r))
    BY DEF ServeRequest, ServeUpload, ServeStore, ServeConflict, Refuse, Answer
  <2>3. ASSUME NEW q \in Procs, CallerStep(q) PROVE PutRefused(p)
    <3>1. q = p
      BY <2>3 DEF CallerStep, Proceed, Put, PutAborts, GetMetadata, Granted, Uploaded, Send, Stored,
         PutRefused, GiveUp, FetchBlob, FetchFails, GetReturns, Return
    <3>. QED  BY <2>3, <3>1 DEF CallerStep, Proceed, Put, PutAborts, GetMetadata, Granted, Uploaded,
         Send, Stored, PutRefused, GiveUp, FetchBlob, FetchFails, GetReturns, Return
  <2>4. PutRefused(p)
    BY <2>1, <2>2, <2>3 DEF Next, ServerStep, Finished
  <2>5. /\ resp[p].status \notin {"none", "ok"} /\ Putting(p)
        /\ UNCHANGED <<reqs, versions>>
    BY <2>4 DEF PutRefused, Putting
  <2>6. \A v \in versions \cup reqs : v.key # Current(p)
    BY <2>5 DEF IInv, KeysInv, VersionInv, RequestInv
  <2>. QED  BY <2>5, <2>6 DEF Current
<1>. QED  BY <1>1, Invariant, PTL DEF Spec, RefusedPutsStoreNothing

-----------------------------------------------------------------------------
(* The visible objects are atomic.                                         *)

LEMMA StoreIsAtomic ==
  ASSUME IInv, NEW r \in reqs, ServeStore(r)
  PROVE  Atomic!Next
PROOF
<1>. /\ meta \in [Ids -> Object] /\ r.from \in Procs /\ r.version \in Nat /\ r.content \in Content
     /\ DataInv /\ TypeInv
  BY RequestFields DEF IInv, TypeInv, TypeOK
<1>0. PICK i \in Ids :
        /\ IF r.id = NoId THEN meta[i].status = "absent"
                          ELSE i = r.id /\ r.version = meta[i].version + 1
        /\ meta' = [meta EXCEPT ![i] = [status |-> "active", version |-> r.version,
                                        key |-> r.key, inline |-> r.kind = "put",
                                        content |-> r.content]]
  BY DEF ServeStore
<1>1. /\ r.version = meta[i].version + 1 /\ r.content[r.from] > meta[i].content[r.from]
      /\ \A q \in Procs \ {r.from} : r.content[q] = meta[i].content[q]
  <2>1. Sound(r)
    BY DEF DataInv, PutInv
  <2>2. CASE r.id = NoId
    <3>1. meta[i].version = 0 /\ \A q \in Procs : meta[i].content[q] = 0
      BY <1>0, <2>2 DEF DataInv, StoreInv
    <3>. QED  BY <2>1, <2>2, <3>1 DEF Sound
  <2>3. CASE r.id # NoId
    <3>1. i = r.id /\ r.version = meta[i].version + 1 /\ meta[i].version \in Nat
      BY <1>0, <2>3
    <3>2. Follows(r.from, r.version - 1, r.content, meta[i])
          /\ Adds(r.from, r.version - 1, r.content, meta[i])
      BY <2>1, <2>3, <3>1 DEF Sound
    <3>. QED  BY <3>1, <3>2 DEF Follows, Adds
  <2>. QED  BY <2>2, <2>3
<1>2. r.content = [meta[i].content EXCEPT ![r.from] = r.content[r.from]]
  <2>1. meta[i].content \in Content
    OBVIOUS
  <2>. QED  BY <1>1, <2>1
<1>3. /\ Visible'[i] = [status |-> "active", version |-> r.version, content |-> r.content]
      /\ \A j \in Ids \ {i} : Visible'[j] = Visible[j]
  BY <1>0 DEF Visible
<1>4. Visible' = [Visible EXCEPT ![i] = Visible'[i]]
  <2>1. Visible = [j \in Ids |-> Visible[j]]
    BY DEF Visible
  <2>2. Visible' = [j \in Ids |-> Visible'[j]]
    BY DEF Visible
  <2>. HIDE DEF Visible
  <2>. QED  BY <1>3, <2>1, <2>2
<1>5. /\ Visible[i].version = meta[i].version /\ Visible[i].content = meta[i].content
      /\ Visible[i].status \in {"active", "absent"}
  BY DEF Visible
<1>. HIDE DEF Visible
<1>6. Atomic!Mutates(r.from, i)
  BY <1>1, <1>2, <1>3, <1>4, <1>5 DEF Atomic!Mutates
<1>. QED  BY <1>5, <1>6 DEF Atomic!Next, Atomic!Create, Atomic!Modify

\* Three requests and two stores together are one atomic read-modify-write.
THEOREM LargePutsAreAtomic == Spec => IsAtomic
PROOF
<1>1. Init => Atomic!Init
  BY DEF Init, Atomic!Init, Visible, Absent, Zero, Atomic!Absent
<1>2. IInv /\ [Next]_vars => [Atomic!Next]_Visible
  <2>. SUFFICES ASSUME IInv, [Next]_vars PROVE Atomic!Next \/ Visible' = Visible
    OBVIOUS
  <2>1. ASSUME meta' = meta PROVE Visible' = Visible
    BY <2>1 DEF Visible
  <2>2. ASSUME NEW r \in reqs,
               ServeRequest(r) \/ ServeUpload(r) \/ ServeStore(r) \/ ServeConflict(r) \/ Refuse(r)
        PROVE  Atomic!Next \/ Visible' = Visible
    <3>1. CASE ServeRequest(r)
      <4>1. meta \in [Ids -> Object]
        BY DEF IInv, TypeInv, TypeOK
      <4>2. CASE meta' = meta
        BY <2>1, <4>2
      <4>3. ASSUME NEW i \in Ids, meta[i].status = "absent",
                   meta' = [meta EXCEPT ![i].status = "reserved"]
            PROVE  Visible' = Visible
        BY <4>1, <4>3 DEF Visible
      <4>. QED  BY <3>1, <4>2, <4>3 DEF ServeRequest
    <3>2. CASE ServeStore(r)
      BY <3>2, StoreIsAtomic
    <3>3. CASE ServeUpload(r) \/ ServeConflict(r) \/ Refuse(r)
      BY <2>1, <3>3 DEF ServeUpload, ServeConflict, Refuse
    <3>. QED  BY <2>2, <3>1, <3>2, <3>3
  <2>3. ASSUME NEW p \in Procs, CallerStep(p) PROVE meta' = meta
    BY <2>3 DEF CallerStep, Proceed, Put, PutAborts, GetMetadata, Granted, Uploaded, Send, Stored,
       PutRefused, GiveUp, FetchBlob, FetchFails, GetReturns
  <2>. QED  BY <2>1, <2>2, <2>3 DEF Next, ServerStep, Finished, vars
<1>. QED  BY <1>1, <1>2, Invariant, PTL DEF Spec, IsAtomic, Atomic!Spec

\* The same of what is visible of large objects: a version whose three requests
\* overlapped with those of others is never undone, nor changed under its number.
THEOREM VisibleGoesForward == Spec => [][Atomic!Forward]_Visible
PROOF
<1>. QED  BY LargePutsAreAtomic, Atomic!NothingIsUndone, PTL DEF IsAtomic

-----------------------------------------------------------------------------
(* The versions of an object.                                              *)

\* The stored versions of an object are numbered up to the visible one.
LedgerInv ==
  /\ \A v \in versions : v.version <= meta[v.id].version
  /\ \A v, w \in versions : v.id = w.id /\ v.version = w.version => v = w
  /\ \A v, w \in versions : v.key = w.key => v = w

LEMMA StoreKeepsLedger ==
  ASSUME IInv, LedgerInv, NEW r \in reqs, ServeStore(r)
  PROVE  LedgerInv'
PROOF
<1>. /\ meta \in [Ids -> Object] /\ versions \subseteq Version /\ r.version \in Nat
     /\ DataInv /\ KeysInv
  BY RequestFields DEF IInv, TypeInv, TypeOK
<1>0. PICK i \in Ids :
        /\ IF r.id = NoId THEN meta[i].status = "absent"
                          ELSE i = r.id /\ r.version = meta[i].version + 1
        /\ meta' = [meta EXCEPT ![i] = [status |-> "active", version |-> r.version,
                                        key |-> r.key, inline |-> r.kind = "put",
                                        content |-> r.content]]
        /\ versions' = versions \cup
             {[id |-> i, version |-> r.version, key |-> r.key, content |-> r.content]}
  BY DEF ServeStore
<1>1. PICK n : n = [id |-> i, version |-> r.version, key |-> r.key, content |-> r.content]
  OBVIOUS
<1>2. r.version = meta[i].version + 1
  <2>1. CASE r.id = NoId
    <3>1. r.version = 1 /\ meta[i].version = 0
      BY <1>0, <2>1 DEF DataInv, PutInv, Sound, StoreInv
    <3>. QED  BY <3>1
  <2>. QED  BY <1>0, <2>1
<1>3. meta'[i].version = r.version /\ \A j \in Ids \ {i} : meta'[j] = meta[j]
  BY <1>0
<1>4. \A v \in versions : v.id \in Ids /\ v.version \in Nat /\ (v.id = i => v.version < n.version)
  BY <1>1, <1>2 DEF LedgerInv
<1>5. \A v \in versions : v.key # n.key
  BY <1>1 DEF KeysInv, RequestInv
<1>6. n.id = i /\ n.version = r.version
  BY <1>1
<1>7. versions' = versions \cup {n}
  BY <1>0, <1>1
<1>8. \A v \in versions' : v.version <= meta'[v.id].version
  <2>. SUFFICES ASSUME NEW v \in versions' PROVE v.version <= meta'[v.id].version
    OBVIOUS
  <2>1. CASE v = n
    BY <1>3, <1>6, <2>1
  <2>2. CASE v \in versions /\ v.id = i
    BY <1>3, <1>4, <1>6, <2>2
  <2>3. CASE v \in versions /\ v.id # i
    BY <1>3, <1>4, <2>3 DEF LedgerInv
  <2>. QED  BY <1>7, <2>1, <2>2, <2>3
<1>9. \A v, w \in versions' : v.id = w.id /\ v.version = w.version => v = w
  BY <1>4, <1>6, <1>7 DEF LedgerInv
<1>10. \A v, w \in versions' : v.key = w.key => v = w
  BY <1>5, <1>7 DEF LedgerInv
<1>. QED  BY <1>8, <1>9, <1>10 DEF LedgerInv

\* A version of an object is made by one Put, and a Put makes one version.
VersionsAreUnique ==
  \A v, w \in versions :
    \/ v = w
    \/ v.key # w.key /\ ~(v.id = w.id /\ v.version = w.version)

\* No two Puts ever store the same version of an object, whichever of their requests
\* overlap, and no Put stores two: with HandleIsAVersion, an id and a version number
\* mean one content (the version checks Put asks for in put.go).
THEOREM VersionsAreMadeOnce == Spec => []VersionsAreUnique
PROOF
<1>1. Init => LedgerInv
  BY DEF Init, LedgerInv
<1>2. IInv /\ LedgerInv /\ [Next]_vars => LedgerInv'
  <2>. SUFFICES ASSUME IInv, LedgerInv, [Next]_vars PROVE LedgerInv'
    OBVIOUS
  <2>. meta \in [Ids -> Object] /\ versions \subseteq Version
    BY DEF IInv, TypeInv, TypeOK
  <2>0. ASSUME versions' = versions, \A i \in Ids : meta'[i].version = meta[i].version
        PROVE  LedgerInv'
    BY <2>0 DEF LedgerInv
  <2>1. ASSUME NEW r \in reqs, ServeRequest(r) PROVE LedgerInv'
    <3>1. meta' = meta \/ \E i \in Ids : meta' = [meta EXCEPT ![i].status = "reserved"]
      BY <2>1 DEF ServeRequest
    <3>2. \A i \in Ids : meta'[i].version = meta[i].version
      BY <3>1
    <3>. QED  BY <2>0, <2>1, <3>2 DEF ServeRequest
  <2>2. ASSUME NEW r \in reqs, ServeStore(r) PROVE LedgerInv'
    BY <2>2, StoreKeepsLedger
  <2>3. ASSUME NEW r \in reqs, ServeUpload(r) \/ ServeConflict(r) \/ Refuse(r) PROVE LedgerInv'
    BY <2>0, <2>3 DEF ServeUpload, ServeConflict, Refuse
  <2>4. ASSUME NEW p \in Procs, CallerStep(p) PROVE UNCHANGED <<meta, versions>>
    BY <2>4 DEF CallerStep, Proceed, Put, PutAborts, GetMetadata, Granted, Uploaded, Send, Stored,
       PutRefused, GiveUp, FetchBlob, FetchFails, GetReturns
  <2>. QED  BY <2>0, <2>1, <2>2, <2>3, <2>4 DEF Next, ServerStep, Finished, vars
<1>3. LedgerInv => VersionsAreUnique
  BY DEF LedgerInv, VersionsAreUnique
<1>. QED  BY <1>1, <1>2, <1>3, Invariant, PTL DEF Spec

-----------------------------------------------------------------------------
(* How far a call can go.                                                  *)

\* The requests a call still waits for.
Distance(p) ==
  CASE pc[p] = "request" -> 3
    [] pc[p] = "upload" -> 2
    [] pc[p] \in {"put", "confirm", "fetch"} -> 1
    [] OTHER -> 0

Advance(p) == pc[p] # "idle" => pc'[p] = pc[p] \/ Distance(p)' < Distance(p)

\* A large Put is over after three requests and a large Get after two: no step of
\* the server or of another caller sends a call back (APIClient.Put in api.go).
THEOREM CallsOnlyAdvance == Spec => [][\A p \in Procs : Advance(p)]_vars
PROOF
<1>1. IInv /\ [Next]_vars => [\A p \in Procs : Advance(p)]_vars
  <2>. SUFFICES ASSUME IInv, Next, NEW q \in Procs, pc[q] # "idle", pc'[q] # pc[q]
                PROVE  Distance(q)' < Distance(q)
    BY DEF Advance
  <2>. pc \in [Procs -> Stages]
    BY DEF IInv, TypeInv, TypeOK, Stages
  <2>0. ASSUME pc'[q] = "idle" PROVE Distance(q)' < Distance(q)
    BY <2>0 DEF Distance, Stages
  <2>1. ASSUME NEW r \in reqs,
               ServeRequest(r) \/ ServeUpload(r) \/ ServeStore(r) \/ ServeConflict(r) \/ Refuse(r)
        PROVE  pc' = pc
    BY <2>1 DEF ServeRequest, ServeUpload, ServeStore, ServeConflict, Refuse, Answer
  <2>2. ASSUME NEW p \in Procs, CallerStep(p) PROVE Distance(q)' < Distance(q)
    <3>1. CASE Granted(p) \/ Uploaded(p)
      <4>1. \/ pc[q] = "request" /\ pc'[q] = "upload"
            \/ pc[q] = "upload" /\ pc'[q] = "confirm"
        BY <3>1 DEF Granted, Uploaded, Send
      <4>. QED  BY <4>1 DEF Distance
    <3>2. CASE Stored(p) \/ PutRefused(p) \/ GiveUp(p) \/ FetchBlob(p) \/ FetchFails(p)
      <4>1. PICK err : Return(p, err)
        BY <3>2 DEF Stored, PutRefused, GiveUp, FetchBlob, FetchFails, GetReturns
      <4>2. pc'[q] = "idle"
        BY <4>1 DEF Return
      <4>. QED  BY <2>0, <4>2
    <3>3. CASE \/ \E size \in Sizes : Put(p, size)
               \/ PutAborts(p)
               \/ \E i \in Ids : GetMetadata(p, i)
      BY <3>3 DEF Put, PutAborts, GetMetadata
    <3>. QED  BY <2>2, <3>1, <3>2, <3>3 DEF CallerStep, Proceed
  <2>. QED  BY <2>1, <2>2 DEF Next, ServerStep, Finished, vars
<1>. QED  BY <1>1, Invariant, PTL DEF Spec

\* A Put that waits has its answer, or the request it waits for is on its way.
Answerable ==
  \A p \in Procs : Putting(p) => \/ resp[p].status # "none"
                                 \/ \E r \in reqs : r.from = p /\ Awaited(r)

LEMMA AnswerableCaller ==
  ASSUME IInv, Answerable, NEW p \in Procs, CallerStep(p)
  PROVE  Answerable'
PROOF
<1>. /\ pc \in [Procs -> Stages] /\ calls \in [Procs -> Nat]
     /\ resp \in [Procs -> Response]
  BY DEF IInv, TypeInv, TypeOK, Stages
<1>0. ASSUME NEW q \in Procs, UNCHANGED <<pc[q], calls[q], resp[q]>>, reqs \subseteq reqs', Putting(q)'
      PROVE  \/ resp'[q].status # "none"
             \/ \E r \in reqs' : r.from = q /\ Awaited(r)'
  BY <1>0 DEF Answerable, Awaited, Putting
<1>1. ASSUME NEW r, r \in reqs', r.from = p, pc'[p] = r.kind, calls'[p] = r.call, reqs \subseteq reqs',
             \A q \in Procs \ {p} : UNCHANGED <<pc[q], calls[q], resp[q]>>
      PROVE  Answerable'
  <2>1. Awaited(r)'
    BY <1>1 DEF Awaited
  <2>. QED  BY <1>0, <1>1, <2>1 DEF Answerable
<1>2. ASSUME ~Putting(p)', reqs \subseteq reqs',
             \A q \in Procs \ {p} : UNCHANGED <<pc[q], calls[q], resp[q]>>
      PROVE  Answerable'
  BY <1>0, <1>2 DEF Answerable
<1>3. ASSUME NEW size \in Sizes, Put(p, size) PROVE Answerable'
  <2>. DEFINE h == Mutated(handle[p], p)
              kind == IF size = "small" THEN "put" ELSE "request"
  <2>1. PICK r : r = Request(p, kind, h.id, h, calls[p] + 1)
    OBVIOUS
  <2>2. r.from = p /\ r.kind = kind /\ r.call = calls[p] + 1
    BY <2>1 DEF Request
  <2>3. /\ reqs' = reqs \cup {r} /\ pc' = [pc EXCEPT ![p] = kind]
        /\ calls' = [calls EXCEPT ![p] = calls[p] + 1] /\ resp' = resp
    BY <1>3, <2>1 DEF Put
  <2>. HIDE DEF h, kind
  <2>. QED  BY <1>1, <2>2, <2>3
<1>4. ASSUME NEW kind, NEW i, Send(p, kind, i) PROVE Answerable'
  <2>1. PICK r : r = Request(p, kind, i, handle[p], calls[p])
    OBVIOUS
  <2>2. r.from = p /\ r.kind = kind /\ r.call = calls[p]
    BY <2>1 DEF Request
  <2>3. /\ reqs' = reqs \cup {r} /\ pc' = [pc EXCEPT ![p] = kind]
        /\ calls' = calls /\ resp' = [resp EXCEPT ![p] = NoResp]
    BY <1>4, <2>1 DEF Send
  <2>. QED  BY <1>1, <2>2, <2>3
<1>5. ASSUME NEW err, Return(p, err), calls' = calls, reqs' = reqs PROVE Answerable'
  BY <1>2, <1>5 DEF Return, Putting
<1>6. CASE Stored(p) \/ PutRefused(p) \/ GiveUp(p) \/ FetchBlob(p) \/ FetchFails(p)
  <2>1. PICK err : Return(p, err)
    BY <1>6 DEF Stored, PutRefused, GiveUp, FetchBlob, FetchFails, GetReturns
  <2>2. calls' = calls /\ reqs' = reqs
    BY <1>6 DEF Stored, PutRefused, GiveUp, FetchBlob, FetchFails, GetReturns
  <2>. QED  BY <1>5, <2>1, <2>2
<1>7. CASE PutAborts(p) \/ \E i \in Ids : GetMetadata(p, i)
  <2>1. ~Putting(p)' /\ reqs' = reqs /\ \A q \in Procs \ {p} : UNCHANGED <<pc[q], calls[q], resp[q]>>
    BY <1>7 DEF PutAborts, GetMetadata, Putting
  <2>. QED  BY <1>2, <2>1
<1>. QED  BY <1>3, <1>4, <1>6, <1>7 DEF CallerStep, Proceed, Granted, Uploaded

\* No Put waits for an answer that cannot come: each of its three requests is
\* sent before it waits, and is answered to the stage and call that sent it.
THEOREM NobodyWaitsInVain == Spec => []Answerable
PROOF
<1>1. Init => Answerable
  BY DEF Init, Answerable, Putting
<1>2. IInv /\ Answerable /\ [Next]_vars => Answerable'
  <2>. SUFFICES ASSUME IInv, Answerable, [Next]_vars PROVE Answerable'
    OBVIOUS
  <2>1. ASSUME NEW p \in Procs, CallerStep(p) PROVE Answerable'
    BY <2>1, AnswerableCaller
  <2>2. ASSUME NEW r \in reqs,
               ServeRequest(r) \/ ServeUpload(r) \/ ServeStore(r) \/ ServeConflict(r) \/ Refuse(r)
        PROVE  Answerable'
    <3>. resp \in [Procs -> Response] /\ r.from \in Procs
      BY RequestFields DEF IInv, TypeInv, TypeOK
    <3>1. PICK status, i, v : Answer(r, status, i, v) /\ status # "none"
      BY <2>2 DEF ServeRequest, ServeUpload, ServeStore, ServeConflict, Refuse, BadStatuses
    <3>2. /\ reqs' = reqs \ {r} /\ UNCHANGED <<pc, calls>>
          /\ Awaited(r) => resp'[r.from].status # "none"
          /\ \A q \in Procs : resp'[q] = resp[q] \/ (q = r.from /\ Awaited(r))
      BY <3>1 DEF Answer
    <3>. SUFFICES ASSUME NEW q \in Procs, Putting(q), resp'[q].status = "none"
                  PROVE  \E x \in reqs' : x.from = q /\ Awaited(x)'
      BY <3>2 DEF Answerable, Putting
    <3>3. resp'[q] = resp[q] /\ ~(q = r.from /\ Awaited(r))
      BY <3>2
    <3>4. PICK x \in reqs : x.from = q /\ Awaited(x)
      BY <3>3 DEF Answerable
    <3>5. x \in reqs' /\ Awaited(x)'
      BY <3>2, <3>3, <3>4 DEF Awaited
    <3>. QED  BY <3>4, <3>5
  <2>3. CASE UNCHANGED vars
    BY <2>3 DEF vars, Answerable, Awaited, Putting
  <2>. QED  BY <2>1, <2>2, <2>3 DEF Next, ServerStep, Finished
<1>. QED  BY <1>1, <1>2, Invariant, PTL DEF Spec

=============================================================================
