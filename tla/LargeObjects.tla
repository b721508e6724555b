---------------------------- MODULE LargeObjects ----------------------------
(***************************************************************************)
(* Put and Get of objects of any size.  An object below 100 KiB travels in *)
(* one request, as in GardbObjects.  A larger one is stored by three:      *)
(* request-put-large, which answers with an upload URL, the upload to S3,  *)
(* and confirm-put-large, which makes the version visible; and it is read  *)
(* by two: the metadata with a download URL, and the blob.                 *)
(*                                                                         *)
(* The server and S3 are outside this repository.  A confirmation names    *)
(* only the object and the version, so the server can tell two uploads     *)
(* apart by no more than that: it has one blob per version, or one per     *)
(* object.  Either may be the case.                                        *)
(*                                                                         *)
(* Every Put encrypts with a data key of its own; a key is named by the    *)
(* caller and the number of its call.  As in GardbObjects the content of   *)
(* an object is the number of mutations of each caller it carries.  Update *)
(* is a Get and a Put; Delete and Recover, which touch no blob, are left   *)
(* to GardbObjects.                                                        *)
(***************************************************************************)
EXTENDS Integers, FiniteSets

CONSTANTS
  Procs,       \* the goroutines that call the SDK
  Ids,         \* the object ids the server can assign
  NoId,        \* the empty GardbMeta.ID
  Sizes,       \* the sizes of the objects callers store
  Placements,  \* where the server may have blobs uploaded to
  MaxCalls,    \* bound: caller -> how many Puts it makes
  Lossy,       \* answers may be lost, calls time out or are cancelled
  Refusals     \* what may refuse a call: the schema, the enclave, the server and S3

ASSUME ConstantsOK ==
  /\ NoId \notin Ids
  /\ Sizes \subseteq {"small", "large"}
  /\ Placements \subseteq {"perVersion", "perObject"}
  /\ MaxCalls \in [Procs -> Nat]
  /\ Lossy \in BOOLEAN
  /\ Refusals \subseteq {"validation", "session", "unauthorized", "rateLimited", "unavailable"}

VARIABLES
  placement,  \* server: how it places blobs
  meta,       \* server: id -> what it knows of the object
  blobs,      \* S3: the blobs it holds
  reqs,       \* requests sent and not yet served
  resp,       \* caller -> the answer to the request it waits for
  handle,     \* caller -> the Go object it works on, with its GardbMeta
  pc,         \* caller -> where in Put or Get it is
  grant,      \* caller -> the id request-put-large answered with
  got,        \* caller -> the metadata its Get has read
  ret,        \* caller -> what its last call returned
  calls,      \* caller -> Puts made (the bound, and the name of a Put)
  acked,      \* history: caller -> id -> mutations it was told are stored
  versions    \* history: every version that was stored

vars == <<placement, meta, blobs, reqs, resp, handle, pc, grant, got, ret, calls, acked,
          versions>>

Zero == [q \in Procs |-> 0]
FreshObject == [id |-> NoId, version |-> 0, content |-> Zero]
NoResp == [status |-> "none", id |-> NoId, version |-> 0]
NoKey == <<NoId, 0>>

\* "content" is history: what the key of the stored version encrypts.
Absent == [status |-> "absent", version |-> 0, key |-> NoKey, inline |-> TRUE,
           content |-> Zero]

\* What Get learns of the object before it has the blob.
Metadata(i) == [id |-> i, version |-> meta[i].version, key |-> meta[i].key]
NoMetadata == [id |-> NoId, version |-> 0, key |-> NoKey]

Init ==
  /\ placement \in Placements
  /\ meta = [i \in Ids |-> Absent]
  /\ blobs = {}
  /\ reqs = {}
  /\ resp = [p \in Procs |-> NoResp]
  /\ handle = [p \in Procs |-> FreshObject]
  /\ pc = [p \in Procs |-> "idle"]
  /\ grant = [p \in Procs |-> NoId]
  /\ got = [p \in Procs |-> NoMetadata]
  /\ ret = [p \in Procs |-> "ok"]
  /\ calls = [p \in Procs |-> 0]
  /\ acked = [p \in Procs |-> [i \in Ids |-> 0]]
  /\ versions = {}

-----------------------------------------------------------------------------
(* Keys, requests and places.                                              *)

\* Mutant: a caller keeps one data key for all its objects.
KeyOfCaller(p, n) == <<p, 0>>

\* The data key GenerateDEK returns to the n-th Put of p.
KeyOf(p, n) == <<p, n>>

\* What Put sends for object i.  Only some of it is in each request; no other
\* request of the Put differs in the rest.
Request(p, kind, i, h, n) ==
  [kind |-> kind, from |-> p, id |-> i, version |-> h.version + 1,
   key |-> KeyOf(p, n), content |-> h.content, call |-> n]

\* Where the URLs for a version of object i point.
Place(i, v) == IF placement = "perObject" THEN <<i, 0>> ELSE <<i, v>>

BlobsAt(i, v) == {b \in blobs : Place(b.id, b.version) = Place(i, v)}

\* The sentinel error a bad status becomes: request-put-large knows only one.
ErrorOf(kind, status) ==
  IF kind # "request" /\ status \in {"unauthorized", "rateLimited"} THEN status ELSE "network"

\* The statuses the server and S3 refuse with.
BadStatuses == Refusals \ {"validation", "session"}

Mutated(h, p) == [h EXCEPT !.content[p] = @ + 1]

\* Mutant: the version is the one the server has when the data arrives.
LoadedLater(g, c) == [id |-> g.id, version |-> meta[g.id].version, content |-> c]

\* The object Get fills from metadata g and decrypted content c.
Loaded(g, c) == [id |-> g.id, version |-> g.version, content |-> c]

-----------------------------------------------------------------------------
(* Put.                                                                    *)

Return(p, err) ==
  /\ pc' = [pc EXCEPT ![p] = "idle"]
  /\ ret' = [ret EXCEPT ![p] = err]
  /\ resp' = [resp EXCEPT ![p] = NoResp]
  /\ grant' = [grant EXCEPT ![p] = NoId]

\* Bound: no more creations are asked for than the instance has ids.
IdsLeft == Cardinality({r \in reqs : r.id = NoId})
             < Cardinality({i \in Ids : meta[i].status = "absent"})

\* The caller changes its object and calls Put; the size of the encrypted
\* object decides which request comes first.
Put(p, size) ==
  LET h == Mutated(handle[p], p)
      n == calls[p] + 1
      kind == IF size = "small" THEN "put" ELSE "request"
  IN
  /\ pc[p] = "idle"
  /\ calls[p] < MaxCalls[p]
  /\ h.id = NoId => IdsLeft
  /\ calls' = [calls EXCEPT ![p] = n]
  /\ handle' = [handle EXCEPT ![p] = h]
  /\ reqs' = reqs \cup {Request(p, kind, h.id, h, n)}
  /\ pc' = [pc EXCEPT ![p] = kind]
  /\ ret' = [ret EXCEPT ![p] = "none"]
  /\ UNCHANGED <<placement, meta, blobs, resp, grant, got, acked, versions>>

\* Put fails before it sends anything.
PutAborts(p) ==
  /\ pc[p] = "idle"
  /\ calls[p] < MaxCalls[p]
  /\ calls' = [calls EXCEPT ![p] = @ + 1]
  /\ handle' = [handle EXCEPT ![p] = Mutated(@, p)]
  /\ \E err \in Refusals \cap {"validation", "session"} : ret' = [ret EXCEPT ![p] = err]
  /\ UNCHANGED <<placement, meta, blobs, reqs, resp, pc, grant, got, acked, versions>>

\* The next request of a large Put, about the object its first one was granted.
Send(p, kind, i) ==
  /\ reqs' = reqs \cup {Request(p, kind, i, handle[p], calls[p])}
  /\ pc' = [pc EXCEPT ![p] = kind]
  /\ resp' = [resp EXCEPT ![p] = NoResp]
  /\ grant' = [grant EXCEPT ![p] = i]
  /\ UNCHANGED <<placement, meta, blobs, handle, got, ret, calls, acked, versions>>

\* Mutant: the object keeps the id it had before the grant.
GrantedToHandle(p) ==
  /\ pc[p] = "request"
  /\ resp[p].status = "ok"
  /\ Send(p, "upload", handle[p].id)

\* request-put-large is answered: upload the encrypted object.
Granted(p) ==
  /\ pc[p] = "request"
  /\ resp[p].status = "ok"
  /\ Send(p, "upload", resp[p].id)

\* Mutant: the confirmation does not wait for the upload to succeed.
UploadedOrNot(p) ==
  /\ pc[p] = "upload"
  /\ resp[p].status # "none"
  /\ Send(p, "confirm", grant[p])

\* S3 has the blob: confirm.
Uploaded(p) ==
  /\ pc[p] = "upload"
  /\ resp[p].status = "ok"
  /\ Send(p, "confirm", grant[p])

\* Mutant: the version in hand is not refreshed.
StoredKeepsVersion(p) ==
  /\ pc[p] \in {"put", "confirm"}
  /\ resp[p].status = "ok"
  /\ LET i == IF pc[p] = "put" THEN resp[p].id ELSE grant[p] IN
       /\ handle' = [handle EXCEPT ![p].id = i]
       /\ acked' = [acked EXCEPT ![p][i] = handle[p].content[p]]
  /\ Return(p, "ok")
  /\ UNCHANGED <<placement, meta, blobs, reqs, got, calls, versions>>

\* The version is stored: fill GardbMeta and return.
Stored(p) ==
  /\ pc[p] \in {"put", "confirm"}
  /\ resp[p].status = "ok"
  /\ LET i == IF pc[p] = "put" THEN resp[p].id ELSE grant[p] IN
       /\ handle' = [handle EXCEPT ![p].id = i, ![p].version = resp[p].version]
       /\ acked' = [acked EXCEPT ![p][i] = handle[p].content[p]]
  /\ Return(p, "ok")
  /\ UNCHANGED <<placement, meta, blobs, reqs, got, calls, versions>>

\* Mutants: a refused request is sent again, or confirmed although it failed.
PutRefusedSendsAgain(p) ==
  /\ pc[p] \in {"put", "request", "upload", "confirm"}
  /\ resp[p].status \notin {"none", "ok"}
  /\ Send(p, pc[p], IF pc[p] \in {"put", "request"} THEN handle[p].id ELSE grant[p])
PutRefusedConfirms(p) ==
  /\ pc[p] \in {"put", "request", "upload", "confirm"}
  /\ resp[p].status \notin {"none", "ok"}
  /\ Return(p, ErrorOf(pc[p], resp[p].status))
  /\ reqs' = IF pc[p] = "upload"
               THEN reqs \cup {Request(p, "confirm", grant[p], handle[p], calls[p])}
               ELSE reqs
  /\ UNCHANGED <<placement, meta, blobs, handle, got, calls, acked, versions>>

\* A bad status, wherever Put is.
PutRefused(p) ==
  /\ pc[p] \in {"put", "request", "upload", "confirm"}
  /\ resp[p].status \notin {"none", "ok"}
  /\ Return(p, ErrorOf(pc[p], resp[p].status))
  /\ UNCHANGED <<placement, meta, blobs, reqs, handle, got, calls, acked, versions>>

\* No answer: the request may still be served.  A context that is done while
\* the confirmation is under way is reported as a network error.
GiveUp(p) ==
  /\ Lossy
  /\ pc[p] \in {"put", "request", "upload", "confirm"}
  /\ \E err \in {"network", "cancelled"} :
       /\ pc[p] = "confirm" => err = "network"
       /\ Return(p, err)
  /\ UNCHANGED <<placement, meta, blobs, reqs, handle, got, calls, acked, versions>>

-----------------------------------------------------------------------------
(* Get.                                                                    *)

\* objects/get answers.  A small object comes with it and is in hand; a Get
\* that fails here leaves no trace.
GetMetadata(p, i) ==
  /\ pc[p] = "idle"
  /\ meta[i].status = "active"
  /\ IF meta[i].inline
       THEN /\ handle' = [handle EXCEPT ![p] = Loaded(Metadata(i), meta[i].content)]
            /\ ret' = [ret EXCEPT ![p] = "ok"]
            /\ UNCHANGED <<pc, got>>
       ELSE /\ got' = [got EXCEPT ![p] = Metadata(i)]
            /\ pc' = [pc EXCEPT ![p] = "fetch"]
            /\ ret' = [ret EXCEPT ![p] = "none"]
            /\ UNCHANGED handle
  /\ UNCHANGED <<placement, meta, blobs, reqs, resp, grant, calls, acked, versions>>

\* A Get ends.
GetReturns(p, err) ==
  /\ Return(p, err)
  /\ got' = [got EXCEPT ![p] = NoMetadata]
  /\ UNCHANGED <<placement, meta, blobs, reqs, calls, acked, versions>>

\* The blob is there: decrypt it with the key from the metadata.
FetchBlob(p) ==
  /\ pc[p] = "fetch"
  /\ \E b \in BlobsAt(got[p].id, got[p].version) :
       \/ /\ b.key = got[p].key
          /\ handle' = [handle EXCEPT ![p] = Loaded(got[p], b.content)]
          /\ GetReturns(p, "ok")
       \/ /\ b.key # got[p].key
          /\ GetReturns(p, "encryption")
          /\ UNCHANGED handle

\* The blob is not there, S3 refuses or the transport fails; or the enclave does
\* not decrypt the data key, or the context ends that wait.
FetchFails(p) ==
  /\ pc[p] = "fetch"
  /\ \/ BlobsAt(got[p].id, got[p].version) = {} /\ GetReturns(p, "notFound")
     \/ \E status \in BadStatuses : GetReturns(p, ErrorOf("fetch", status))
     \/ Lossy /\ GetReturns(p, "network")
     \/ /\ BlobsAt(got[p].id, got[p].version) # {}
        /\ \/ Lossy /\ GetReturns(p, "cancelled")
           \/ "session" \in Refusals /\ GetReturns(p, "session")
  /\ UNCHANGED handle

-----------------------------------------------------------------------------
(* The server and S3.                                                      *)

\* The caller still waits for the answer to r.
Awaited(r) == pc[r.from] = r.kind /\ calls[r.from] = r.call

Answer(r, status, i, v) ==
  /\ reqs' = reqs \ {r}
  /\ resp' = IF Awaited(r)
               THEN [resp EXCEPT ![r.from] = [status |-> status, id |-> i, version |-> v]]
               ELSE resp
  /\ UNCHANGED <<placement, handle, pc, grant, got, ret, calls, acked>>

\* request-put-large: a new object gets its id, which stays reserved.
ServeRequest(r) ==
  /\ r.kind = "request"
  /\ \/ /\ r.id = NoId
        /\ \E i \in Ids :
             /\ meta[i].status = "absent"
             /\ meta' = [meta EXCEPT ![i].status = "reserved"]
             /\ Answer(r, "ok", i, 0)
     \/ /\ r.id # NoId
        /\ UNCHANGED meta
        /\ Answer(r, "ok", r.id, 0)
  /\ UNCHANGED <<blobs, versions>>

\* S3: the blob takes the place of the one that is there.
ServeUpload(r) ==
  /\ r.kind = "upload"
  /\ blobs' = (blobs \ BlobsAt(r.id, r.version))
                \cup {[id |-> r.id, version |-> r.version, key |-> r.key,
                       content |-> r.content]}
  /\ Answer(r, "ok", r.id, 0)
  /\ UNCHANGED <<meta, versions>>

\* The blobs of the versions of object i before the next one.
OldBlobs(i) ==
  {b \in blobs : placement = "perVersion" /\ b.id = i /\ b.version <= meta[i].version}

\* A version becomes visible, the successor of the stored one or the first, and
\* the blobs of older ones may be removed.
ServeStore(r) ==
  /\ r.kind \in {"put", "confirm"}
  /\ \E i \in Ids :
       /\ IF r.id = NoId THEN meta[i].status = "absent"
                         ELSE i = r.id /\ r.version = meta[i].version + 1
       /\ meta' = [meta EXCEPT ![i] = [status |-> "active", version |-> r.version,
                                       key |-> r.key, inline |-> r.kind = "put",
                                       content |-> r.content]]
       /\ versions' = versions \cup
            {[id |-> i, version |-> r.version, key |-> r.key, content |-> r.content]}
       /\ Answer(r, "ok", i, r.version)
       /\ blobs' \in {blobs, blobs \ OldBlobs(i)}

\* Another version was stored in the meantime.  The server may find that out
\* before the upload or only when the version is to be stored.
ServeConflict(r) ==
  /\ r.kind \in {"put", "request", "confirm"}
  /\ r.id # NoId
  /\ r.version # meta[r.id].version + 1
  /\ Answer(r, "conflict", r.id, 0)
  /\ UNCHANGED <<meta, blobs, versions>>

Refuse(r) ==
  /\ \E status \in BadStatuses : Answer(r, status, r.id, 0)
  /\ UNCHANGED <<meta, blobs, versions>>

ServerStep ==
  \E r \in reqs :
    ServeRequest(r) \/ ServeUpload(r) \/ ServeStore(r) \/ ServeConflict(r) \/ Refuse(r)

-----------------------------------------------------------------------------
\* The steps the SDK takes by itself once called.
Proceed(p) ==
  \/ Granted(p) \/ Uploaded(p) \/ Stored(p) \/ PutRefused(p) \/ GiveUp(p)
  \/ FetchBlob(p) \/ FetchFails(p)

CallerStep(p) ==
  \/ \E size \in Sizes : Put(p, size)
  \/ PutAborts(p)
  \/ \E i \in Ids : GetMetadata(p, i)
  \/ Proceed(p)

\* The callers may stop calling; a call that cannot go on is a deadlock.
Finished == (\A p \in Procs : pc[p] = "idle") /\ UNCHANGED vars

Next == ServerStep \/ (\E p \in Procs : CallerStep(p)) \/ Finished

Spec == Init /\ [][Next]_vars

\* The HTTP client answers or times out and the goroutines are scheduled.
Fairness == \A p \in Procs : WF_vars(Proceed(p))

FairSpec == Spec /\ Fairness

-----------------------------------------------------------------------------
Content == [Procs -> Nat]
Key == (Procs \X Nat) \cup {NoKey}
Statuses == {"ok", "conflict", "unauthorized", "rateLimited", "unavailable"}
Errors == {"validation", "session", "cancelled", "network", "unauthorized", "rateLimited",
           "encryption", "notFound"}
Object == [status : {"absent", "reserved", "active"}, version : Nat, key : Key,
           inline : BOOLEAN, content : Content]
Version == [id : Ids, version : Nat, key : Key, content : Content]
Requests ==
  [kind : {"put", "request"}, from : Procs, id : Ids \cup {NoId}, version : Nat,
   key : Key, content : Content, call : Nat]
  \cup
  [kind : {"upload", "confirm"}, from : Procs, id : Ids, version : Nat,
   key : Key, content : Content, call : Nat]
Handle == [id : Ids \cup {NoId}, version : Nat, content : Content]
Response == [status : Statuses \cup {"none"}, id : Ids \cup {NoId}, version : Nat]

\* Every variable holds what the code can put in it; only a Get that reads a
\* blob holds metadata, and a Put has an id once it was granted one.
TypeOK ==
  /\ placement \in Placements
  /\ meta \in [Ids -> Object]
  /\ blobs \subseteq Version
  /\ reqs \subseteq Requests
  /\ resp \in [Procs -> Response]
  /\ handle \in [Procs -> Handle]
  /\ pc \in [Procs -> {"idle", "put", "request", "upload", "confirm", "fetch"}]
  /\ grant \in [Procs -> Ids \cup {NoId}]
  /\ \A p \in Procs : pc[p] \in {"upload", "confirm"} => grant[p] \in Ids
  /\ got \in [Procs -> [id : Ids \cup {NoId}, version : Nat, key : Key]]
  /\ \A p \in Procs : pc[p] = "fetch" => got[p].id \in Ids
  /\ ret \in [Procs -> Errors \cup {"ok", "none"}]
  /\ calls \in [Procs -> Nat]
  /\ acked \in [Procs -> [Ids -> Nat]]
  /\ versions \subseteq Version

\* An object in hand is one stored version with its owner's changes on top: a
\* Get that reads the metadata of one version and the blob of another fails,
\* and never returns the data of one under the version of the other.
HandleIsAVersion ==
  \A p \in Procs : handle[p].id # NoId =>
    \E v \in versions :
      /\ v.id = handle[p].id /\ v.version = handle[p].version
      /\ \A q \in Procs \ {p} : handle[p].content[q] = v.content[q]
      /\ handle[p].content[p] >= v.content[p]

\* A large version becomes visible only after its blob was uploaded, and the
\* place it was uploaded to is never empty while the version is visible, nor does
\* it ever hold the blob of another version that was stored: confirm-put-large
\* follows a successful upload and no Put uploads after it is stored.  It may
\* hold an upload of a Put that is not stored, which is then in the way of every
\* Get: with a place for each version of one that asked for the same version,
\* with one for each object of any large Put not confirmed yet, and for good if
\* it never is.
StoredVersionHasABlob ==
  \A i \in Ids : meta[i].status = "active" /\ ~meta[i].inline =>
    \E b \in BlobsAt(i, meta[i].version) :
      b.key = meta[i].key \/ \A v \in versions : v.key # b.key

\* What a caller was told is stored stays stored, by whatever requests.
NoLostUpdate ==
  \A p \in Procs, i \in Ids : acked[p][i] <= meta[i].content[p]

\* A Put that returns ErrUnauthorized or ErrRateLimited has stored nothing and has
\* no request under way that could, in whichever of its three requests it failed:
\* a caller may put the same object again and not be in its own way.
RefusedPutsStoreNothing ==
  [][\A p \in Procs :
       /\ pc[p] \notin {"idle", "fetch"} /\ pc'[p] = "idle"
       /\ ret'[p] \in {"unauthorized", "rateLimited"}
       => \A v \in versions' \cup {r \in reqs' : r.kind \in {"put", "confirm"}} :
            v.key # KeyOf(p, calls[p])]_vars

\* Every call returns, a large Put after three requests and a large Get after two.
CallsReturn == \A p \in Procs : pc[p] # "idle" ~> pc[p] = "idle"

\* What is visible of the objects: three requests and two stores together are
\* one atomic read-modify-write.
Visible ==
  [i \in Ids |-> [status |-> IF meta[i].status = "active" THEN "active" ELSE "absent",
                  version |-> meta[i].version, content |-> meta[i].content]]
Atomic == INSTANCE AtomicObjects WITH objs <- Visible
IsAtomic == Atomic!Spec

=============================================================================
