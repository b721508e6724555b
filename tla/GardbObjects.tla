---------------------------- MODULE GardbObjects ----------------------------
(***************************************************************************)
(* The object operations of gardb (Put, Update, Get, Scan/Query, Delete,   *)
(* Recover) as several callers run them at once against one gardbase       *)
(* server.  The server is outside this repository: it is modelled from the *)
(* requests internal/api.go sends it and the answers it understands.  It   *)
(* is an optimistic store: a Put names the version it wants to create, and *)
(* only the successor of the stored version is accepted.                   *)
(*                                                                         *)
(* Abstraction of the data.  What an object holds is the number of         *)
(* mutations of each caller it carries: a caller that changes an object    *)
(* (the mutateFn of Update, or an assignment before Put) adds one to its   *)
(* own component.  Time stamps, which no operation reads, are left out.     *)
(* A request can outlive the call that sent it: an answer may be lost, the *)
(* HTTP client may time out, a context may be cancelled, and the server    *)
(* may serve the request afterwards.                                       *)
(***************************************************************************)
EXTENDS Integers, FiniteSets

CONSTANTS
  Procs,         \* the goroutines that call the SDK
  Ids,           \* the object ids the server can assign
  NoId,          \* the empty GardbMeta.ID
  RetryOptions,  \* the values callers pass to WithMaxRetries
  Ops,           \* the operations the callers use
  MaxCalls,      \* bound: caller -> how many calls that change the store it makes
  Lossy,         \* answers may be lost, calls time out or are cancelled
  Refusals       \* what may refuse a call: the schema, the enclave, the server

ASSUME ConstantsOK ==
  /\ NoId \notin Ids
  /\ RetryOptions \subseteq Int
  /\ Ops \subseteq {"new", "get", "list", "put", "update", "delete", "recover"}
  /\ MaxCalls \in [Procs -> Nat]
  /\ Lossy \in BOOLEAN
  /\ Refusals \subseteq {"validation", "session", "unauthorized", "rateLimited", "unavailable"}

VARIABLES
  store,    \* server: id -> stored object
  reqs,     \* requests sent and not yet served
  resp,     \* caller -> the answer to the request it waits for
  handle,   \* caller -> the Go object it works on, with its GardbMeta
  pc,       \* caller -> where in the SDK it is
  call,     \* caller -> the arguments and the loop counter of its call
  ret,      \* caller -> what its last call returned
  ctxDone,  \* caller -> whether the context of its call is cancelled
  calls,    \* caller -> calls made (the bound, and the name of a call)
  asked,    \* history: caller -> mutations it asked to store
  acked,    \* history: caller -> id -> mutations it was told are stored
  unanswered, \* history: creating Puts that returned without an answer
  resent    \* history: caller -> attempts of Update that followed one without an answer

vars == <<store, reqs, resp, handle, pc, call, ret, ctxDone, calls, asked, acked,
          unanswered, resent>>

Zero == [q \in Procs |-> 0]

\* "base" and "conflicts" are history: the stored version when the call began
\* and the conflicts it met.
NewCall(op, i, n, v) ==
  [op |-> op, id |-> i, retries |-> n, attempt |-> 0, base |-> v, conflicts |-> 0]
NoCall == NewCall("none", NoId, 0, 0)
NoResp == [status |-> "none", id |-> NoId, version |-> 0]

\* s.New(): an object without an ID.  "seen" is a history field: the stored
\* version the handle was filled from.
FreshObject == [id |-> NoId, version |-> 0, content |-> Zero, seen |-> 0]

Absent == [status |-> "absent", version |-> 0, content |-> Zero]

Init ==
  /\ store = [i \in Ids |-> Absent]
  /\ reqs = {}
  /\ resp = [p \in Procs |-> NoResp]
  /\ handle = [p \in Procs |-> FreshObject]
  /\ pc = [p \in Procs |-> "idle"]
  /\ call = [p \in Procs |-> NoCall]
  /\ ret = [p \in Procs |-> "ok"]
  /\ ctxDone = [p \in Procs |-> FALSE]
  /\ calls = [p \in Procs |-> 0]
  /\ asked = [p \in Procs |-> 0]
  /\ acked = [p \in Procs |-> [i \in Ids |-> 0]]
  /\ unanswered = 0
  /\ resent = [p \in Procs |-> 0]

-----------------------------------------------------------------------------
(* What the SDK makes of the server's data.                                *)

\* An object as Schema.Get fills it.
Loaded(i) ==
  [id |-> i, version |-> store[i].version, content |-> store[i].content,
   seen |-> store[i].version]

\* The same object as Scan and Query fill it: meta.Version stays zero.
Listed(i) == [Loaded(i) EXCEPT !.version = 0]

Mutated(h, p) == [h EXCEPT !.content[p] = @ + 1]

\* Mutants: the version in hand is not refreshed, or is advanced twice.
AfterPutStaleVersion(h, r) == [h EXCEPT !.id = r.id, !.seen = r.version]
AfterPutAhead(h, r) ==
  [h EXCEPT !.id = r.id, !.version = r.version + 1, !.seen = r.version]

\* The GardbMeta after a successful Put.
AfterPut(h, r) == [h EXCEPT !.id = r.id, !.version = r.version, !.seen = r.version]

\* The sentinel error an answer becomes (the status switches of api.go).
ErrorOf(op, status) ==
  CASE status = "notFound" /\ op \in {"delete", "recover"} -> "notFound"
    [] status \in {"unauthorized", "rateLimited", "session", "cancelled"} -> status
    [] OTHER -> "network"

-----------------------------------------------------------------------------
(* Calls and returns.                                                      *)

Return(p, err) ==
  /\ pc' = [pc EXCEPT ![p] = "idle"]
  /\ ret' = [ret EXCEPT ![p] = err]
  /\ call' = [call EXCEPT ![p] = NoCall]
  /\ ctxDone' = [ctxDone EXCEPT ![p] = FALSE]
  /\ resp' = [resp EXCEPT ![p] = NoResp]

Begin(p, c, at) ==
  /\ pc[p] = "idle"
  /\ calls[p] < MaxCalls[p]
  /\ calls' = [calls EXCEPT ![p] = @ + 1]
  /\ call' = [call EXCEPT ![p] = c]
  /\ pc' = [pc EXCEPT ![p] = at]
  /\ ret' = [ret EXCEPT ![p] = "none"]

\* Mutant: the version is stepped the wrong way.
RequestBehind(p, kind, h, n, attempt) ==
  [kind |-> kind, from |-> p, id |-> h.id, version |-> h.version - 1,
   content |-> h.content, call |-> n, attempt |-> attempt]

\* What a call sends.  A Put asks for the successor of the version in hand.
Request(p, kind, h, n, attempt) ==
  [kind |-> kind, from |-> p, id |-> h.id, version |-> h.version + 1,
   content |-> h.content, call |-> n, attempt |-> attempt]

New(p) ==
  /\ pc[p] = "idle"
  /\ handle' = [handle EXCEPT ![p] = FreshObject]
  /\ UNCHANGED <<store, reqs, resp, pc, call, ret, ctxDone, calls, asked, acked, unanswered, resent>>

\* Schema.Get.  The server's read is the step; the decryption that follows
\* touches nothing shared.  A Get that fails leaves no trace.
Get(p, i) ==
  /\ pc[p] = "idle"
  /\ store[i].status = "active"
  /\ handle' = [handle EXCEPT ![p] = Loaded(i)]
  /\ UNCHANGED <<store, reqs, resp, pc, call, ret, ctxDone, calls, asked, acked, unanswered, resent>>

\* Schema.Scan and QueryBuilder.Execute: the caller picks object i of the page.
List(p, i) ==
  /\ pc[p] = "idle"
  /\ store[i].status = "active"
  /\ handle' = [handle EXCEPT ![p] = Listed(i)]
  /\ UNCHANGED <<store, reqs, resp, pc, call, ret, ctxDone, calls, asked, acked, unanswered, resent>>

\* A Put without an ID asks the server for a new object.
Creating(p) == call[p].op = "put" /\ handle[p].id = NoId

\* Bound: no more creations are asked for than the instance has ids.
IdsLeft == Cardinality({r \in reqs : r.id = NoId})
             + Cardinality({q \in Procs : pc[q] = "put" /\ Creating(q)})
             < Cardinality({i \in Ids : store[i].status = "absent"})

\* The caller changes its object and calls Put with it.
Put(p) ==
  /\ handle[p].id = NoId => IdsLeft
  /\ Begin(p, NewCall("put", handle[p].id, 0, 0), "put")
  /\ handle' = [handle EXCEPT ![p] = Mutated(@, p)]
  /\ asked' = [asked EXCEPT ![p] = @ + 1]
  /\ UNCHANGED <<store, reqs, resp, ctxDone, acked, unanswered, resent>>

\* A negative MaxRetries skips the loop.
Update(p, i, n) ==
  /\ pc[p] = "idle"
  /\ IF n >= 0
       THEN /\ Begin(p, NewCall("update", i, n, store[i].version), "get")
            /\ asked' = [asked EXCEPT ![p] = @ + 1]
       ELSE /\ ret' = [ret EXCEPT ![p] = "maxRetriesExceeded"]
            /\ UNCHANGED <<pc, call, calls, asked>>
  /\ UNCHANGED <<store, reqs, resp, handle, ctxDone, acked, unanswered, resent>>

DeleteOrRecover(p, i, op) ==
  /\ Begin(p, NewCall(op, i, 0, 0), "wait")
  /\ reqs' = reqs \cup {Request(p, op, [FreshObject EXCEPT !.id = i], calls[p] + 1, 0)}
  /\ UNCHANGED <<store, resp, handle, ctxDone, asked, acked, unanswered, resent>>

Delete(p, i) == DeleteOrRecover(p, i, "delete")
Recover(p, i) == DeleteOrRecover(p, i, "recover")

Cancel(p) ==
  /\ Lossy
  /\ pc[p] # "idle"
  /\ ~ctxDone[p]
  /\ ctxDone' = [ctxDone EXCEPT ![p] = TRUE]
  /\ UNCHANGED <<store, reqs, resp, handle, pc, call, ret, calls, asked, acked, unanswered, resent>>

-----------------------------------------------------------------------------
(* The body of Put, and the loop of Update around it.                      *)

\* The error branch of Put: Update backs off and tries again on every error
\* but ErrVersionConflict while attempts are left; otherwise the call returns.
PutFailed(p, err) ==
  IF /\ call[p].op = "update"
     /\ err # "versionConflict"
     /\ call[p].attempt < call[p].retries
    THEN /\ pc' = [pc EXCEPT ![p] = "backoff"]
         /\ resp' = [resp EXCEPT ![p] = NoResp]
         /\ call' = [call EXCEPT ![p].conflicts =
                       IF resp[p].status = "conflict" THEN @ + 1 ELSE @]
         /\ UNCHANGED <<ret, ctxDone>>
    ELSE Return(p, err)

\* Mutant: the loop refreshes the version and goes on with the data in hand.
UpdateGetKeepsData(p) ==
  LET i == call[p].id IN
  /\ pc[p] = "get"
  /\ ~ctxDone[p]
  /\ store[i].status = "active"
  /\ handle' = [handle EXCEPT ![p] = Mutated([Loaded(i) EXCEPT !.content = handle[p].content], p)]
  /\ pc' = [pc EXCEPT ![p] = "put"]
  /\ UNCHANGED <<store, reqs, resp, call, ret, ctxDone, calls, asked, acked, unanswered, resent>>

\* Update reads the object and mutates it.
UpdateGet(p) ==
  LET i == call[p].id IN
  /\ pc[p] = "get"
  /\ ~ctxDone[p]
  /\ store[i].status = "active"
  /\ handle' = [handle EXCEPT ![p] = Mutated(Loaded(i), p)]
  /\ pc' = [pc EXCEPT ![p] = "put"]
  /\ UNCHANGED <<store, reqs, resp, call, ret, ctxDone, calls, asked, acked, unanswered, resent>>

\* The Get of Update fails: its context is done, the transport fails, the object
\* is gone or the server refuses.  Update does not retry it.
UpdateGetFails(p) ==
  /\ pc[p] = "get"
  /\ \/ /\ ctxDone[p] \/ Lossy
        /\ \E err \in {"network", "cancelled"} : Return(p, err)
     \/ /\ store[call[p].id].status # "active"
        /\ Return(p, IF store[call[p].id].status = "deleted" THEN "deleted" ELSE "notFound")
     \/ \E status \in Refusals \ {"validation"} : Return(p, ErrorOf("get", status))
  /\ UNCHANGED <<store, reqs, handle, calls, asked, acked, unanswered, resent>>

\* The mutateFn or the validation of its result fails; the object is returned.
UpdateRejects(p) ==
  /\ pc[p] = "get"
  /\ ~ctxDone[p]
  /\ store[call[p].id].status = "active"
  /\ "validation" \in Refusals
  /\ handle' = [handle EXCEPT ![p] = Mutated(Loaded(call[p].id), p)]
  /\ Return(p, "validation")
  /\ UNCHANGED <<store, reqs, calls, asked, acked, unanswered, resent>>

\* Put has its DEK and sends the request.
SendPut(p) ==
  /\ pc[p] = "put"
  /\ ~ctxDone[p]
  /\ reqs' = reqs \cup {Request(p, "put", handle[p], calls[p], call[p].attempt)}
  /\ pc' = [pc EXCEPT ![p] = "wait"]
  /\ UNCHANGED <<store, resp, handle, call, ret, ctxDone, calls, asked, acked, unanswered, resent>>

\* Put fails before it sends anything.
PutAborts(p) ==
  /\ pc[p] = "put"
  /\ \/ ctxDone[p] /\ PutFailed(p, "cancelled")
     \/ "validation" \in Refusals /\ PutFailed(p, "validation")
     \/ "session" \in Refusals /\ PutFailed(p, "session")
  /\ UNCHANGED <<store, reqs, handle, calls, asked, acked, unanswered, resent>>

\* Mutant: 201 Created is taken for a failure.
ReceiveRejectsCreated(p) ==
  /\ pc[p] = "wait"
  /\ resp[p].status # "none"
  /\ IF resp[p].status = "ok" /\ ~Creating(p)
       THEN Return(p, "ok")
       ELSE PutFailed(p, "network")
  /\ UNCHANGED <<store, reqs, handle, calls, asked, acked, unanswered, resent>>

\* The answer arrives.
Receive(p) ==
  /\ pc[p] = "wait"
  /\ resp[p].status # "none"
  /\ \/ /\ resp[p].status = "ok"
        /\ Return(p, "ok")
        /\ IF call[p].op \in {"put", "update"}
             THEN /\ handle' = [handle EXCEPT ![p] = AfterPut(@, resp[p])]
                  /\ acked' = [acked EXCEPT ![p][resp[p].id] = handle[p].content[p]]
             ELSE UNCHANGED <<handle, acked>>
     \/ /\ resp[p].status # "ok"
        /\ IF call[p].op \in {"put", "update"}
             THEN PutFailed(p, ErrorOf("put", resp[p].status))
             ELSE Return(p, ErrorOf(call[p].op, resp[p].status))
        /\ UNCHANGED <<handle, acked>>
  /\ UNCHANGED <<store, reqs, calls, asked, unanswered, resent>>

\* No answer: the transport fails, the HTTP client times out or the context
\* is done.  The request may still be served.
GiveUp(p) ==
  /\ Lossy
  /\ pc[p] = "wait"
  /\ \E err \in {"cancelled", "network"} :
       IF call[p].op \in {"put", "update"} THEN PutFailed(p, err) ELSE Return(p, "network")
  /\ unanswered' = IF Creating(p) THEN unanswered + 1 ELSE unanswered
  /\ resent' = IF pc'[p] = "backoff" THEN [resent EXCEPT ![p] = @ + 1] ELSE resent
  /\ UNCHANGED <<store, reqs, handle, calls, asked, acked>>

\* Mutants: the next attempt re-sends the object in hand, or waits for the
\* context alone.
BackoffKeepsObject(p) ==
  /\ pc[p] = "backoff"
  /\ pc' = [pc EXCEPT ![p] = "put"]
  /\ call' = [call EXCEPT ![p].attempt = @ + 1]
  /\ UNCHANGED <<store, reqs, resp, handle, ret, ctxDone, calls, asked, acked, unanswered, resent>>
BackoffWithoutTimer(p) ==
  /\ pc[p] = "backoff"
  /\ ctxDone[p]
  /\ Return(p, "cancelled")
  /\ UNCHANGED <<store, reqs, handle, calls, asked, acked, unanswered, resent>>

\* The select of Update's backoff.
Backoff(p) ==
  /\ pc[p] = "backoff"
  /\ \/ /\ ctxDone[p]
        /\ Return(p, "cancelled")
     \/ /\ pc' = [pc EXCEPT ![p] = "get"]
        /\ call' = [call EXCEPT ![p].attempt = @ + 1]
        /\ UNCHANGED <<ret, ctxDone, resp>>
  /\ UNCHANGED <<store, reqs, handle, calls, asked, acked, unanswered, resent>>

-----------------------------------------------------------------------------
(* The server.                                                             *)

\* The caller still waits for the answer to r.
Awaited(r) ==
  /\ pc[r.from] = "wait"
  /\ calls[r.from] = r.call
  /\ call[r.from].attempt = r.attempt

Answer(r, status, i, v) ==
  /\ reqs' = reqs \ {r}
  /\ resp' = IF Awaited(r)
               THEN [resp EXCEPT ![r.from] = [status |-> status, id |-> i, version |-> v]]
               ELSE resp
  /\ UNCHANGED <<handle, pc, call, ret, ctxDone, calls, asked, acked, unanswered, resent>>

ServeCreate(r) ==
  /\ r.kind = "put" /\ r.id = NoId
  /\ \E i \in Ids :
       /\ store[i].status = "absent"
       /\ store' = [store EXCEPT ![i] = [status |-> "active", version |-> r.version,
                                         content |-> r.content]]
       /\ Answer(r, "ok", i, r.version)

ServeUpdate(r) ==
  /\ r.kind = "put" /\ r.id # NoId
  /\ store[r.id].status = "active"
  /\ r.version = store[r.id].version + 1
  /\ store' = [store EXCEPT ![r.id].version = r.version, ![r.id].content = r.content]
  /\ Answer(r, "ok", r.id, r.version)

ServeConflict(r) ==
  /\ r.kind = "put" /\ r.id # NoId
  /\ store[r.id].status = "active"
  /\ r.version # store[r.id].version + 1
  /\ UNCHANGED store
  /\ Answer(r, "conflict", r.id, 0)

ServeDelete(r) ==
  /\ r.kind = "delete"
  /\ store[r.id].status = "active"
  /\ store' = [store EXCEPT ![r.id].status = "deleted"]
  /\ Answer(r, "ok", r.id, 0)

ServeRecover(r) ==
  /\ r.kind = "recover"
  /\ store[r.id].status = "deleted"
  /\ store' = [store EXCEPT ![r.id].status = "active"]
  /\ Answer(r, "ok", r.id, 0)

\* The object is not in a state the request applies to: 404 or 410.
ServeGone(r) ==
  /\ r.id # NoId
  /\ store[r.id].status # (IF r.kind = "recover" THEN "deleted" ELSE "active")
  /\ UNCHANGED store
  /\ \E status \in {"notFound", "gone"} : Answer(r, status, r.id, 0)

Refuse(r) ==
  /\ \E status \in Refusals \ {"session", "validation"} : Answer(r, status, r.id, 0)
  /\ UNCHANGED store

Serve(r) ==
  \/ ServeCreate(r) \/ ServeUpdate(r) \/ ServeConflict(r)
  \/ ServeDelete(r) \/ ServeRecover(r) \/ ServeGone(r) \/ Refuse(r)

-----------------------------------------------------------------------------
\* The steps the SDK takes by itself once called.
Proceed(p) ==
  \/ UpdateGet(p) \/ UpdateGetFails(p) \/ UpdateRejects(p) \/ SendPut(p) \/ PutAborts(p)
  \/ Receive(p) \/ GiveUp(p) \/ Backoff(p)

CallerStep(p) ==
  \/ "new" \in Ops /\ New(p)
  \/ "put" \in Ops /\ Put(p)
  \/ Cancel(p)
  \/ Proceed(p)
  \/ \E i \in Ids :
       \/ "get" \in Ops /\ Get(p, i)
       \/ "list" \in Ops /\ List(p, i)
       \/ "delete" \in Ops /\ Delete(p, i)
       \/ "recover" \in Ops /\ Recover(p, i)
       \/ "update" \in Ops /\ \E n \in RetryOptions : Update(p, i, n)

ServerStep == \E r \in reqs : Serve(r)

\* The callers may stop calling; a call that cannot go on is a deadlock.
Finished == (\A p \in Procs : pc[p] = "idle") /\ UNCHANGED vars

Next == ServerStep \/ (\E p \in Procs : CallerStep(p)) \/ Finished

Spec == Init /\ [][Next]_vars

\* The HTTP client answers or times out and the goroutines are scheduled.
Fairness == \A p \in Procs : WF_vars(Proceed(p))

FairSpec == Spec /\ Fairness

-----------------------------------------------------------------------------
Statuses == {"ok", "conflict", "notFound", "gone", "unauthorized", "rateLimited", "unavailable"}
Errors == {"validation", "network", "unauthorized", "rateLimited", "session", "cancelled",
           "notFound", "deleted", "maxRetriesExceeded", "versionConflict"}
Content == [Procs -> Nat]
Object == [status : {"absent", "active", "deleted"}, version : Nat, content : Content]
Handle == [id : Ids \cup {NoId}, version : Nat, content : Content, seen : Nat]
Requests ==
  [kind : {"put"}, from : Procs, id : Ids \cup {NoId}, version : Nat,
   content : Content, call : Nat, attempt : Nat]
  \cup
  [kind : {"delete", "recover"}, from : Procs, id : Ids, version : Nat,
   content : Content, call : Nat, attempt : Nat]
Call == [op : {"none", "put", "update", "delete", "recover"}, id : Ids \cup {NoId},
         retries : Int, attempt : Nat, base : Nat, conflicts : Nat]
Response == [status : Statuses \cup {"none"}, id : Ids \cup {NoId}, version : Nat]

\* Every variable holds what the code can put in it.
TypeOK ==
  /\ store \in [Ids -> Object]
  /\ reqs \subseteq Requests
  /\ resp \in [Procs -> Response]
  /\ handle \in [Procs -> Handle]
  /\ pc \in [Procs -> {"idle", "get", "put", "wait", "backoff"}]
  /\ call \in [Procs -> Call]
  /\ \A p \in Procs : call[p].op \in {"update", "delete", "recover"} => call[p].id \in Ids
  /\ ret \in [Procs -> Errors \cup {"ok", "none"}]
  /\ ctxDone \in [Procs -> BOOLEAN]
  /\ calls \in [Procs -> Nat]
  /\ asked \in [Procs -> Nat]
  /\ acked \in [Procs -> [Ids -> Nat]]
  /\ unanswered \in Nat
  /\ resent \in [Procs -> Nat]

\* What a caller was told is stored stays stored: no Put, Update, Delete or
\* Recover of another caller, retry or late request overwrites it
\* (currentVersion+1 in APIClient.Put, the re-read in Update's loop).
NoLostUpdate ==
  \A p \in Procs, i \in Ids : acked[p][i] <= store[i].content[p]

\* An object that carries the stored version carries the stored data, but for
\* its owner's changes that are not stored yet: Get and Put fill data and
\* GardbMeta.Version from the same server state.
HandlesAreSnapshots ==
  \A p \in Procs :
    LET h == handle[p]  s == store[handle[p].id] IN
    h.id # NoId =>
      /\ h.version <= s.version
      /\ h.version = s.version =>
           /\ \A q \in Procs \ {p} : h.content[q] = s.content[q]
           /\ h.content[p] >= s.content[p]

\* A Put of an object that came from Get, Update or an earlier Put is refused
\* for its version only when another version was stored since the object was
\* filled: without losses somebody else's, with losses perhaps that of a request
\* of the same caller that had no answer.
ConflictOnlyIfRaced ==
  \A p \in Procs :
    resp[p].status = "conflict" /\ handle[p].version # 0
      => store[resp[p].id].version > handle[p].seen

\* The same of every object, the ones from Scan and Query included
\* (README: an update "requires version match for safety").
PutOfAnyObjectOnlyConflictsIfRaced ==
  \A p \in Procs :
    resp[p].status = "conflict" => store[resp[p].id].version > handle[p].seen

\* Every attempt of an Update that lost its race lost it to a different write:
\* an Update that used up n+1 attempts on conflicts was outrun by n+1 versions
\* (with losses one may be its own earlier attempt, stored late).
EachConflictHasAWinner ==
  \A p \in Procs :
    call[p].op = "update" =>
      store[call[p].id].version >= call[p].base + call[p].conflicts
         + (IF resp[p].status = "conflict" THEN 1 ELSE 0)

\* A call of Put or Update takes effect at most once, and once more for each
\* attempt of Update that followed one it had no answer to: Update's loop does
\* not repeat what the server answered.
AppliedAtMostOnce ==
  \A p \in Procs, i \in Ids : store[i].content[p] <= asked[p] + resent[p]

\* An object no caller was told of is the work of a creating Put that returned
\* without an answer, or that has not returned: one object at most for each.
UnknownObjectsHadNoAnswer ==
  LET Unknown == {i \in Ids : /\ store[i].status # "absent"
                              /\ \A q \in Procs : acked[q][i] = 0}
  IN  Cardinality(Unknown)
        <= unanswered + Cardinality({q \in Procs : pc[q] = "wait" /\ Creating(q)})

\* A Put the server refused for its version returns ErrVersionConflict
\* (errors.go declares it, test 02_crud_test.go expects it).
ConflictIsReported ==
  [][\A p \in Procs :
       call[p].op = "put" /\ resp[p].status = "conflict" /\ pc'[p] = "idle" /\ ~ctxDone[p]
         => ret'[p] = "versionConflict"]_vars

\* Every call returns: each wait of the SDK ends in an answer, a time-out or a
\* done context, and Update's loop is bounded by MaxRetries.
CallsReturn == \A p \in Procs : pc[p] # "idle" ~> pc[p] = "idle"

\* The server's objects under these callers are atomic objects: each Put that
\* takes effect is one read-modify-write that adds its own caller's mutations.
Atomic == INSTANCE AtomicObjects WITH objs <- store
IsAtomic == Atomic!Spec

=============================================================================
