------------------------- MODULE GardbObjectsProofs -------------------------
(***************************************************************************)
(* Proofs about GardbObjects for every set of callers and ids, every retry *)
(* option and bound, with or without faults.                               *)
(***************************************************************************)
EXTENDS GardbObjects, TLAPS

-----------------------------------------------------------------------------
(* The inductive invariant.                                                *)

\* Where a call can be, given its operation; an answer is held only in "wait".
ControlInv ==
  \A p \in Procs :
    /\ pc[p] \in {"get", "backoff"} => call[p].op = "update"
    /\ pc[p] = "put" => call[p].op \in {"put", "update"}
    /\ pc[p] = "wait" => call[p].op # "none"
    /\ pc[p] # "wait" => resp[p].status = "none"

\* An id that is not assigned holds nothing.
StoreInv ==
  \A i \in Ids : store[i].status = "absent" =>
    store[i].version = 0 /\ \A q \in Procs : store[i].content[q] = 0

\* Data c under version v of a stored object s: if v is still the stored
\* version, p alone has changed c since it was read.
Follows(p, v, c, s) ==
  /\ s.status # "absent"
  /\ v <= s.version
  /\ v = s.version => /\ \A q \in Procs \ {p} : c[q] = s.content[q]
                      /\ c[p] >= s.content[p]

\* Data c adds mutations of p to version v.
Adds(p, v, c, s) == v = s.version => c[p] > s.content[p]

HandleInv ==
  \A p \in Procs :
    LET h == handle[p] IN
    /\ h.id # NoId => Follows(p, h.version, h.content, store[h.id])
    /\ h.id = NoId => h.version = 0 /\ \A q \in Procs \ {p} : h.content[q] = 0

\* A call of Put has something to store.
DirtyInv ==
  \A p \in Procs :
    LET h == handle[p] IN
    call[p].op \in {"put", "update"} /\ pc[p] \in {"put", "wait"} =>
      /\ h.id # NoId => Adds(p, h.version, h.content, store[h.id])
      /\ h.id = NoId => h.content[p] > 0

\* A Put in flight, however old.
PutInv ==
  \A r \in reqs : r.kind = "put" =>
    /\ r.version >= 1
    /\ r.id # NoId => /\ Follows(r.from, r.version - 1, r.content, store[r.id])
                      /\ Adds(r.from, r.version - 1, r.content, store[r.id])
    /\ r.id = NoId => /\ r.version = 1
                      /\ r.content[r.from] > 0
                      /\ \A q \in Procs \ {r.from} : r.content[q] = 0

\* Attempts are numbered: no request of an earlier attempt is awaited.
Numbered(r) ==
  /\ r.call <= calls[r.from]
  /\ r.call = calls[r.from] =>
       /\ pc[r.from] \in {"get", "put"} => r.attempt < call[r.from].attempt
       /\ pc[r.from] \in {"wait", "backoff"} => r.attempt <= call[r.from].attempt

FreshInv == \A r \in reqs : Numbered(r)

\* The request awaited carries the object in hand.
Carries(r) ==
  IF call[r.from].op \in {"put", "update"}
    THEN /\ r.kind = "put"
         /\ r.id = handle[r.from].id
         /\ r.version = handle[r.from].version + 1
         /\ r.content = handle[r.from].content
    ELSE r.kind # "put"

AwaitedInv == \A r \in reqs : Awaited(r) => Carries(r)

\* The answer to a Put that took effect: the store has what it sent.
AnswerInv ==
  \A p \in Procs :
    resp[p].status = "ok" /\ call[p].op \in {"put", "update"} =>
      LET i == resp[p].id IN
      /\ i \in Ids
      /\ Follows(p, resp[p].version, handle[p].content, store[i])
      /\ handle[p].content[p] <= store[i].content[p]

IInv ==
  /\ TypeOK /\ ControlInv /\ StoreInv /\ HandleInv /\ DirtyInv /\ PutInv
  /\ FreshInv /\ AwaitedInv /\ AnswerInv /\ NoLostUpdate

-----------------------------------------------------------------------------
(* Types and control.                                                      *)

TypeInv == TypeOK /\ ControlInv

USE ConstantsOK DEF Content, Object, Handle, Call, Response, Errors, Statuses

\* The operators on data keep their types.
LEMMA MutatedType ==
  ASSUME NEW h \in Handle, NEW p \in Procs
  PROVE  /\ Mutated(h, p) \in Handle
         /\ Mutated(h, p).id = h.id /\ Mutated(h, p).version = h.version
         /\ Mutated(h, p).content[p] = h.content[p] + 1
         /\ \A q \in Procs \ {p} : Mutated(h, p).content[q] = h.content[q]
PROOF
  BY DEF Mutated

LEMMA AfterPutType ==
  ASSUME NEW h \in Handle, NEW r \in Response
  PROVE  /\ AfterPut(h, r) \in Handle
         /\ AfterPut(h, r).id = r.id /\ AfterPut(h, r).version = r.version
         /\ AfterPut(h, r).content = h.content
PROOF
  BY DEF AfterPut

LEMMA LoadedType ==
  ASSUME NEW i \in Ids, store[i] \in Object
  PROVE  /\ Loaded(i) \in Handle
         /\ Loaded(i).id = i /\ Loaded(i).version = store[i].version
         /\ Loaded(i).content = store[i].content
PROOF
  BY DEF Loaded

LEMMA ListedType ==
  ASSUME NEW i \in Ids, store[i] \in Object
  PROVE  /\ Listed(i) \in Handle
         /\ Listed(i).id = i /\ Listed(i).version = 0
         /\ Listed(i).content = store[i].content
PROOF
  BY LoadedType DEF Listed

\* One more attempt.
LEMMA AttemptType ==
  ASSUME call \in [Procs -> Call], NEW p \in Procs
  PROVE  [call EXCEPT ![p].attempt = @ + 1] \in [Procs -> Call]
PROOF
  OBVIOUS

\* Returning from a call keeps the caller's variables well typed.
LEMMA ReturnType ==
  ASSUME TypeInv, NEW p \in Procs, NEW err \in Errors \cup {"ok"}, Return(p, err)
  PROVE  /\ pc' \in [Procs -> {"idle", "get", "put", "wait", "backoff"}]
         /\ ret' \in [Procs -> Errors \cup {"ok", "none"}]
         /\ call' \in [Procs -> Call]
         /\ \A q \in Procs : call'[q].op \in {"update", "delete", "recover"} => call'[q].id \in Ids
         /\ ctxDone' \in [Procs -> BOOLEAN]
         /\ resp' \in [Procs -> Response]
         /\ ControlInv'
PROOF
  BY DEF TypeInv, TypeOK, ControlInv, Return, NoCall, NewCall, NoResp

\* So does a failed Put, whether the call returns or backs off.
LEMMA PutFailedType ==
  ASSUME TypeInv, NEW p \in Procs, NEW err \in Errors, PutFailed(p, err)
  PROVE  /\ pc' \in [Procs -> {"idle", "get", "put", "wait", "backoff"}]
         /\ ret' \in [Procs -> Errors \cup {"ok", "none"}]
         /\ call' \in [Procs -> Call]
         /\ \A q \in Procs : call'[q].op \in {"update", "delete", "recover"} => call'[q].id \in Ids
         /\ ctxDone' \in [Procs -> BOOLEAN]
         /\ resp' \in [Procs -> Response]
         /\ ControlInv'
PROOF
<1>1. CASE Return(p, err)
  BY <1>1, ReturnType
<1>2. CASE ~Return(p, err)
  <2>1. /\ call[p].op = "update"
        /\ pc' = [pc EXCEPT ![p] = "backoff"]
        /\ resp' = [resp EXCEPT ![p] = NoResp]
        /\ call' = [call EXCEPT ![p].conflicts =
                      IF resp[p].status = "conflict" THEN @ + 1 ELSE @]
        /\ UNCHANGED <<ret, ctxDone>>
    BY <1>2, Zenon DEF PutFailed
  <2>2. call \in [Procs -> Call]
    BY DEF TypeInv, TypeOK
  <2>3. call' \in [Procs -> Call]
    BY <2>1, <2>2
  <2>4. \A q \in Procs : call'[q].op = call[q].op /\ call'[q].id = call[q].id
    BY <2>1, <2>2
  <2>. QED  BY <2>1, <2>3, <2>4 DEF TypeInv, TypeOK, ControlInv, NoResp
<1>. QED  BY <1>1, <1>2

\* Every error the SDK builds from a status is one of its sentinels.
LEMMA ErrorOfType ==
  ASSUME NEW op, NEW status
  PROVE  ErrorOf(op, status) \in Errors
PROOF
  BY DEF ErrorOf

\* An answer touches the request and the response only.
LEMMA AnswerType ==
  ASSUME TypeInv, NEW r \in reqs, NEW status \in Statuses, NEW i \in Ids \cup {NoId},
         NEW v \in Nat, Answer(r, status, i, v), store' \in [Ids -> Object]
  PROVE  TypeInv'
PROOF
<1>. r.from \in Procs
  BY DEF TypeInv, TypeOK, Requests
<1>1. TypeOK'
  BY DEF TypeInv, TypeOK, Answer
<1>2. ControlInv'
  BY DEF TypeInv, TypeOK, ControlInv, Answer, Awaited
<1>. QED  BY <1>1, <1>2 DEF TypeInv

LEMMA TypeInit == Init => TypeInv
PROOF
<1>. SUFFICES ASSUME Init PROVE TypeInv
  OBVIOUS
<1>1. NoCall \in Call /\ NoResp \in Response /\ FreshObject \in Handle /\ Absent \in Object
  BY DEF NoCall, NewCall, NoResp, FreshObject, Absent, Zero
<1>2. TypeOK
  BY <1>1 DEF Init, TypeOK, NoCall, NewCall
<1>3. ControlInv
  BY DEF Init, ControlInv, NoResp
<1>. QED  BY <1>2, <1>3 DEF TypeInv

LEMMA ServeType ==
  ASSUME TypeInv, NEW r \in reqs, Serve(r)
  PROVE  TypeInv'
PROOF
<1>. /\ r.from \in Procs /\ r.version \in Nat /\ r.content \in Content
     /\ r.id \in Ids \cup {NoId} /\ (r.kind # "put" => r.id \in Ids)
  BY DEF TypeInv, TypeOK, Requests
<1>. store \in [Ids -> Object]
  BY DEF TypeInv, TypeOK
<1>1. CASE ServeCreate(r)
  BY <1>1, AnswerType DEF ServeCreate
<1>2. CASE ServeUpdate(r)
  BY <1>2, AnswerType DEF ServeUpdate
<1>3. CASE ServeConflict(r)
  BY <1>3, AnswerType DEF ServeConflict
<1>4. CASE ServeDelete(r)
  BY <1>4, AnswerType DEF ServeDelete
<1>5. CASE ServeRecover(r)
  <2>1. store' \in [Ids -> Object]
    BY <1>5 DEF ServeRecover
  <2>2. "ok" \in Statuses /\ 0 \in Nat
    OBVIOUS
  <2>. QED  BY <1>5, <2>1, <2>2, AnswerType DEF ServeRecover
<1>6. CASE ServeGone(r)
  <2>1. PICK status \in {"notFound", "gone"} : Answer(r, status, r.id, 0)
    BY <1>6 DEF ServeGone
  <2>. QED  BY <1>6, <2>1, AnswerType DEF ServeGone
<1>7. CASE Refuse(r)
  BY <1>7, AnswerType DEF Refuse
<1>. QED  BY <1>1, <1>2, <1>3, <1>4, <1>5, <1>6, <1>7 DEF Serve

LEMMA BeginType ==
  ASSUME TypeInv, NEW p \in Procs, NEW c \in Call, NEW at \in {"get", "put", "wait"},
         c.op \in {"update", "delete", "recover"} => c.id \in Ids,
         at = "get" => c.op = "update", at = "put" => c.op \in {"put", "update"},
         c.op # "none", Begin(p, c, at), resp' = resp
  PROVE  /\ calls' \in [Procs -> Nat]
         /\ call' \in [Procs -> Call]
         /\ \A q \in Procs : call'[q].op \in {"update", "delete", "recover"} => call'[q].id \in Ids
         /\ pc' \in [Procs -> {"idle", "get", "put", "wait", "backoff"}]
         /\ ret' \in [Procs -> Errors \cup {"ok", "none"}]
         /\ ControlInv'
PROOF
<1>1. call' \in [Procs -> Call] /\ calls' \in [Procs -> Nat]
  BY DEF Begin, TypeInv, TypeOK
<1>. QED  BY <1>1 DEF Begin, TypeInv, TypeOK, ControlInv

\* The SDK's own steps.
LEMMA ProceedType ==
  ASSUME TypeInv, NEW p \in Procs, Proceed(p)
  PROVE  TypeInv'
PROOF
<1>. /\ store \in [Ids -> Object] /\ handle \in [Procs -> Handle] /\ call \in [Procs -> Call]
     /\ pc[p] = "get" => call[p].id \in Ids
  BY DEF TypeInv, TypeOK, ControlInv
<1>1. CASE UpdateGet(p)
  <2>1. Mutated(Loaded(call[p].id), p) \in Handle
    <3>1. Loaded(call[p].id) \in Handle
      BY <1>1, LoadedType DEF UpdateGet
    <3>. HIDE DEF Handle
    <3>. QED  BY <3>1, MutatedType
  <2>2. handle' \in [Procs -> Handle]
    BY <1>1, <2>1 DEF UpdateGet
  <2>. QED  BY <1>1, <2>2 DEF UpdateGet, TypeInv, TypeOK, ControlInv
<1>2. CASE UpdateGetFails(p)
  <2>1. PICK err \in Errors : Return(p, err)
    <3>1. {"network", "cancelled", "deleted", "notFound"} \subseteq Errors
      OBVIOUS
    <3>. HIDE DEF Errors
    <3>. QED  BY <1>2, <3>1, ErrorOfType DEF UpdateGetFails
  <2>. QED  BY <1>2, <2>1, ReturnType DEF UpdateGetFails, TypeInv, TypeOK
<1>3. CASE SendPut(p)
  <2>1. Request(p, "put", handle[p], calls[p], call[p].attempt) \in Requests
    BY DEF Request, Requests, TypeInv, TypeOK
  <2>2. TypeOK'
    BY <1>3, <2>1 DEF SendPut, TypeInv, TypeOK
  <2>3. ControlInv'
    BY <1>3 DEF SendPut, TypeInv, TypeOK, ControlInv
  <2>. QED  BY <2>2, <2>3 DEF TypeInv
<1>4. CASE PutAborts(p)
  <2>1. PICK err \in Errors : PutFailed(p, err)
    BY <1>4 DEF PutAborts
  <2>. QED  BY <1>4, <2>1, PutFailedType DEF PutAborts, TypeInv, TypeOK
<1>5. CASE Receive(p)
  <2>1. CASE resp[p].status = "ok"
    <3>1. Return(p, "ok") /\ UNCHANGED <<store, reqs, calls, asked, unanswered, resent>>
      BY <1>5, <2>1 DEF Receive
    <3>2. AfterPut(handle[p], resp[p]) \in Handle
      BY AfterPutType DEF TypeInv, TypeOK
    <3>3. handle' \in [Procs -> Handle]
      <4>1. \/ handle' = [handle EXCEPT ![p] = AfterPut(handle[p], resp[p])]
            \/ handle' = handle
        BY <1>5, <2>1, Zenon DEF Receive
      <4>. HIDE DEF Handle
      <4>. QED  BY <3>2, <4>1
    <3>4. acked' \in [Procs -> [Ids -> Nat]]
      <4>1. IF call[p].op \in {"put", "update"}
              THEN acked' = [acked EXCEPT ![p][resp[p].id] = handle[p].content[p]]
              ELSE acked' = acked
        BY <1>5, <2>1, Zenon DEF Receive
      <4>2. handle[p].content[p] \in Nat /\ acked \in [Procs -> [Ids -> Nat]]
        BY DEF TypeInv, TypeOK
      <4>3. \A x : [acked[p] EXCEPT ![x] = handle[p].content[p]] \in [Ids -> Nat]
        BY <4>2
      <4>. QED  BY <4>1, <4>2, <4>3
    <3>. QED  BY <3>1, <3>3, <3>4, ReturnType DEF TypeInv, TypeOK
  <2>2. CASE resp[p].status # "ok"
    <3>1. UNCHANGED <<store, reqs, calls, asked, unanswered, resent, handle, acked>>
      BY <1>5, <2>2 DEF Receive
    <3>. HIDE DEF Errors
    <3>2. PICK err \in Errors : PutFailed(p, err) \/ Return(p, err)
      BY <1>5, <2>2, ErrorOfType DEF Receive
    <3>. QED  BY <3>1, <3>2, PutFailedType, ReturnType DEF TypeInv, TypeOK
  <2>. QED  BY <2>1, <2>2
<1>6. CASE GiveUp(p)
  <2>1. PICK err \in Errors : PutFailed(p, err) \/ Return(p, err)
    BY <1>6 DEF GiveUp
  <2>2. unanswered' \in Nat /\ resent' \in [Procs -> Nat]
    BY <1>6 DEF GiveUp, TypeInv, TypeOK
  <2>. QED  BY <1>6, <2>1, <2>2, PutFailedType, ReturnType DEF GiveUp, TypeInv, TypeOK
<1>7. CASE Backoff(p)
  <2>1. CASE Return(p, "cancelled")
    BY <1>7, <2>1, ReturnType DEF Backoff, TypeInv, TypeOK
  <2>2. CASE ~Return(p, "cancelled")
    <3>1. /\ pc[p] = "backoff" /\ pc' = [pc EXCEPT ![p] = "get"]
          /\ call' = [call EXCEPT ![p].attempt = @ + 1]
          /\ UNCHANGED <<ret, ctxDone, resp, store, reqs, handle, calls, asked, acked, unanswered, resent>>
      BY <1>7, <2>2 DEF Backoff
    <3>2. call' \in [Procs -> Call]
      BY <3>1, AttemptType
    <3>3. \A q \in Procs : call'[q].op = call[q].op /\ call'[q].id = call[q].id
      BY <3>1
    <3>. QED  BY <3>1, <3>2, <3>3 DEF TypeInv, TypeOK, ControlInv
  <2>. QED  BY <2>1, <2>2
<1>8. CASE UpdateRejects(p)
  <2>1. Mutated(Loaded(call[p].id), p) \in Handle
    <3>1. Loaded(call[p].id) \in Handle
      BY <1>8, LoadedType DEF UpdateRejects
    <3>. HIDE DEF Handle
    <3>. QED  BY <3>1, MutatedType
  <2>2. handle' \in [Procs -> Handle]
    BY <1>8, <2>1 DEF UpdateRejects
  <2>3. Return(p, "validation") /\ UNCHANGED <<store, reqs, calls, asked, acked, unanswered, resent>>
    BY <1>8 DEF UpdateRejects
  <2>. QED  BY <2>2, <2>3, ReturnType DEF TypeInv, TypeOK
<1>. QED  BY <1>8, <1>1, <1>2, <1>3, <1>4, <1>5, <1>6, <1>7 DEF Proceed

LEMMA TypeStep == TypeInv /\ [Next]_vars => TypeInv'
PROOF
<1>. SUFFICES ASSUME TypeInv, [Next]_vars PROVE TypeInv'
  OBVIOUS
<1>. /\ store \in [Ids -> Object] /\ handle \in [Procs -> Handle]
  BY DEF TypeInv, TypeOK
<1>1. ASSUME NEW p \in Procs, New(p) PROVE TypeInv'
  <2>1. FreshObject \in Handle
    BY DEF FreshObject, Zero
  <2>. QED  BY <1>1, <2>1 DEF New, TypeInv, TypeOK, ControlInv
<1>2. ASSUME NEW p \in Procs, Put(p) PROVE TypeInv'
  <2>. DEFINE c == NewCall("put", handle[p].id, 0, 0)
  <2>1. c \in Call /\ c.op = "put"
    <3>1. handle[p].id \in Ids \cup {NoId}
      OBVIOUS
    <3>. QED  BY <3>1 DEF NewCall
  <2>2. Begin(p, c, "put") /\ resp' = resp
    BY <1>2 DEF Put
  <2>3. Mutated(handle[p], p) \in Handle
    BY MutatedType
  <2>4. handle' \in [Procs -> Handle] /\ asked' \in [Procs -> Nat]
    BY <1>2, <2>3 DEF Put, TypeInv, TypeOK
  <2>. HIDE DEF c
  <2>. QED  BY <1>2, <2>1, <2>2, <2>4, BeginType DEF Put, TypeInv, TypeOK
<1>3. ASSUME NEW p \in Procs, Cancel(p) PROVE TypeInv'
  BY <1>3 DEF Cancel, TypeInv, TypeOK, ControlInv
<1>4. ASSUME NEW p \in Procs, NEW i \in Ids, Get(p, i) PROVE TypeInv'
  BY <1>4, LoadedType DEF Get, TypeInv, TypeOK, ControlInv
<1>5. ASSUME NEW p \in Procs, NEW i \in Ids, List(p, i) PROVE TypeInv'
  BY <1>5, ListedType DEF List, TypeInv, TypeOK, ControlInv
<1>6. ASSUME NEW p \in Procs, NEW i \in Ids, NEW op \in {"delete", "recover"},
             DeleteOrRecover(p, i, op)
      PROVE  TypeInv'
  <2>. DEFINE c == NewCall(op, i, 0, 0)
              r == Request(p, op, [FreshObject EXCEPT !.id = i], calls[p] + 1, 0)
  <2>1. c \in Call /\ c.op = op /\ c.id = i
    BY DEF NewCall
  <2>2. r \in Requests
    <3>1. calls[p] + 1 \in Nat /\ 0 + 1 \in Nat /\ Zero \in Content
      BY DEF Zero, TypeInv, TypeOK
    <3>2. r = [kind |-> op, from |-> p, id |-> i, version |-> 0 + 1, content |-> Zero,
               call |-> calls[p] + 1, attempt |-> 0]
      BY DEF Request, FreshObject
    <3>. HIDE DEF r
    <3>. QED  BY <3>1, <3>2 DEF Requests
  <2>3. Begin(p, c, "wait") /\ reqs' = reqs \cup {r}
    BY <1>6 DEF DeleteOrRecover
  <2>. HIDE DEF c, r
  <2>. QED  BY <1>6, <2>1, <2>2, <2>3, BeginType DEF DeleteOrRecover, TypeInv, TypeOK
<1>7. ASSUME NEW p \in Procs, NEW i \in Ids, NEW n \in RetryOptions, Update(p, i, n)
      PROVE  TypeInv'
  <2>1. CASE n >= 0
    <3>. DEFINE c == NewCall("update", i, n, store[i].version)
    <3>1. c \in Call /\ c.op = "update" /\ c.id = i
      <4>1. store[i].version \in Nat /\ n \in Int
        OBVIOUS
      <4>. QED  BY <4>1 DEF NewCall
    <3>2. /\ Begin(p, c, "get") /\ asked' = [asked EXCEPT ![p] = @ + 1]
          /\ UNCHANGED <<store, reqs, resp, handle, ctxDone, acked, unanswered, resent>>
      BY <1>7, <2>1 DEF Update
    <3>3. asked' \in [Procs -> Nat]
      BY <3>2 DEF TypeInv, TypeOK
    <3>. HIDE DEF c
    <3>. QED  BY <3>1, <3>2, <3>3, BeginType DEF TypeInv, TypeOK
  <2>2. CASE ~(n >= 0)
    <3>1. /\ ret' = [ret EXCEPT ![p] = "maxRetriesExceeded"]
          /\ UNCHANGED <<store, reqs, resp, handle, pc, call, ctxDone, calls, asked, acked,
                          unanswered, resent>>
      BY <1>7, <2>2 DEF Update
    <3>2. TypeOK'
      BY <3>1 DEF TypeInv, TypeOK
    <3>3. ControlInv'
      BY <3>1 DEF TypeInv, ControlInv
    <3>. QED  BY <3>2, <3>3 DEF TypeInv
  <2>. QED  BY <2>1, <2>2
<1>8. ASSUME NEW p \in Procs, CallerStep(p) PROVE TypeInv'
  BY <1>8, <1>1, <1>2, <1>3, <1>4, <1>5, <1>6, <1>7, ProceedType
  DEF CallerStep, Delete, Recover
<1>9. CASE UNCHANGED vars
  BY <1>9 DEF vars, TypeInv, TypeOK, ControlInv
<1>. QED  BY <1>8, <1>9, ServeType DEF Next, ServerStep, Finished

\* Every variable always holds what the code can put in it.
THEOREM TypeCorrect == Spec => []TypeOK
PROOF
<1>1. Spec => []TypeInv
  BY TypeInit, TypeStep, PTL DEF Spec
<1>2. TypeInv => TypeOK
  BY DEF TypeInv
<1>. QED  BY <1>1, <1>2, PTL

-----------------------------------------------------------------------------
(* The server's steps.                                                     *)

\* What a stored object may become: versions and contents only grow, and
\* contents change with versions.
Grew(s, t) ==
  /\ s.status # "absent" => t.status # "absent"
  /\ s.version <= t.version
  /\ \A q \in Procs : s.content[q] <= t.content[q]
  /\ s.status # "absent" /\ s.version = t.version => s.content = t.content

LEMMA FollowsKept ==
  ASSUME NEW s \in Object, NEW t \in Object, Grew(s, t),
         NEW p \in Procs, NEW v \in Int, NEW c \in Content, Follows(p, v, c, s)
  PROVE  Follows(p, v, c, t) /\ (Adds(p, v, c, s) => Adds(p, v, c, t))
PROOF
  BY DEF Grew, Follows, Adds

LEMMA AnswerStep ==
  ASSUME IInv, TypeInv', NEW r \in reqs, NEW status, NEW i, NEW v,
         Answer(r, status, i, v),
         \A j \in Ids : Grew(store[j], store'[j]),
         StoreInv',
         status = "ok" /\ r.kind = "put" =>
           /\ i \in Ids
           /\ Follows(r.from, v, r.content, store'[i])
           /\ r.content[r.from] <= store'[i].content[r.from]
  PROVE  IInv'
PROOF
<1>. store \in [Ids -> Object] /\ store' \in [Ids -> Object] /\ handle \in [Procs -> Handle]
     /\ reqs \subseteq Requests
  BY DEF IInv, TypeOK, TypeInv
<1>. UNCHANGED <<handle, pc, call, ret, ctxDone, calls, asked, acked>> /\ reqs' = reqs \ {r}
  BY DEF Answer
<1>k. ASSUME NEW j \in Ids, NEW p \in Procs, NEW x \in Int, NEW c \in Content,
             Follows(p, x, c, store[j])
      PROVE  Follows(p, x, c, store'[j]) /\ (Adds(p, x, c, store[j]) => Adds(p, x, c, store'[j]))
  <2>1. store[j] \in Object /\ store'[j] \in Object /\ Grew(store[j], store'[j])
    OBVIOUS
  <2>. QED  BY <1>k, <2>1, FollowsKept
<1>h. \A p \in Procs : /\ handle[p].id \in Ids \cup {NoId}
                       /\ handle[p].version \in Int
                       /\ handle[p].content \in Content
  OBVIOUS
<1>1. HandleInv'
  BY <1>k, <1>h DEF IInv, HandleInv
<1>2. DirtyInv'
  BY <1>k, <1>h DEF IInv, HandleInv, DirtyInv
<1>3. PutInv'
  <2>. SUFFICES ASSUME NEW x \in reqs, x.kind = "put", x.id # NoId
                PROVE  /\ Follows(x.from, x.version - 1, x.content, store'[x.id])
                       /\ Adds(x.from, x.version - 1, x.content, store'[x.id])
    BY DEF IInv, PutInv
  <2>. x.id \in Ids /\ x.from \in Procs /\ x.version - 1 \in Int /\ x.content \in Content
    BY DEF Requests
  <2>. QED  BY <1>k DEF IInv, PutInv
<1>4. FreshInv'
  BY DEF IInv, FreshInv, Numbered
<1>5. AwaitedInv'
  BY DEF IInv, AwaitedInv, Awaited, Carries
<1>6. AnswerInv'
  <2>. SUFFICES ASSUME NEW p \in Procs, resp'[p].status = "ok", call[p].op \in {"put", "update"}
                PROVE  LET k == resp'[p].id IN
                       /\ k \in Ids
                       /\ Follows(p, resp'[p].version, handle[p].content, store'[k])
                       /\ handle[p].content[p] <= store'[k].content[p]
    BY DEF AnswerInv
  <2>1. CASE resp'[p] = resp[p]
    <3>. DEFINE k == resp[p].id
    <3>1. /\ k \in Ids
          /\ Follows(p, resp[p].version, handle[p].content, store[k])
          /\ handle[p].content[p] <= store[k].content[p]
      BY <2>1 DEF IInv, AnswerInv
    <3>2. resp[p].version \in Int
      BY DEF IInv, TypeOK
    <3>3. Follows(p, resp[p].version, handle[p].content, store'[k])
      BY <3>1, <3>2, <1>k, <1>h
    <3>4. store[k].content[p] <= store'[k].content[p]
      BY <3>1 DEF Grew
    <3>. QED  BY <2>1, <3>1, <3>3, <3>4
  <2>2. CASE resp'[p] # resp[p]
    <3>1. p = r.from /\ Awaited(r) /\ resp'[p] = [status |-> status, id |-> i, version |-> v]
      BY <2>2 DEF Answer, IInv, TypeOK
    <3>2. r.kind = "put" /\ r.content = handle[p].content
      BY <3>1 DEF IInv, AwaitedInv, Carries
    <3>. QED  BY <3>1, <3>2
  <2>. QED  BY <2>1, <2>2
<1>7. NoLostUpdate'
  BY DEF IInv, NoLostUpdate, Grew, TypeOK
<1>8. TypeOK' /\ ControlInv'
  BY DEF TypeInv
<1>. QED  BY <1>1, <1>2, <1>3, <1>4, <1>5, <1>6, <1>7, <1>8 DEF IInv

LEMMA ServeStep ==
  ASSUME IInv, NEW r \in reqs, Serve(r)
  PROVE  IInv'
PROOF
<1>. /\ store \in [Ids -> Object] /\ r \in Requests
     /\ r.from \in Procs /\ r.version \in Nat /\ r.content \in Content
     /\ r.id \in Ids \cup {NoId} /\ (r.kind # "put" => r.id \in Ids)
  BY DEF IInv, TypeOK, Requests
<1>t. TypeInv'
  BY ServeType DEF IInv, TypeInv
<1>s. store' = store => (\A j \in Ids : Grew(store[j], store'[j])) /\ StoreInv'
  BY DEF Grew, IInv, StoreInv
<1>1. CASE ServeCreate(r)
  <2>1. PICK i \in Ids :
          /\ store[i].status = "absent"
          /\ store' = [store EXCEPT ![i] = [status |-> "active", version |-> r.version,
                                            content |-> r.content]]
          /\ Answer(r, "ok", i, r.version)
    BY <1>1 DEF ServeCreate
  <2>2. \A j \in Ids : Grew(store[j], store'[j])
    BY <2>1 DEF Grew, IInv, StoreInv
  <2>3. StoreInv'
    BY <2>1 DEF IInv, StoreInv
  <2>4. Follows(r.from, r.version, r.content, store'[i])
    BY <2>1 DEF Follows
  <2>5. r.content[r.from] <= store'[i].content[r.from]
    BY <2>1
  <2>. QED  BY <1>t, <2>1, <2>2, <2>3, <2>4, <2>5, AnswerStep
<1>2. CASE ServeUpdate(r)
  <2>1. /\ r.id \in Ids /\ store[r.id].status = "active"
        /\ r.version = store[r.id].version + 1
        /\ store'[r.id].version = r.version /\ store'[r.id].content = r.content
        /\ store'[r.id].status = "active"
        /\ \A j \in Ids \ {r.id} : store'[j] = store[j]
        /\ Answer(r, "ok", r.id, r.version)
    BY <1>2 DEF ServeUpdate
  <2>2. \A q \in Procs : store[r.id].content[q] <= r.content[q]
    <3>1. Follows(r.from, r.version - 1, r.content, store[r.id])
      BY <1>2 DEF ServeUpdate, IInv, PutInv
    <3>2. r.version - 1 = store[r.id].version
      BY <2>1
    <3>. QED  BY <3>1, <3>2 DEF Follows
  <2>3. \A j \in Ids : Grew(store[j], store'[j])
    BY <2>1, <2>2 DEF Grew
  <2>4. StoreInv'
    BY <2>1 DEF IInv, StoreInv
  <2>5. Follows(r.from, r.version, r.content, store'[r.id])
    BY <2>1 DEF Follows
  <2>6. r.content[r.from] <= store'[r.id].content[r.from]
    BY <2>1
  <2>. QED  BY <1>t, <2>1, <2>3, <2>4, <2>5, <2>6, AnswerStep
<1>3. CASE ServeConflict(r)
  BY <1>3, <1>s, <1>t, AnswerStep DEF ServeConflict
<1>4. CASE ServeDelete(r) \/ ServeRecover(r)
  <2>1. PICK st \in {"active", "deleted"} : store' = [store EXCEPT ![r.id].status = st]
    BY <1>4 DEF ServeDelete, ServeRecover
  <2>2. r.kind # "put" /\ r.id \in Ids /\ Answer(r, "ok", r.id, 0) /\ store[r.id].status # "absent"
    BY <1>4 DEF ServeDelete, ServeRecover
  <2>3. \A j \in Ids : Grew(store[j], store'[j])
    BY <2>1, <2>2 DEF Grew
  <2>4. StoreInv'
    BY <2>1, <2>2 DEF IInv, StoreInv
  <2>. QED  BY <1>t, <2>2, <2>3, <2>4, AnswerStep
<1>5. CASE ServeGone(r)
  <2>1. PICK status \in {"notFound", "gone"} : Answer(r, status, r.id, 0)
    BY <1>5 DEF ServeGone
  <2>. QED  BY <1>5, <2>1, <1>s, <1>t, AnswerStep DEF ServeGone
<1>6. CASE Refuse(r)
  <2>1. PICK status \in Refusals \ {"session", "validation"} : Answer(r, status, r.id, 0)
    BY <1>6 DEF Refuse
  <2>. QED  BY <1>6, <2>1, <1>s, <1>t, AnswerStep DEF Refuse
<1>. QED  BY <1>1, <1>2, <1>3, <1>4, <1>5, <1>6 DEF Serve

-----------------------------------------------------------------------------
(* The callers' steps.                                                     *)

\* A call returns; the object in hand may have been filled from the answer.
LEMMA ReturnStep ==
  ASSUME IInv, TypeInv', NEW p \in Procs, NEW err, Return(p, err),
         UNCHANGED <<store, reqs, calls>>,
         \A q \in Procs \ {p} : handle'[q] = handle[q],
         HandleInv', NoLostUpdate'
  PROVE  IInv'
PROOF
<1>. /\ pc'[p] = "idle" /\ call'[p].op = "none" /\ resp'[p].status = "none"
     /\ \A q \in Procs \ {p} : pc'[q] = pc[q] /\ call'[q] = call[q] /\ resp'[q] = resp[q]
  BY DEF Return, NoCall, NewCall, NoResp, IInv, TypeOK
<1>r. reqs \subseteq Requests
  BY DEF IInv, TypeOK
<1>1. StoreInv'
  BY DEF IInv, StoreInv
<1>2. DirtyInv'
  BY DEF IInv, DirtyInv
<1>3. PutInv'
  BY DEF IInv, PutInv
<1>4. FreshInv'
  <2>. SUFFICES ASSUME NEW r \in reqs PROVE Numbered(r)'
    BY DEF FreshInv
  <2>1. Numbered(r) /\ r.from \in Procs
    BY <1>r DEF IInv, FreshInv, Requests
  <2>. QED  BY <2>1 DEF Numbered
<1>5. AwaitedInv'
  <2>. SUFFICES ASSUME NEW r \in reqs, Awaited(r)' PROVE Carries(r)'
    BY <1>r DEF AwaitedInv
  <2>1. r.from \in Procs \ {p}
    BY <1>r DEF Awaited, Requests
  <2>2. Awaited(r) /\ Carries(r)
    BY <1>r, <2>1 DEF IInv, AwaitedInv, Awaited
  <2>. QED  BY <1>r, <2>1, <2>2 DEF Carries
<1>6. AnswerInv'
  BY DEF IInv, AnswerInv
<1>. QED  BY <1>1, <1>2, <1>3, <1>4, <1>5, <1>6 DEF IInv, TypeInv

\* A Put fails: the call returns, or Update goes to its backoff.
LEMMA PutFailedStep ==
  ASSUME IInv, TypeInv', NEW p \in Procs, pc[p] \in {"put", "wait"}, NEW err, PutFailed(p, err),
         UNCHANGED <<store, reqs, handle, calls, acked>>
  PROVE  IInv'
PROOF
<1>1. CASE Return(p, err)
  <2>1. HandleInv' /\ NoLostUpdate'
    BY DEF IInv, HandleInv, NoLostUpdate
  <2>. QED  BY <1>1, <2>1, ReturnStep
<1>2. CASE ~Return(p, err)
  <2>1. /\ pc' = [pc EXCEPT ![p] = "backoff"]
        /\ resp' = [resp EXCEPT ![p] = NoResp]
        /\ call' = [call EXCEPT ![p].conflicts =
                      IF resp[p].status = "conflict" THEN @ + 1 ELSE @]
    BY <1>2, Zenon DEF PutFailed
  <2>2. call \in [Procs -> Call] /\ pc \in [Procs -> {"idle", "get", "put", "wait", "backoff"}]
        /\ resp \in [Procs -> Response] /\ reqs \subseteq Requests
    BY DEF IInv, TypeOK
  <2>3. \A q \in Procs : call'[q].op = call[q].op /\ call'[q].attempt = call[q].attempt
    BY <2>1, <2>2
  <2>4. /\ pc'[p] = "backoff" /\ resp'[p].status = "none"
        /\ \A q \in Procs \ {p} : pc'[q] = pc[q] /\ resp'[q] = resp[q]
    BY <2>1, <2>2 DEF NoResp
  <2>5. StoreInv' /\ HandleInv' /\ PutInv' /\ NoLostUpdate'
    BY DEF IInv, StoreInv, HandleInv, PutInv, NoLostUpdate
  <2>6. DirtyInv'
    BY <2>3, <2>4 DEF IInv, DirtyInv
  <2>7. FreshInv'
    BY <2>2, <2>3, <2>4 DEF IInv, FreshInv, Numbered, Requests
  <2>8. AwaitedInv'
    BY <2>2, <2>3, <2>4 DEF IInv, AwaitedInv, Awaited, Carries, Requests
  <2>9. AnswerInv'
    BY <2>3, <2>4 DEF IInv, AnswerInv
  <2>. QED  BY <2>5, <2>6, <2>7, <2>8, <2>9 DEF IInv, TypeInv
<1>. QED  BY <1>1, <1>2

\* The caller takes another object between calls.
LEMMA TakeStep ==
  ASSUME IInv, TypeInv', NEW p \in Procs, pc[p] = "idle", NEW h,
         handle' = [handle EXCEPT ![p] = h],
         UNCHANGED <<store, reqs, resp, pc, call, calls, acked>>,
         h.id # NoId => Follows(p, h.version, h.content, store[h.id]),
         h.id = NoId => h.version = 0 /\ \A q \in Procs \ {p} : h.content[q] = 0
  PROVE  IInv'
PROOF
<1>. handle'[p] = h /\ \A q \in Procs \ {p} : handle'[q] = handle[q]
  BY DEF IInv, TypeOK
<1>r. reqs \subseteq Requests
  BY DEF IInv, TypeOK
<1>1. HandleInv'
  BY DEF IInv, HandleInv
<1>2. DirtyInv'
  BY DEF IInv, DirtyInv
<1>3. AwaitedInv'
  <2>. SUFFICES ASSUME NEW r \in reqs, Awaited(r)' PROVE Carries(r)'
    BY <1>r DEF AwaitedInv
  <2>1. r.from \in Procs \ {p}
    BY <1>r DEF Awaited, Requests
  <2>2. Awaited(r) /\ Carries(r)
    BY <1>r, <2>1 DEF IInv, AwaitedInv, Awaited
  <2>. QED  BY <1>r, <2>1, <2>2 DEF Carries
<1>4. AnswerInv'
  BY DEF IInv, AnswerInv, ControlInv
<1>5. StoreInv' /\ PutInv' /\ FreshInv' /\ NoLostUpdate'
  BY DEF IInv, StoreInv, PutInv, FreshInv, Numbered, NoLostUpdate
<1>. QED  BY <1>1, <1>2, <1>3, <1>4, <1>5 DEF IInv, TypeInv

LEMMA ProceedStep ==
  ASSUME IInv, NEW p \in Procs, Proceed(p)
  PROVE  IInv'
PROOF
<1>t. TypeInv'
  BY ProceedType DEF IInv, TypeInv
<1>. /\ store \in [Ids -> Object] /\ handle \in [Procs -> Handle] /\ call \in [Procs -> Call]
     /\ pc \in [Procs -> {"idle", "get", "put", "wait", "backoff"}] /\ resp \in [Procs -> Response]
     /\ reqs \subseteq Requests /\ calls \in [Procs -> Nat]
     /\ pc[p] = "get" => call[p].id \in Ids
  BY DEF IInv, TypeOK, ControlInv
<1>h. UNCHANGED <<store, handle, acked>> => HandleInv' /\ NoLostUpdate'
  BY DEF IInv, HandleInv, NoLostUpdate
<1>1. CASE UpdateGet(p)
  <2>. DEFINE i == call[p].id
              h == Mutated(Loaded(i), p)
  <2>1. /\ pc[p] = "get" /\ pc' = [pc EXCEPT ![p] = "put"] /\ store[i].status = "active"
        /\ handle' = [handle EXCEPT ![p] = h]
        /\ UNCHANGED <<store, reqs, resp, call, calls, acked>>
    BY <1>1 DEF UpdateGet
  <2>2. /\ i \in Ids /\ h.id = i /\ h.version = store[i].version
        /\ h.content[p] = store[i].content[p] + 1
        /\ \A q \in Procs \ {p} : h.content[q] = store[i].content[q]
    <3>1. i \in Ids /\ store[i] \in Object
      BY <2>1
    <3>2. /\ Loaded(i) \in Handle /\ Loaded(i).id = i /\ Loaded(i).version = store[i].version
          /\ Loaded(i).content = store[i].content
      BY <3>1, LoadedType
    <3>. HIDE DEF Handle
    <3>. QED  BY <3>1, <3>2, MutatedType
  <2>. HIDE DEF h
  <2>3. /\ handle'[p] = h /\ pc'[p] = "put"
        /\ \A q \in Procs \ {p} : handle'[q] = handle[q] /\ pc'[q] = pc[q]
    BY <2>1
  <2>4. HandleInv'
    BY <2>1, <2>2, <2>3 DEF IInv, HandleInv, Follows
  <2>5. DirtyInv'
    BY <2>1, <2>2, <2>3 DEF IInv, DirtyInv, Adds
  <2>6. FreshInv'
    <3>. SUFFICES ASSUME NEW r \in reqs PROVE Numbered(r)'
      BY <2>1 DEF FreshInv
    <3>1. Numbered(r) /\ r.from \in Procs
      BY DEF IInv, FreshInv, Requests
    <3>. QED  BY <2>1, <2>3, <3>1 DEF Numbered
  <2>7. AwaitedInv'
    <3>. SUFFICES ASSUME NEW r \in reqs, Awaited(r)' PROVE Carries(r)'
      BY <2>1 DEF AwaitedInv
    <3>1. r.from \in Procs \ {p}
      BY <2>3 DEF Awaited, Requests
    <3>2. Awaited(r) /\ Carries(r)
      BY <2>1, <2>3, <3>1 DEF IInv, AwaitedInv, Awaited
    <3>. QED  BY <2>1, <2>3, <3>1, <3>2 DEF Carries
  <2>8. AnswerInv'
    BY <2>1, <2>3 DEF IInv, AnswerInv, ControlInv
  <2>9. StoreInv' /\ PutInv' /\ NoLostUpdate'
    BY <2>1 DEF IInv, StoreInv, PutInv, NoLostUpdate
  <2>. QED  BY <1>t, <2>4, <2>5, <2>6, <2>7, <2>8, <2>9 DEF IInv, TypeInv
<1>2. CASE UpdateGetFails(p)
  <2>1. PICK err : Return(p, err)
    BY <1>2 DEF UpdateGetFails
  <2>. QED  BY <1>t, <1>h, <1>2, <2>1, ReturnStep DEF UpdateGetFails
<1>3. CASE SendPut(p)
  <2>. DEFINE r == Request(p, "put", handle[p], calls[p], call[p].attempt)
  <2>1. /\ r.kind = "put" /\ r.from = p /\ r.id = handle[p].id
        /\ r.version = handle[p].version + 1 /\ r.content = handle[p].content
        /\ r.call = calls[p] /\ r.attempt = call[p].attempt
    BY DEF Request
  <2>2. /\ pc[p] = "put" /\ pc' = [pc EXCEPT ![p] = "wait"] /\ reqs' = reqs \cup {r}
        /\ UNCHANGED <<store, resp, handle, call, calls, acked>>
    BY <1>3 DEF SendPut
  <2>. HIDE DEF r
  <2>3. pc'[p] = "wait" /\ \A q \in Procs \ {p} : pc'[q] = pc[q]
    BY <2>2
  <2>4. call[p].op \in {"put", "update"} /\ handle[p].version \in Nat /\ handle[p].id \in Ids \cup {NoId}
    BY <2>2 DEF IInv, ControlInv
  <2>5. DirtyInv'
    BY <2>2, <2>3 DEF IInv, DirtyInv
  <2>6. PutInv'
    <3>1. r.version - 1 = handle[p].version
      BY <2>1, <2>4
    <3>2. /\ r.version >= 1
          /\ r.id # NoId => /\ Follows(p, r.version - 1, r.content, store[r.id])
                            /\ Adds(p, r.version - 1, r.content, store[r.id])
          /\ r.id = NoId => /\ r.version = 1 /\ r.content[p] > 0
                            /\ \A q \in Procs \ {p} : r.content[q] = 0
      BY <2>1, <2>2, <2>4, <3>1 DEF IInv, HandleInv, DirtyInv
    <3>. QED  BY <2>1, <2>2, <3>2 DEF IInv, PutInv
  <2>7. FreshInv'
    <3>. SUFFICES ASSUME NEW m \in reqs' PROVE Numbered(m)'
      BY DEF FreshInv
    <3>1. CASE m = r
      <4>1. call[p].attempt <= call[p].attempt /\ calls[p] <= calls[p]
        BY DEF IInv, TypeInv, TypeOK
      <4>. QED  BY <2>1, <2>2, <2>3, <3>1, <4>1 DEF Numbered
    <3>2. CASE m # r
      <4>1. m \in reqs /\ Numbered(m) /\ m.from \in Procs
        BY <2>2, <3>2 DEF IInv, FreshInv, Requests
      <4>2. m.attempt \in Int /\ call[m.from].attempt \in Int
        BY <4>1 DEF Requests
      <4>. QED  BY <2>2, <2>3, <4>1, <4>2 DEF Numbered
    <3>. QED  BY <3>1, <3>2
  <2>8. AwaitedInv'
    BY <2>1, <2>2, <2>3, <2>4 DEF IInv, AwaitedInv, Awaited, Carries, FreshInv, Numbered, Requests
  <2>9. AnswerInv' /\ StoreInv' /\ HandleInv' /\ NoLostUpdate'
    BY <2>2 DEF IInv, AnswerInv, StoreInv, HandleInv, NoLostUpdate
  <2>. QED  BY <1>t, <2>5, <2>6, <2>7, <2>8, <2>9 DEF IInv, TypeInv
<1>4. CASE PutAborts(p)
  <2>1. PICK err : PutFailed(p, err)
    BY <1>4 DEF PutAborts
  <2>. QED  BY <1>t, <1>4, <2>1, PutFailedStep DEF PutAborts
<1>5. CASE Receive(p)
  <2>1. CASE resp[p].status = "ok" /\ call[p].op \in {"put", "update"}
    <3>. DEFINE i == resp[p].id
                h == AfterPut(handle[p], resp[p])
    <3>1. /\ Return(p, "ok")
          /\ handle' = [handle EXCEPT ![p] = h]
          /\ acked' = [acked EXCEPT ![p][i] = handle[p].content[p]]
          /\ UNCHANGED <<store, reqs, calls>>
      BY <1>5, <2>1, Zenon DEF Receive
    <3>2. /\ i \in Ids /\ Follows(p, resp[p].version, handle[p].content, store[i])
          /\ handle[p].content[p] <= store[i].content[p]
      BY <2>1 DEF IInv, AnswerInv
    <3>3. h.id = i /\ h.version = resp[p].version /\ h.content = handle[p].content
      <4>1. handle[p] \in Handle /\ resp[p] \in Response
        OBVIOUS
      <4>. QED  BY <4>1 DEF AfterPut
    <3>. HIDE DEF h
    <3>4. handle'[p] = h /\ \A q \in Procs \ {p} : handle'[q] = handle[q]
      BY <3>1
    <3>5. HandleInv'
      BY <3>1, <3>2, <3>3, <3>4 DEF IInv, HandleInv
    <3>6. NoLostUpdate'
      <4>1. \A q \in Procs, j \in Ids :
              acked'[q][j] = IF q = p /\ j = i THEN handle[p].content[p] ELSE acked[q][j]
        BY <3>1 DEF IInv, TypeOK
      <4>. QED  BY <3>1, <3>2, <4>1 DEF IInv, NoLostUpdate
    <3>. QED  BY <1>t, <3>1, <3>4, <3>5, <3>6, ReturnStep
  <2>2. CASE ~(resp[p].status = "ok" /\ call[p].op \in {"put", "update"})
    <3>1. UNCHANGED <<store, reqs, calls, handle, acked>> /\ pc[p] = "wait"
      BY <1>5, <2>2 DEF Receive
    <3>2. PICK err : PutFailed(p, err) \/ Return(p, err)
      BY <1>5, <2>2 DEF Receive
    <3>. QED  BY <1>t, <1>h, <3>1, <3>2, PutFailedStep, ReturnStep
  <2>. QED  BY <2>1, <2>2
<1>6. CASE GiveUp(p)
  <2>1. UNCHANGED <<store, reqs, calls, handle, acked>> /\ pc[p] = "wait"
    BY <1>6 DEF GiveUp
  <2>2. PICK err : PutFailed(p, err) \/ Return(p, err)
    BY <1>6 DEF GiveUp
  <2>. QED  BY <1>t, <1>h, <2>1, <2>2, PutFailedStep, ReturnStep
<1>7. CASE Backoff(p)
  <2>1. CASE Return(p, "cancelled")
    BY <1>t, <1>h, <1>7, <2>1, ReturnStep DEF Backoff
  <2>2. CASE ~Return(p, "cancelled")
    <3>1. /\ pc[p] = "backoff" /\ pc' = [pc EXCEPT ![p] = "get"]
          /\ call' = [call EXCEPT ![p].attempt = @ + 1]
          /\ UNCHANGED <<resp, store, reqs, handle, calls, acked>>
      BY <1>7, <2>2 DEF Backoff
    <3>2. /\ pc'[p] = "get" /\ call'[p].op = call[p].op /\ call'[p].attempt = call[p].attempt + 1
          /\ \A q \in Procs \ {p} : pc'[q] = pc[q] /\ call'[q] = call[q]
      BY <3>1
    <3>3. FreshInv'
      BY <3>1, <3>2 DEF IInv, FreshInv, Numbered, Requests
    <3>4. AwaitedInv'
      <4>. SUFFICES ASSUME NEW r \in reqs, Awaited(r)' PROVE Carries(r)'
        BY <3>1, <3>2 DEF AwaitedInv
      <4>1. r.from \in Procs \ {p}
        BY <3>1, <3>2 DEF Awaited, Requests
      <4>2. Awaited(r) /\ Carries(r)
        BY <3>1, <3>2, <4>1 DEF IInv, AwaitedInv, Awaited
      <4>. QED  BY <3>1, <3>2, <4>1, <4>2 DEF Carries
    <3>5. DirtyInv' /\ AnswerInv'
      BY <3>1, <3>2 DEF IInv, DirtyInv, AnswerInv, ControlInv
    <3>6. StoreInv' /\ PutInv' /\ HandleInv' /\ NoLostUpdate'
      BY <3>1 DEF IInv, StoreInv, PutInv, HandleInv, NoLostUpdate
    <3>. QED  BY <1>t, <3>3, <3>4, <3>5, <3>6 DEF IInv, TypeInv
  <2>. QED  BY <2>1, <2>2
<1>8. CASE UpdateRejects(p)
  <2>. DEFINE i == call[p].id
              h == Mutated(Loaded(i), p)
  <2>1. /\ pc[p] = "get" /\ store[i].status = "active"
        /\ handle' = [handle EXCEPT ![p] = h]
        /\ Return(p, "validation") /\ UNCHANGED <<store, reqs, calls, acked>>
    BY <1>8 DEF UpdateRejects
  <2>2. /\ i \in Ids /\ h.id = i /\ h.version = store[i].version
        /\ h.content[p] = store[i].content[p] + 1
        /\ \A q \in Procs \ {p} : h.content[q] = store[i].content[q]
    <3>1. i \in Ids /\ store[i] \in Object
      BY <2>1
    <3>2. /\ Loaded(i) \in Handle /\ Loaded(i).id = i /\ Loaded(i).version = store[i].version
          /\ Loaded(i).content = store[i].content
      BY <3>1, LoadedType
    <3>. HIDE DEF Handle
    <3>. QED  BY <3>1, <3>2, MutatedType
  <2>. HIDE DEF h
  <2>3. handle'[p] = h /\ \A q \in Procs \ {p} : handle'[q] = handle[q]
    BY <2>1
  <2>4. HandleInv'
    BY <2>1, <2>2, <2>3 DEF IInv, HandleInv, Follows
  <2>5. NoLostUpdate'
    BY <2>1 DEF IInv, NoLostUpdate
  <2>. QED  BY <1>t, <2>1, <2>3, <2>4, <2>5, ReturnStep
<1>. QED  BY <1>8, <1>1, <1>2, <1>3, <1>4, <1>5, <1>6, <1>7 DEF Proceed

LEMMA InvInit == Init => IInv
PROOF
<1>. SUFFICES ASSUME Init PROVE IInv
  OBVIOUS
<1>1. TypeOK /\ ControlInv
  BY TypeInit DEF TypeInv
<1>2. StoreInv /\ HandleInv /\ NoLostUpdate
  BY DEF Init, StoreInv, HandleInv, NoLostUpdate, Absent, FreshObject, Zero
<1>3. DirtyInv /\ PutInv /\ FreshInv /\ AwaitedInv /\ AnswerInv
  BY DEF Init, DirtyInv, PutInv, FreshInv, AwaitedInv, AnswerInv, NoResp
<1>. QED  BY <1>1, <1>2, <1>3 DEF IInv

\* A call begins; c is fresh, so no request in flight is awaited by it.
LEMMA BeginStep ==
  ASSUME IInv, TypeInv', NEW p \in Procs, NEW c, NEW at, Begin(p, c, at), at # "wait",
         \A q \in Procs \ {p} : handle'[q] = handle[q],
         UNCHANGED <<store, reqs, resp, acked>>,
         HandleInv', at = "put" => DirtyInv'
  PROVE  IInv'
PROOF
<1>1. /\ pc[p] = "idle" /\ pc'[p] = at /\ call'[p] = c /\ calls'[p] = calls[p] + 1
      /\ \A q \in Procs \ {p} : pc'[q] = pc[q] /\ call'[q] = call[q] /\ calls'[q] = calls[q]
  BY DEF Begin, IInv, TypeOK
<1>2. reqs \subseteq Requests /\ calls \in [Procs -> Nat]
  BY DEF IInv, TypeOK
<1>3. StoreInv' /\ PutInv' /\ NoLostUpdate'
  BY DEF IInv, StoreInv, PutInv, NoLostUpdate
<1>4. DirtyInv'
  BY <1>1 DEF IInv, DirtyInv
<1>5. FreshInv'
  BY <1>1, <1>2 DEF IInv, FreshInv, Numbered, Requests
<1>6. AwaitedInv'
  <2>. SUFFICES ASSUME NEW r \in reqs, Awaited(r)' PROVE Carries(r)'
    BY DEF AwaitedInv
  <2>1. r.from \in Procs \ {p}
    BY <1>1, <1>2 DEF Awaited, Requests
  <2>2. Awaited(r) /\ Carries(r)
    BY <1>1, <2>1 DEF IInv, AwaitedInv, Awaited
  <2>. QED  BY <1>1, <2>1, <2>2 DEF Carries
<1>7. AnswerInv'
  BY <1>1 DEF IInv, AnswerInv, ControlInv
<1>. QED  BY <1>3, <1>4, <1>5, <1>6, <1>7 DEF IInv, TypeInv

LEMMA CallerStepInv ==
  ASSUME IInv, NEW p \in Procs, CallerStep(p), TypeInv'
  PROVE  IInv'
PROOF
<1>. /\ store \in [Ids -> Object] /\ handle \in [Procs -> Handle] /\ reqs \subseteq Requests
     /\ pc \in [Procs -> {"idle", "get", "put", "wait", "backoff"}] /\ call \in [Procs -> Call]
     /\ calls \in [Procs -> Nat]
  BY DEF IInv, TypeOK
<1>1. CASE New(p)
  BY <1>1, TakeStep DEF New, FreshObject, Zero
<1>2. ASSUME NEW i \in Ids, Get(p, i) PROVE IInv'
  <2>1. Follows(p, Loaded(i).version, Loaded(i).content, store[i]) /\ Loaded(i).id = i
    BY <1>2, LoadedType DEF Get, Follows
  <2>. QED  BY <1>2, <2>1, TakeStep DEF Get
<1>3. ASSUME NEW i \in Ids, List(p, i) PROVE IInv'
  <2>1. store[i] \in Object /\ store[i].status = "active"
    BY <1>3 DEF List
  <2>2. Follows(p, Listed(i).version, Listed(i).content, store[i]) /\ Listed(i).id = i
    BY <2>1, ListedType DEF Follows
  <2>. QED  BY <1>3, <2>2, TakeStep DEF List
<1>4. CASE Put(p)
  <2>. DEFINE h == Mutated(handle[p], p)
  <2>1. /\ h.id = handle[p].id /\ h.version = handle[p].version
        /\ h.content[p] = handle[p].content[p] + 1
        /\ \A q \in Procs \ {p} : h.content[q] = handle[p].content[q]
    <3>1. handle[p] \in Handle
      OBVIOUS
    <3>. QED  BY <3>1 DEF Mutated
  <2>2. /\ pc[p] = "idle" /\ Begin(p, NewCall("put", handle[p].id, 0, 0), "put")
        /\ handle' = [handle EXCEPT ![p] = h] /\ UNCHANGED <<store, reqs, resp, acked>>
    BY <1>4 DEF Put, Begin
  <2>. HIDE DEF h
  <2>3. /\ handle'[p] = h /\ \A q \in Procs \ {p} : handle'[q] = handle[q]
        /\ pc'[p] = "put" /\ \A q \in Procs \ {p} : pc'[q] = pc[q] /\ call'[q] = call[q]
    BY <2>2 DEF Begin
  <2>4. HandleInv'
    BY <2>1, <2>2, <2>3 DEF IInv, HandleInv, Follows
  <2>5. DirtyInv'
    BY <2>1, <2>2, <2>3 DEF IInv, DirtyInv, HandleInv, Follows, Adds
  <2>. QED  BY <2>2, <2>3, <2>4, <2>5, BeginStep
<1>5. ASSUME NEW i \in Ids, NEW n \in RetryOptions, Update(p, i, n) PROVE IInv'
  <2>0. HandleInv'
    BY <1>5 DEF Update, IInv, HandleInv
  <2>1. CASE n >= 0
    <3>1. /\ Begin(p, NewCall("update", i, n, store[i].version), "get")
          /\ UNCHANGED <<store, reqs, resp, handle, acked>>
      BY <1>5, <2>1 DEF Update
    <3>. QED  BY <2>0, <3>1, BeginStep
  <2>2. CASE ~(n >= 0)
    <3>1. UNCHANGED <<store, reqs, resp, handle, pc, call, calls, acked>>
      BY <1>5, <2>2 DEF Update
    <3>2. StoreInv' /\ DirtyInv' /\ PutInv' /\ AnswerInv' /\ NoLostUpdate'
      BY <3>1 DEF IInv, StoreInv, DirtyInv, PutInv, AnswerInv, NoLostUpdate
    <3>3. FreshInv' /\ AwaitedInv'
      BY <3>1 DEF IInv, FreshInv, Numbered, AwaitedInv, Awaited, Carries
    <3>. QED  BY <2>0, <3>2, <3>3 DEF IInv, TypeInv
  <2>. QED  BY <2>1, <2>2
<1>6. ASSUME NEW i \in Ids, NEW op \in {"delete", "recover"}, DeleteOrRecover(p, i, op)
      PROVE  IInv'
  <2>. DEFINE r == Request(p, op, [FreshObject EXCEPT !.id = i], calls[p] + 1, 0)
  <2>1. r.kind = op /\ r.from = p /\ r.call = calls[p] + 1 /\ r.attempt = 0
    BY DEF Request
  <2>2. /\ Begin(p, NewCall(op, i, 0, 0), "wait") /\ reqs' = reqs \cup {r}
        /\ UNCHANGED <<store, resp, handle, acked>>
    BY <1>6 DEF DeleteOrRecover
  <2>. HIDE DEF r
  <2>3. /\ pc[p] = "idle" /\ pc'[p] = "wait" /\ call'[p].op = op /\ call'[p].attempt = 0
        /\ calls'[p] = calls[p] + 1
        /\ \A q \in Procs \ {p} : pc'[q] = pc[q] /\ call'[q] = call[q] /\ calls'[q] = calls[q]
    BY <2>2 DEF Begin, NewCall
  <2>4. StoreInv' /\ HandleInv' /\ NoLostUpdate'
    BY <2>2 DEF IInv, StoreInv, HandleInv, NoLostUpdate
  <2>5. DirtyInv'
    BY <2>2, <2>3 DEF IInv, DirtyInv
  <2>6. PutInv'
    BY <2>1, <2>2 DEF IInv, PutInv
  <2>7. FreshInv'
    <3>. SUFFICES ASSUME NEW x \in reqs'
                  PROVE  Numbered(x)'
      BY DEF FreshInv
    <3>1. CASE x = r
      BY <2>1, <2>3, <3>1 DEF Numbered
    <3>2. CASE x # r
      <4>1. x \in reqs /\ x.from \in Procs /\ x.call \in Nat /\ Numbered(x)
        BY <2>2, <3>2 DEF Requests, IInv, FreshInv
      <4>2. CASE x.from = p
        <5>1. x.call <= calls[p] /\ calls[p] \in Nat
          BY <4>1, <4>2 DEF Numbered
        <5>. QED  BY <2>3, <4>1, <4>2, <5>1 DEF Numbered
      <4>3. CASE x.from # p
        BY <2>3, <4>1, <4>3 DEF Numbered
      <4>. QED  BY <4>2, <4>3
    <3>. QED  BY <3>1, <3>2
  <2>8. AwaitedInv'
    <3>. SUFFICES ASSUME NEW x \in reqs', Awaited(x)' PROVE Carries(x)'
      BY DEF AwaitedInv
    <3>1. CASE x = r
      BY <2>1, <2>3, <3>1 DEF Carries
    <3>2. CASE x # r
      <4>1. x \in reqs /\ x.from \in Procs
        BY <2>2, <3>2 DEF Requests
      <4>2. x.from # p
        BY <2>3, <4>1 DEF Awaited, IInv, FreshInv, Numbered
      <4>3. Awaited(x) /\ Carries(x)
        BY <2>3, <4>1, <4>2 DEF IInv, AwaitedInv, Awaited
      <4>. QED  BY <2>2, <2>3, <4>1, <4>2, <4>3 DEF Carries
    <3>. QED  BY <3>1, <3>2
  <2>9. AnswerInv'
    BY <2>2, <2>3 DEF IInv, AnswerInv, ControlInv
  <2>. QED  BY <2>4, <2>5, <2>6, <2>7, <2>8, <2>9 DEF IInv, TypeInv
<1>7. CASE Cancel(p)
  BY <1>7 DEF Cancel, IInv, TypeInv, StoreInv, HandleInv, DirtyInv, PutInv,
     FreshInv, Numbered, AwaitedInv, Awaited, Carries, AnswerInv, NoLostUpdate
<1>. QED  BY <1>1, <1>2, <1>3, <1>4, <1>5, <1>6, <1>7, ProceedStep DEF CallerStep, Delete, Recover

LEMMA InvStep == IInv /\ [Next]_vars => IInv'
PROOF
<1>. SUFFICES ASSUME IInv, [Next]_vars PROVE IInv'
  OBVIOUS
<1>t. TypeInv'
  BY TypeStep DEF IInv, TypeInv
<1>1. CASE UNCHANGED vars
  BY <1>t, <1>1 DEF vars, IInv, TypeInv, StoreInv, HandleInv, DirtyInv, PutInv,
     FreshInv, Numbered, AwaitedInv, Awaited, Carries, AnswerInv, NoLostUpdate
<1>2. ASSUME NEW p \in Procs, CallerStep(p) PROVE IInv'
  BY <1>t, <1>2, CallerStepInv
<1>3. ASSUME NEW r \in reqs, Serve(r) PROVE IInv'
  BY <1>3, ServeStep
<1>. QED  BY <1>1, <1>2, <1>3 DEF Next, ServerStep, Finished

LEMMA Invariant == Spec => []IInv
PROOF
  BY InvInit, InvStep, PTL DEF Spec

\* No update a caller was told of is ever overwritten, whatever requests are
\* lost, late, retried or refused.
THEOREM UpdatesAreKept == Spec => []NoLostUpdate
PROOF
<1>1. IInv => NoLostUpdate
  BY DEF IInv
<1>. QED  BY <1>1, Invariant, PTL

\* An object in hand that carries the stored version carries the stored data.
THEOREM SnapshotsAreCoherent == Spec => []HandlesAreSnapshots
PROOF
<1>1. IInv => HandlesAreSnapshots
  BY DEF IInv, HandleInv, Follows, HandlesAreSnapshots
<1>. QED  BY <1>1, Invariant, PTL

-----------------------------------------------------------------------------
(* The objects are atomic.                                                 *)

LEMMA ServeIsAtomic ==
  ASSUME IInv, NEW r \in reqs, Serve(r)
  PROVE  Atomic!Next \/ store' = store
PROOF
<1>. /\ store \in [Ids -> Object]
     /\ r.from \in Procs /\ r.version \in Nat /\ r.content \in Content
     /\ r.id \in Ids \cup {NoId} /\ (r.kind # "put" => r.id \in Ids)
  BY DEF IInv, TypeOK, Requests
<1>1. CASE ServeCreate(r)
  <2>1. PICK i \in Ids :
          /\ store[i].status = "absent"
          /\ store' = [store EXCEPT ![i] = [status |-> "active", version |-> r.version,
                                            content |-> r.content]]
    BY <1>1 DEF ServeCreate
  <2>2. /\ r.version = 1 /\ r.content[r.from] > 0
        /\ \A q \in Procs \ {r.from} : r.content[q] = 0
    BY <1>1 DEF ServeCreate, IInv, PutInv
  <2>3. store[i].version = 0 /\ \A q \in Procs : store[i].content[q] = 0
    BY <2>1 DEF IInv, StoreInv
  <2>4. store[i].content \in [Procs -> Nat]
    OBVIOUS
  <2>5. r.content = [store[i].content EXCEPT ![r.from] = r.content[r.from]]
    BY <2>2, <2>3, <2>4
  <2>6. store'[i] = [status |-> "active", version |-> r.version, content |-> r.content]
    BY <2>1
  <2>7. store' = [store EXCEPT ![i] = store'[i]]
    BY <2>1
  <2>8. Atomic!Mutates(r.from, i)
    <3>1. store'[i].content[r.from] = r.content[r.from] /\ r.version = store[i].version + 1
      BY <2>2, <2>3, <2>6
    <3>. QED  BY <2>1, <2>2, <2>3, <2>5, <3>1 DEF Atomic!Mutates
  <2>. QED  BY <2>1, <2>8 DEF Atomic!Next, Atomic!Create
<1>2. CASE ServeUpdate(r)
  <2>. DEFINE i == r.id
  <2>1. /\ i \in Ids /\ store[i].status = "active"
        /\ store' = [store EXCEPT ![i].version = r.version, ![i].content = r.content]
        /\ r.version = store[i].version + 1
    BY <1>2 DEF ServeUpdate
  <2>2. /\ r.content[r.from] > store[i].content[r.from]
        /\ \A q \in Procs \ {r.from} : r.content[q] = store[i].content[q]
    <3>1. /\ Follows(r.from, r.version - 1, r.content, store[i])
          /\ Adds(r.from, r.version - 1, r.content, store[i])
      BY <1>2 DEF ServeUpdate, IInv, PutInv
    <3>2. r.version - 1 = store[i].version
      BY <2>1
    <3>. QED  BY <3>1, <3>2 DEF Follows, Adds
  <2>3. store[i].content \in [Procs -> Nat] /\ store[i] \in Object
    BY <2>1
  <2>4. r.content = [store[i].content EXCEPT ![r.from] = r.content[r.from]]
    BY <2>2, <2>3
  <2>5. /\ store'[i].status = "active" /\ store'[i].version = r.version
        /\ store'[i].content = r.content
    BY <2>1, <2>3
  <2>6. store' = [store EXCEPT ![i] = store'[i]]
    BY <2>1
  <2>. HIDE DEF i
  <2>7. Atomic!Mutates(r.from, i)
    <3>1. store'[i] = [status |-> "active", version |-> store[i].version + 1,
                       content |-> [store[i].content EXCEPT ![r.from] = r.content[r.from]]]
      <4>1. store'[i] \in Object
        BY <2>1, <2>3
      <4>. QED  BY <2>1, <2>4, <2>5, <4>1
    <3>. QED  BY <2>2, <2>5, <2>6, <3>1 DEF Atomic!Mutates
  <2>. QED  BY <2>1, <2>7 DEF Atomic!Next, Atomic!Modify
<1>3. CASE ServeDelete(r) \/ ServeRecover(r)
  BY <1>3 DEF ServeDelete, ServeRecover, Atomic!Next, Atomic!Delete, Atomic!Recover
<1>4. CASE ServeConflict(r) \/ ServeGone(r) \/ Refuse(r)
  BY <1>4 DEF ServeConflict, ServeGone, Refuse
<1>. QED  BY <1>1, <1>2, <1>3, <1>4 DEF Serve

\* The objects of the server, whatever its callers do, are atomic objects: every
\* version is made from the one before it by one caller's mutations.
THEOREM ObjectsAreAtomic == Spec => IsAtomic
PROOF
<1>1. Init => Atomic!Init
  BY DEF Init, Atomic!Init, Absent, Zero, Atomic!Absent
<1>2. IInv /\ [Next]_vars => [Atomic!Next]_store
  <2>. SUFFICES ASSUME IInv, Next PROVE Atomic!Next \/ store' = store
    BY DEF vars
  <2>1. ASSUME NEW r \in reqs, Serve(r) PROVE Atomic!Next \/ store' = store
    BY <2>1, ServeIsAtomic
  <2>2. ASSUME NEW p \in Procs, CallerStep(p) PROVE store' = store
    BY <2>2 DEF CallerStep, New, Get, List, Put, Update, Delete, Recover, DeleteOrRecover,
       Cancel, Proceed, UpdateGet, UpdateGetFails, UpdateRejects, SendPut, PutAborts, Receive, GiveUp, Backoff
  <2>. QED  BY <2>1, <2>2 DEF Next, ServerStep, Finished, vars
<1>. QED  BY <1>1, <1>2, Invariant, PTL DEF Spec, IsAtomic, Atomic!Spec

\* Nothing the server ever stored is undone: no mutation of a caller disappears,
\* told or not, no version comes back, and two reads that give the same version
\* of an object give the same content.
THEOREM StoreGoesForward == Spec => [][Atomic!Forward]_store
PROOF
<1>. QED  BY ObjectsAreAtomic, Atomic!NothingIsUndone, PTL DEF IsAtomic

=============================================================================
