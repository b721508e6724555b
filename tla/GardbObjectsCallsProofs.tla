----------------------- MODULE GardbObjectsCallsProofs -----------------------
(***************************************************************************)
(* More about GardbObjects for every set of callers and ids: what a call   *)
(* may do to the store, and what the conflicts it meets mean.              *)
(* The invariant of GardbObjectsProofs says what objects, requests and     *)
(* answers carry; the ones here say how often and since when.              *)
(***************************************************************************)
EXTENDS GardbObjectsProofs, FiniteSetTheorems

USE ConstantsOK DEF Content, Object, Handle, Call, Response, Errors, Statuses

-----------------------------------------------------------------------------
(* A caller's step, component by component.                                *)

\* p's step leaves the server and the other callers alone.
Frame(p) ==
  /\ store' = store
  /\ \A q \in Procs \ {p} :
       /\ handle'[q] = handle[q] /\ pc'[q] = pc[q] /\ call'[q] = call[q]
       /\ resp'[q] = resp[q] /\ asked'[q] = asked[q] /\ resent'[q] = resent[q]
       /\ calls'[q] = calls[q]

SameCounts(p) == asked'[p] = asked[p] /\ resent'[p] = resent[p] /\ calls'[p] = calls[p]
SameCall(p) == pc'[p] = pc[p] /\ call'[p] = call[p] /\ resp'[p] = resp[p] /\ SameCounts(p)

Rests(p) == SameCall(p) /\ reqs' = reqs /\ handle'[p] = handle[p]

Takes(p) ==
  /\ pc[p] = "idle" /\ SameCall(p) /\ reqs' = reqs
  /\ \/ handle'[p] = FreshObject
     \/ \E i \in Ids : handle'[p] = Loaded(i) \/ handle'[p] = Listed(i)

BeginsPut(p) ==
  /\ pc[p] = "idle" /\ pc'[p] = "put" /\ call'[p].op = "put" /\ resp'[p] = resp[p]
  /\ asked'[p] = asked[p] + 1 /\ resent'[p] = resent[p] /\ calls'[p] = calls[p] + 1
  /\ reqs' = reqs /\ handle'[p] = Mutated(handle[p], p)

BeginsUpdate(p) ==
  /\ pc[p] = "idle" /\ pc'[p] = "get" /\ resp'[p] = resp[p]
  /\ \E i \in Ids, n \in Nat : call'[p] = NewCall("update", i, n, store[i].version)
  /\ asked'[p] = asked[p] + 1 /\ resent'[p] = resent[p] /\ calls'[p] = calls[p] + 1
  /\ reqs' = reqs /\ handle'[p] = handle[p]

BeginsOther(p) ==
  /\ pc[p] = "idle" /\ pc'[p] = "wait" /\ resp'[p] = resp[p]
  /\ call'[p].op \in {"delete", "recover"} /\ call'[p].attempt = 0
  /\ asked'[p] = asked[p] /\ resent'[p] = resent[p] /\ calls'[p] = calls[p] + 1
  /\ handle'[p] = handle[p]
  /\ \E r \in Requests : /\ r.kind # "put" /\ r.id # NoId /\ r.from = p
                         /\ r.call = calls[p] + 1 /\ r.attempt = 0
                         /\ reqs' = reqs \cup {r}

Reads(p) ==
  /\ pc[p] = "get" /\ pc'[p] = "put" /\ call'[p] = call[p] /\ resp'[p] = resp[p]
  /\ SameCounts(p) /\ reqs' = reqs
  /\ handle'[p] = Mutated(Loaded(call[p].id), p)

Ends(p) ==
  /\ pc[p] # "idle" /\ pc'[p] = "idle" /\ call'[p] = NoCall /\ resp'[p] = NoResp
  /\ SameCounts(p) /\ reqs' = reqs
  /\ \/ handle'[p] = handle[p]
     \/ pc[p] = "get" /\ handle'[p] = Mutated(Loaded(call[p].id), p)
     \/ /\ resp[p].status = "ok" /\ call[p].op \in {"put", "update"}
        /\ handle'[p] = AfterPut(handle[p], resp[p])

BacksOff(p) ==
  /\ pc[p] \in {"put", "wait"} /\ call[p].op = "update" /\ call[p].attempt < call[p].retries
  /\ pc'[p] = "backoff" /\ resp'[p] = NoResp
  /\ call'[p] = [call[p] EXCEPT !.conflicts = IF resp[p].status = "conflict" THEN @ + 1 ELSE @]
  /\ reqs' = reqs /\ handle'[p] = handle[p]
  /\ asked'[p] = asked[p] /\ calls'[p] = calls[p]
  /\ \/ resent'[p] = resent[p] + 1
     \/ resent'[p] = resent[p] /\ (pc[p] = "put" \/ resp[p].status \notin {"none", "ok"})

Sends(p) ==
  /\ pc[p] = "put" /\ pc'[p] = "wait" /\ call'[p] = call[p] /\ resp'[p] = resp[p]
  /\ SameCounts(p) /\ handle'[p] = handle[p]
  /\ reqs' = reqs \cup {Request(p, "put", handle[p], calls[p], call[p].attempt)}

Retries(p) ==
  /\ pc[p] = "backoff" /\ pc'[p] = "get" /\ resp'[p] = resp[p]
  /\ call'[p] = [call[p] EXCEPT !.attempt = @ + 1]
  /\ SameCounts(p) /\ reqs' = reqs /\ handle'[p] = handle[p]

Moves(p) ==
  /\ Frame(p)
  /\ \/ Rests(p) \/ Takes(p) \/ BeginsPut(p) \/ BeginsUpdate(p) \/ BeginsOther(p)
     \/ Reads(p) \/ Ends(p) \/ BacksOff(p) \/ Sends(p) \/ Retries(p)

\* A call returns.
LEMMA ReturnEnds ==
  ASSUME IInv, NEW p \in Procs, NEW err, Return(p, err), pc[p] # "idle",
         UNCHANGED <<store, reqs, calls, asked, resent>>,
         \A q \in Procs \ {p} : handle'[q] = handle[q],
         \/ handle'[p] = handle[p]
         \/ pc[p] = "get" /\ handle'[p] = Mutated(Loaded(call[p].id), p)
         \/ /\ resp[p].status = "ok" /\ call[p].op \in {"put", "update"}
            /\ handle'[p] = AfterPut(handle[p], resp[p])
  PROVE  Moves(p)
PROOF
<1>1. /\ pc'[p] = "idle" /\ call'[p] = NoCall /\ resp'[p] = NoResp
      /\ \A q \in Procs \ {p} : pc'[q] = pc[q] /\ call'[q] = call[q] /\ resp'[q] = resp[q]
  BY DEF Return, IInv, TypeOK
<1>2. Frame(p)
  BY <1>1 DEF Frame
<1>3. Ends(p)
  BY <1>1 DEF Ends, SameCounts
<1>. QED  BY <1>2, <1>3 DEF Moves

\* A Put fails: it ends the call, or Update backs off.
LEMMA PutFailedMoves ==
  ASSUME IInv, NEW p \in Procs, NEW err, PutFailed(p, err), pc[p] \in {"put", "wait"},
         UNCHANGED <<store, reqs, handle, calls, asked>>,
         \A q \in Procs \ {p} : resent'[q] = resent[q],
         pc'[p] = "idle" => resent' = resent,
         pc'[p] = "backoff" =>
           \/ resent'[p] = resent[p] + 1
           \/ resent'[p] = resent[p] /\ (pc[p] = "put" \/ resp[p].status \notin {"none", "ok"})
  PROVE  Moves(p)
PROOF
<1>. /\ call \in [Procs -> Call] /\ resp \in [Procs -> Response]
     /\ pc \in [Procs -> {"idle", "get", "put", "wait", "backoff"}]
  BY DEF IInv, TypeOK
<1>1. CASE Return(p, err)
  <2>1. resent' = resent
    BY <1>1 DEF Return
  <2>. QED  BY <1>1, <2>1, ReturnEnds
<1>2. CASE ~Return(p, err)
  <2>1. /\ call[p].op = "update" /\ call[p].attempt < call[p].retries
        /\ pc' = [pc EXCEPT ![p] = "backoff"]
        /\ resp' = [resp EXCEPT ![p] = NoResp]
        /\ call' = [call EXCEPT ![p].conflicts =
                      IF resp[p].status = "conflict" THEN @ + 1 ELSE @]
    BY <1>2, Zenon DEF PutFailed
  <2>2. /\ pc'[p] = "backoff" /\ resp'[p] = NoResp
        /\ \A q \in Procs \ {p} : pc'[q] = pc[q] /\ resp'[q] = resp[q]
    BY <2>1
  <2>3. /\ call'[p] = [call[p] EXCEPT !.conflicts =
                         IF resp[p].status = "conflict" THEN @ + 1 ELSE @]
        /\ \A q \in Procs \ {p} : call'[q] = call[q]
    BY <2>1, Zenon
  <2>4. Frame(p)
    BY <2>2, <2>3 DEF Frame
  <2>5. BacksOff(p)
    BY <2>1, <2>2, <2>3 DEF BacksOff
  <2>. QED  BY <2>4, <2>5 DEF Moves
<1>. QED  BY <1>1, <1>2

LEMMA CallerMoves ==
  ASSUME IInv, NEW p \in Procs, CallerStep(p)
  PROVE  Moves(p)
PROOF
<1>. /\ store \in [Ids -> Object] /\ handle \in [Procs -> Handle] /\ call \in [Procs -> Call]
     /\ pc \in [Procs -> {"idle", "get", "put", "wait", "backoff"}] /\ resp \in [Procs -> Response]
     /\ calls \in [Procs -> Nat] /\ asked \in [Procs -> Nat] /\ resent \in [Procs -> Nat]
     /\ pc[p] = "get" => call[p].id \in Ids
  BY DEF IInv, TypeOK, ControlInv
<1>1. CASE New(p)
  <2>1. Frame(p) /\ Takes(p)
    BY <1>1 DEF New, Frame, Takes, SameCall, SameCounts
  <2>. QED  BY <2>1 DEF Moves
<1>2. ASSUME NEW i \in Ids, Get(p, i) \/ List(p, i) PROVE Moves(p)
  <2>1. Frame(p) /\ Takes(p)
    BY <1>2 DEF Get, List, Frame, Takes, SameCall, SameCounts
  <2>. QED  BY <2>1 DEF Moves
<1>3. CASE Put(p)
  <2>1. /\ Begin(p, NewCall("put", handle[p].id, 0, 0), "put")
        /\ handle' = [handle EXCEPT ![p] = Mutated(handle[p], p)]
        /\ asked' = [asked EXCEPT ![p] = @ + 1]
        /\ UNCHANGED <<store, reqs, resp, resent>>
    BY <1>3, Zenon DEF Put
  <2>2. Frame(p) /\ BeginsPut(p)
    BY <2>1 DEF Begin, NewCall, Frame, BeginsPut
  <2>. QED  BY <2>2 DEF Moves
<1>4. ASSUME NEW i \in Ids, NEW n \in RetryOptions, Update(p, i, n) PROVE Moves(p)
  <2>1. CASE n >= 0
    <3>1. /\ Begin(p, NewCall("update", i, n, store[i].version), "get")
          /\ asked' = [asked EXCEPT ![p] = @ + 1]
          /\ UNCHANGED <<store, reqs, resp, handle, resent>>
      BY <1>4, <2>1 DEF Update
    <3>2. n \in Nat
      BY <2>1
    <3>3. Frame(p) /\ BeginsUpdate(p)
      BY <3>1, <3>2 DEF Begin, Frame, BeginsUpdate
    <3>. QED  BY <3>3 DEF Moves
  <2>2. CASE ~(n >= 0)
    <3>1. UNCHANGED <<store, reqs, resp, handle, pc, call, calls, asked, resent>>
      BY <1>4, <2>2 DEF Update
    <3>. QED  BY <3>1 DEF Moves, Frame, Rests, SameCall, SameCounts
  <2>. QED  BY <2>1, <2>2
<1>5. ASSUME NEW i \in Ids, NEW op \in {"delete", "recover"}, DeleteOrRecover(p, i, op)
      PROVE  Moves(p)
  <2>. DEFINE r == Request(p, op, [FreshObject EXCEPT !.id = i], calls[p] + 1, 0)
  <2>1. /\ r.kind = op /\ r.from = p /\ r.call = calls[p] + 1 /\ r.attempt = 0 /\ r.id = i
        /\ r \in Requests
    <3>1. calls[p] + 1 \in Nat /\ 0 + 1 \in Nat /\ Zero \in Content
      BY DEF Zero
    <3>2. r = [kind |-> op, from |-> p, id |-> i, version |-> 0 + 1, content |-> Zero,
               call |-> calls[p] + 1, attempt |-> 0]
      BY DEF Request, FreshObject
    <3>. HIDE DEF r
    <3>. QED  BY <3>1, <3>2 DEF Requests
  <2>2. /\ Begin(p, NewCall(op, i, 0, 0), "wait") /\ reqs' = reqs \cup {r}
        /\ UNCHANGED <<store, resp, handle, asked, resent>>
    BY <1>5 DEF DeleteOrRecover
  <2>. HIDE DEF r
  <2>3. Frame(p) /\ BeginsOther(p)
    BY <2>1, <2>2 DEF Begin, NewCall, Frame, BeginsOther
  <2>. QED  BY <2>3 DEF Moves
<1>6. CASE Cancel(p)
  BY <1>6 DEF Cancel, Moves, Frame, Rests, SameCall, SameCounts
<1>7. CASE UpdateGet(p)
  <2>1. Frame(p) /\ Reads(p)
    BY <1>7 DEF UpdateGet, Frame, Reads, SameCounts
  <2>. QED  BY <2>1 DEF Moves
<1>8. CASE UpdateGetFails(p)
  <2>1. PICK err : Return(p, err)
    BY <1>8 DEF UpdateGetFails
  <2>. QED  BY <1>8, <2>1, ReturnEnds DEF UpdateGetFails
<1>9. CASE UpdateRejects(p)
  <2>1. handle'[p] = Mutated(Loaded(call[p].id), p) /\ \A q \in Procs \ {p} : handle'[q] = handle[q]
    BY <1>9 DEF UpdateRejects
  <2>. QED  BY <1>9, <2>1, ReturnEnds DEF UpdateRejects
<1>10. CASE SendPut(p)
  <2>1. Frame(p) /\ Sends(p)
    BY <1>10 DEF SendPut, Frame, Sends, SameCounts
  <2>. QED  BY <2>1 DEF Moves
<1>11. CASE PutAborts(p)
  <2>1. PICK err : PutFailed(p, err)
    BY <1>11 DEF PutAborts
  <2>. QED  BY <1>11, <2>1, PutFailedMoves DEF PutAborts
<1>12. CASE Receive(p)
  <2>1. CASE resp[p].status = "ok"
    <3>1. Return(p, "ok") /\ UNCHANGED <<store, reqs, calls, asked, resent>> /\ pc[p] = "wait"
      BY <1>12, <2>1 DEF Receive
    <3>2. IF call[p].op \in {"put", "update"}
            THEN handle' = [handle EXCEPT ![p] = AfterPut(handle[p], resp[p])]
            ELSE handle' = handle
      BY <1>12, <2>1, Zenon DEF Receive
    <3>. QED  BY <2>1, <3>1, <3>2, ReturnEnds
  <2>2. CASE resp[p].status # "ok"
    <3>1. UNCHANGED <<store, reqs, calls, asked, resent, handle>> /\ pc[p] = "wait"
          /\ resp[p].status # "none"
      BY <1>12, <2>2 DEF Receive
    <3>2. PICK err : PutFailed(p, err) \/ Return(p, err)
      BY <1>12, <2>2 DEF Receive
    <3>. QED  BY <2>2, <3>1, <3>2, PutFailedMoves, ReturnEnds
  <2>. QED  BY <2>1, <2>2
<1>13. CASE GiveUp(p)
  <2>1. UNCHANGED <<store, reqs, calls, asked, handle>> /\ pc[p] = "wait"
    BY <1>13 DEF GiveUp
  <2>2. PICK err : PutFailed(p, err) \/ Return(p, err)
    BY <1>13 DEF GiveUp
  <2>3. resent' = IF pc'[p] = "backoff" THEN [resent EXCEPT ![p] = @ + 1] ELSE resent
    BY <1>13 DEF GiveUp
  <2>4. pc'[p] = "backoff" => resent'[p] = resent[p] + 1
    BY <2>3
  <2>5. \A q \in Procs \ {p} : resent'[q] = resent[q]
    BY <2>3
  <2>6. Return(p, err) \in BOOLEAN => (Return(p, err) => pc'[p] = "idle")
    BY DEF Return
  <2>. QED  BY <2>1, <2>2, <2>3, <2>4, <2>5, <2>6, PutFailedMoves, ReturnEnds
<1>14. CASE Backoff(p)
  <2>1. CASE Return(p, "cancelled")
    BY <1>14, <2>1, ReturnEnds DEF Backoff
  <2>2. CASE ~Return(p, "cancelled")
    <3>1. /\ pc[p] = "backoff" /\ pc' = [pc EXCEPT ![p] = "get"]
          /\ call' = [call EXCEPT ![p].attempt = @ + 1]
          /\ UNCHANGED <<resp, store, reqs, handle, calls, asked, resent>>
      BY <1>14, <2>2 DEF Backoff
    <3>2. /\ call'[p] = [call[p] EXCEPT !.attempt = @ + 1]
          /\ \A q \in Procs \ {p} : call'[q] = call[q]
      BY <3>1, Zenon
    <3>3. Frame(p) /\ Retries(p)
      BY <3>1, <3>2 DEF Frame, Retries, SameCounts
    <3>. QED  BY <3>3 DEF Moves
  <2>. QED  BY <2>1, <2>2
<1>. QED  BY <1>1, <1>2, <1>3, <1>4, <1>5, <1>6, <1>7, <1>8, <1>9, <1>10, <1>11, <1>12, <1>13, <1>14
     DEF CallerStep, Proceed, Delete, Recover
-----------------------------------------------------------------------------
(* The server's step, component by component.                              *)

\* r is served: its answer reaches the caller that waits for it, and what is
\* stored is what r asks for.
Answers(r) ==
  /\ reqs' = reqs \ {r}
  /\ UNCHANGED <<handle, pc, call, calls, asked, resent>>
  /\ \A q \in Procs : resp'[q] = resp[q] \/ (q = r.from /\ Awaited(r))
  /\ \A i \in Ids :
       /\ store[i].version <= store'[i].version
       /\ \/ store'[i].content = store[i].content
          \/ /\ r.kind = "put" /\ store'[i].content = r.content
             /\ Awaited(r) => resp'[r.from].status = "ok"
  /\ Awaited(r) /\ resp'[r.from].status = "conflict" =>
       /\ r.kind = "put" /\ r.id \in Ids /\ resp'[r.from].id = r.id
       /\ store[r.id].status = "active" /\ r.version # store[r.id].version + 1

LEMMA ServeAnswers ==
  ASSUME IInv, NEW r \in reqs, Serve(r)
  PROVE  Answers(r)
PROOF
<1>. /\ store \in [Ids -> Object] /\ resp \in [Procs -> Response]
     /\ r.from \in Procs /\ r.version \in Nat /\ r.content \in Content
     /\ r.id \in Ids \cup {NoId} /\ (r.kind # "put" => r.id \in Ids)
  BY DEF IInv, TypeOK, Requests
<1>0. ASSUME NEW status, NEW i, NEW v, Answer(r, status, i, v)
      PROVE  /\ reqs' = reqs \ {r}
             /\ UNCHANGED <<handle, pc, call, calls, asked, resent>>
             /\ \A q \in Procs : resp'[q] = resp[q] \/ (q = r.from /\ Awaited(r))
             /\ Awaited(r) => resp'[r.from].status = status /\ resp'[r.from].id = i
  BY <1>0 DEF Answer
<1>1. CASE ServeCreate(r)
  <2>1. PICK i \in Ids :
          /\ store[i].status = "absent"
          /\ store' = [store EXCEPT ![i] = [status |-> "active", version |-> r.version,
                                            content |-> r.content]]
          /\ Answer(r, "ok", i, r.version)
    BY <1>1 DEF ServeCreate
  <2>2. store[i].version = 0
    BY <2>1 DEF IInv, StoreInv
  <2>3. \A j \in Ids : store[j].version <= store'[j].version
                       /\ (store'[j].content = store[j].content \/ store'[j].content = r.content)
    BY <2>1, <2>2
  <2>. QED  BY <1>1, <1>0, <2>1, <2>3 DEF Answers, ServeCreate
<1>2. CASE ServeUpdate(r)
  <2>1. /\ r.id \in Ids /\ r.version = store[r.id].version + 1 /\ Answer(r, "ok", r.id, r.version)
        /\ store'[r.id].version = r.version /\ store'[r.id].content = r.content
        /\ \A j \in Ids \ {r.id} : store'[j] = store[j]
    BY <1>2 DEF ServeUpdate
  <2>2. \A j \in Ids : store[j].version <= store'[j].version
                       /\ (store'[j].content = store[j].content \/ store'[j].content = r.content)
    BY <2>1
  <2>. QED  BY <1>2, <1>0, <2>1, <2>2 DEF Answers, ServeUpdate
<1>3. CASE ServeConflict(r)
  BY <1>3, <1>0 DEF Answers, ServeConflict
<1>4. CASE ServeDelete(r) \/ ServeRecover(r)
  <2>1. PICK st \in {"active", "deleted"} : store' = [store EXCEPT ![r.id].status = st]
    BY <1>4 DEF ServeDelete, ServeRecover
  <2>2. Answer(r, "ok", r.id, 0)
    BY <1>4 DEF ServeDelete, ServeRecover
  <2>3. \A j \in Ids : store'[j].version = store[j].version /\ store'[j].content = store[j].content
    BY <2>1
  <2>. QED  BY <1>0, <2>2, <2>3 DEF Answers
<1>5. CASE ServeGone(r)
  <2>1. PICK status \in {"notFound", "gone"} : Answer(r, status, r.id, 0)
    BY <1>5 DEF ServeGone
  <2>. QED  BY <1>5, <1>0, <2>1 DEF Answers, ServeGone
<1>6. CASE Refuse(r)
  <2>1. PICK status \in Refusals \ {"session", "validation"} : Answer(r, status, r.id, 0)
    BY <1>6 DEF Refuse
  <2>. QED  BY <1>6, <1>0, <2>1 DEF Answers, Refuse
<1>. QED  BY <1>1, <1>2, <1>3, <1>4, <1>5, <1>6 DEF Serve

-----------------------------------------------------------------------------
(* A caller waits for one request at a time.                               *)

LoneInv ==
  /\ \A r, x \in reqs : r.from = x.from /\ Awaited(r) /\ Awaited(x) => r = x
  /\ \A r \in reqs : Awaited(r) => resp[r.from].status = "none"

LEMMA LoneMoves ==
  ASSUME IInv, LoneInv, NEW p \in Procs, Moves(p)
  PROVE  LoneInv'
PROOF
<1>. /\ reqs \subseteq Requests /\ \A r \in Requests : r.from \in Procs /\ r.call \in Nat
     /\ calls \in [Procs -> Nat]
  BY DEF IInv, TypeOK, Requests
<1>1. \A r \in Requests : r.from # p => (Awaited(r)' <=> Awaited(r)) /\ resp'[r.from] = resp[r.from]
  BY DEF Moves, Frame, Awaited
<1>2. CASE reqs' = reqs /\ ((pc'[p] = pc[p] /\ SameCall(p)) \/ pc'[p] # "wait")
  <2>1. \A r \in reqs : Awaited(r)' => Awaited(r) /\ resp'[r.from] = resp[r.from]
    BY <1>1, <1>2 DEF Awaited, SameCall, SameCounts
  <2>. QED  BY <1>2, <2>1 DEF LoneInv
<1>3. ASSUME NEW m \in Requests, reqs' = reqs \cup {m}, m.from = p,
             resp'[p].status = "none",
             \A r \in reqs : r.from = p => ~Awaited(r)'
      PROVE  LoneInv'
  <2>1. \A r \in reqs : Awaited(r)' => r.from # p /\ Awaited(r) /\ resp'[r.from] = resp[r.from]
    BY <1>1, <1>3
  <2>. QED  BY <1>3, <2>1 DEF LoneInv
<1>4. CASE BeginsOther(p)
  <2>1. PICK m \in Requests : m.from = p /\ reqs' = reqs \cup {m}
    BY <1>4 DEF BeginsOther
  <2>2. resp'[p].status = "none" /\ calls'[p] = calls[p] + 1
    BY <1>4 DEF BeginsOther, IInv, ControlInv
  <2>3. \A r \in reqs : r.from = p => ~Awaited(r)'
    BY <2>2 DEF Awaited, IInv, FreshInv, Numbered
  <2>. QED  BY <1>3, <2>1, <2>2, <2>3
<1>5. CASE Sends(p)
  <2>. DEFINE m == Request(p, "put", handle[p], calls[p], call[p].attempt)
  <2>1. m \in Requests /\ m.from = p
    BY DEF Request, Requests, IInv, TypeOK
  <2>. HIDE DEF m
  <2>2. /\ resp'[p].status = "none" /\ calls'[p] = calls[p] /\ call'[p] = call[p]
        /\ pc[p] = "put" /\ reqs' = reqs \cup {m}
    BY <1>5 DEF Sends, SameCounts, IInv, ControlInv, m
  <2>3. \A r \in reqs : r.from = p => ~Awaited(r)'
    <3>. SUFFICES ASSUME NEW r \in reqs, r.from = p, Awaited(r)' PROVE FALSE
      OBVIOUS
    <3>1. r.call = calls[p] /\ r.attempt = call[p].attempt
      BY <2>2 DEF Awaited
    <3>2. Numbered(r) /\ call[p].attempt \in Nat
      BY DEF IInv, FreshInv, TypeOK
    <3>. QED  BY <2>2, <3>1, <3>2 DEF Numbered
  <2>. QED  BY <1>3, <2>1, <2>2, <2>3
<1>. QED  BY <1>2, <1>4, <1>5 DEF Moves, Rests, Takes, BeginsPut, BeginsUpdate, Reads, Ends,
     BacksOff, Retries, SameCall

LEMMA LoneAnswers ==
  ASSUME IInv, LoneInv, NEW r \in reqs, Answers(r)
  PROVE  LoneInv'
PROOF
<1>. reqs \subseteq Requests /\ \A x \in Requests : x.from \in Procs
  BY DEF IInv, TypeOK, Requests
<1>1. \A x \in reqs' : x \in reqs /\ x # r /\ (Awaited(x)' <=> Awaited(x))
  BY DEF Answers, Awaited
<1>2. \A x \in reqs' : Awaited(x) => resp'[x.from] = resp[x.from]
  BY <1>1 DEF Answers, LoneInv
<1>. QED  BY <1>1, <1>2 DEF LoneInv
-----------------------------------------------------------------------------
(* What a conflict means.                                                  *)

\* An object with a version has the version it was filled from.
SeenInv == \A p \in Procs : handle[p].version # 0 => handle[p].version = handle[p].seen

\* The attempt under way has read what the conflicts before it stored.
WinnerInv ==
  \A p \in Procs :
    call[p].op = "update" /\ pc[p] \in {"put", "wait"} =>
      /\ handle[p].id = call[p].id
      /\ handle[p].version >= call[p].base + call[p].conflicts

\* A conflict is about a stored object.
ConflictIdInv == \A p \in Procs : resp[p].status = "conflict" => resp[p].id \in Ids

RaceInv ==
  SeenInv /\ ConflictIdInv /\ ConflictOnlyIfRaced /\ WinnerInv /\ EachConflictHasAWinner

LEMMA RaceMoves ==
  ASSUME IInv, IInv', RaceInv, NEW p \in Procs, Moves(p)
  PROVE  RaceInv'
PROOF
<1>. /\ store \in [Ids -> Object] /\ handle \in [Procs -> Handle] /\ call \in [Procs -> Call]
     /\ resp \in [Procs -> Response]
     /\ handle' \in [Procs -> Handle] /\ call' \in [Procs -> Call]
     /\ pc[p] \in {"get", "put", "backoff", "wait"} /\ call[p].op = "update" => call[p].id \in Ids
  BY DEF IInv, TypeOK
<1>. /\ store' = store
     /\ \A q \in Procs \ {p} : handle'[q] = handle[q] /\ pc'[q] = pc[q] /\ call'[q] = call[q]
                               /\ resp'[q] = resp[q]
  BY DEF Moves, Frame
\* It is enough to look at p.
<1>0. ASSUME handle'[p].version # 0 => handle'[p].version = handle'[p].seen,
             resp'[p].status = "conflict" => resp'[p] = resp[p] /\ handle'[p] = handle[p],
             call'[p].op = "update" /\ pc'[p] \in {"put", "wait"} =>
               /\ handle'[p].id = call'[p].id
               /\ handle'[p].version >= call'[p].base + call'[p].conflicts,
             call'[p].op = "update" =>
               store[call'[p].id].version >= call'[p].base + call'[p].conflicts
                 + (IF resp'[p].status = "conflict" THEN 1 ELSE 0)
      PROVE  RaceInv'
  <2>1. SeenInv' /\ WinnerInv'
    BY <1>0 DEF RaceInv, SeenInv, WinnerInv
  <2>. HIDE DEF Object, Handle, Call, Response
  <2>2. ConflictIdInv' /\ ConflictOnlyIfRaced'
    <3>. SUFFICES ASSUME NEW q \in Procs, resp'[q].status = "conflict"
                  PROVE  /\ resp'[q].id \in Ids
                         /\ handle'[q].version # 0 => store[resp'[q].id].version > handle'[q].seen
      BY Zenon DEF ConflictIdInv, ConflictOnlyIfRaced
    <3>1. resp'[q] = resp[q] /\ handle'[q] = handle[q]
      BY <1>0
    <3>. QED  BY <3>1 DEF RaceInv, ConflictIdInv, ConflictOnlyIfRaced
  <2>3. EachConflictHasAWinner'
    <3>. SUFFICES ASSUME NEW q \in Procs, call'[q].op = "update"
                  PROVE  store[call'[q].id].version >= call'[q].base + call'[q].conflicts
                           + (IF resp'[q].status = "conflict" THEN 1 ELSE 0)
      BY DEF EachConflictHasAWinner
    <3>1. CASE q = p
      BY <1>0, <3>1
    <3>2. CASE q # p
      BY <3>2 DEF RaceInv, EachConflictHasAWinner
    <3>. QED  BY <3>1, <3>2
  <2>. QED  BY <2>1, <2>2, <2>3 DEF RaceInv
<1>c. pc[p] # "wait" => resp[p].status = "none"
  BY DEF IInv, ControlInv
<1>l. ASSUME NEW i \in Ids
      PROVE  /\ Loaded(i).id = i /\ Loaded(i).version = store[i].version
             /\ Loaded(i).seen = store[i].version /\ Listed(i).version = 0
             /\ Mutated(Loaded(i), p).id = i
             /\ Mutated(Loaded(i), p).version = store[i].version
             /\ Mutated(Loaded(i), p).seen = store[i].version
  BY DEF Loaded, Listed, Mutated
<1>m. Mutated(handle[p], p).version = handle[p].version /\ Mutated(handle[p], p).seen = handle[p].seen
  BY DEF Mutated
<1>1. CASE Rests(p)
  BY <1>0, <1>1 DEF Rests, SameCall, RaceInv, SeenInv, WinnerInv, EachConflictHasAWinner
<1>2. CASE Takes(p)
  <2>1. handle'[p].version # 0 => handle'[p].version = handle'[p].seen
    BY <1>2, <1>l DEF Takes, FreshObject
  <2>2. pc'[p] = "idle" /\ call'[p] = call[p] /\ resp'[p] = resp[p] /\ resp[p].status = "none"
    BY <1>2, <1>c DEF Takes, SameCall
  <2>. QED  BY <1>0, <2>1, <2>2 DEF RaceInv, EachConflictHasAWinner
<1>3. CASE BeginsPut(p)
  BY <1>0, <1>3, <1>c, <1>m DEF BeginsPut, RaceInv, SeenInv
<1>4. CASE BeginsUpdate(p)
  <2>1. PICK i \in Ids, n \in Nat : call'[p] = NewCall("update", i, n, store[i].version)
    BY <1>4 DEF BeginsUpdate
  <2>2. call'[p].id = i /\ call'[p].base = store[i].version /\ call'[p].conflicts = 0
    BY <2>1 DEF NewCall
  <2>3. store[i].version \in Nat
    OBVIOUS
  <2>. QED  BY <1>0, <1>4, <1>c, <2>2, <2>3 DEF BeginsUpdate, RaceInv, SeenInv
<1>5. CASE BeginsOther(p)
  BY <1>0, <1>5, <1>c DEF BeginsOther, RaceInv, SeenInv
<1>6. CASE Reads(p)
  <2>1. call[p].op = "update" /\ call[p].id \in Ids
    BY <1>6 DEF Reads, IInv, ControlInv
  <2>2. /\ handle'[p].id = call[p].id /\ handle'[p].version = store[call[p].id].version
        /\ handle'[p].seen = store[call[p].id].version
    BY <1>6, <1>l, <2>1 DEF Reads
  <2>3. store[call[p].id].version >= call[p].base + call[p].conflicts
    <3>1. resp[p].status = "none"
      BY <1>6, <1>c DEF Reads
    <3>2. call[p].base \in Nat /\ call[p].conflicts \in Nat
      OBVIOUS
    <3>3. store[call[p].id].version >= call[p].base + call[p].conflicts
            + (IF resp[p].status = "conflict" THEN 1 ELSE 0)
      BY <2>1 DEF RaceInv, EachConflictHasAWinner
    <3>. QED  BY <3>1, <3>2, <3>3
  <2>. QED  BY <1>0, <1>6, <1>c, <2>1, <2>2, <2>3 DEF Reads
<1>7. CASE Ends(p)
  <2>1. handle'[p].version # 0 => handle'[p].version = handle'[p].seen
    <3>1. CASE handle'[p] = handle[p]
      BY <3>1 DEF RaceInv, SeenInv
    <3>2. CASE pc[p] = "get" /\ handle'[p] = Mutated(Loaded(call[p].id), p)
      BY <1>l, <3>2 DEF IInv, ControlInv
    <3>3. CASE handle'[p] = AfterPut(handle[p], resp[p])
      BY <3>3 DEF AfterPut
    <3>. QED  BY <1>7, <3>1, <3>2, <3>3 DEF Ends
  <2>2. call'[p].op = "none" /\ resp'[p].status = "none"
    BY <1>7 DEF Ends, NoCall, NewCall, NoResp
  <2>. QED  BY <1>0, <2>1, <2>2
<1>8. CASE BacksOff(p)
  <2>1. /\ call'[p].op = "update" /\ call'[p].id = call[p].id /\ call'[p].base = call[p].base
        /\ call'[p].conflicts = IF resp[p].status = "conflict" THEN call[p].conflicts + 1
                                                               ELSE call[p].conflicts
        /\ pc'[p] = "backoff" /\ resp'[p].status = "none" /\ handle'[p] = handle[p]
    BY <1>8 DEF BacksOff, NoResp
  <2>2. store[call[p].id].version >= call[p].base + call[p].conflicts
          + (IF resp[p].status = "conflict" THEN 1 ELSE 0)
    BY <1>8 DEF BacksOff, RaceInv, EachConflictHasAWinner
  <2>3. store[call'[p].id].version >= call'[p].base + call'[p].conflicts
          + (IF resp'[p].status = "conflict" THEN 1 ELSE 0)
    <3>1. call[p].base \in Nat /\ call[p].conflicts \in Nat
      OBVIOUS
    <3>. QED  BY <2>1, <2>2, <3>1
  <2>4. handle'[p].version # 0 => handle'[p].version = handle'[p].seen
    BY <2>1 DEF RaceInv, SeenInv
  <2>5. resp'[p].status # "conflict" /\ pc'[p] \notin {"put", "wait"}
    BY <2>1
  <2>. HIDE DEF Object, Handle, Call, Response
  <2>. QED  BY <1>0, <2>3, <2>4, <2>5
<1>9. CASE Sends(p)
  BY <1>0, <1>9 DEF Sends, RaceInv, SeenInv, WinnerInv, EachConflictHasAWinner
<1>10. CASE Retries(p)
  <2>1. /\ call'[p].op = call[p].op /\ call'[p].id = call[p].id /\ call'[p].base = call[p].base
        /\ call'[p].conflicts = call[p].conflicts
    BY <1>10 DEF Retries
  <2>. QED  BY <1>0, <1>10, <2>1 DEF Retries, RaceInv, SeenInv, EachConflictHasAWinner
<1>. QED  BY <1>1, <1>2, <1>3, <1>4, <1>5, <1>6, <1>7, <1>8, <1>9, <1>10 DEF Moves

LEMMA RaceAnswers ==
  ASSUME IInv, IInv', RaceInv, NEW r \in reqs, Answers(r)
  PROVE  RaceInv'
PROOF
<1>. /\ store \in [Ids -> Object] /\ store' \in [Ids -> Object]
     /\ handle \in [Procs -> Handle] /\ call \in [Procs -> Call]
     /\ resp \in [Procs -> Response] /\ r.from \in Procs /\ r.version \in Nat
  BY DEF IInv, TypeOK, Requests
<1>1. /\ UNCHANGED <<handle, pc, call>>
      /\ \A i \in Ids : store[i].version <= store'[i].version
      /\ \A q \in Procs : resp'[q] = resp[q] \/ (q = r.from /\ Awaited(r))
  BY DEF Answers
\* The refused Put named a version other than the next: the stored one is later.
<1>2. ASSUME Awaited(r), resp'[r.from].status = "conflict"
      PROVE  /\ call[r.from].op \in {"put", "update"} /\ r.id \in Ids
             /\ resp'[r.from].id = r.id /\ handle[r.from].id = r.id
             /\ store'[r.id].version > handle[r.from].version
  <2>1. /\ r.kind = "put" /\ r.id \in Ids /\ resp'[r.from].id = r.id
        /\ r.version # store[r.id].version + 1
    BY <1>2 DEF Answers
  <2>2. /\ call[r.from].op \in {"put", "update"} /\ handle[r.from].id = r.id
        /\ r.version = handle[r.from].version + 1
    BY <1>2, <2>1 DEF IInv, AwaitedInv, Carries
  <2>3. handle[r.from].version <= store[r.id].version
    <3>1. handle[r.from].id = r.id /\ r.id # NoId
      BY <2>1, <2>2
    <3>2. Follows(r.from, handle[r.from].version, handle[r.from].content, store[r.id])
      BY <3>1 DEF IInv, HandleInv
    <3>. QED  BY <3>2 DEF Follows
  <2>4. handle[r.from].version \in Nat /\ store[r.id].version \in Nat /\ store'[r.id].version \in Nat
    BY <2>1
  <2>5. store'[r.id].version >= store[r.id].version
    BY <1>1, <2>1
  <2>6. store[r.id].version > handle[r.from].version
    <3>1. ASSUME NEW v \in Nat, NEW w \in Nat, v <= w, v + 1 # w + 1 PROVE w > v
      BY <3>1
    <3>. QED  BY <2>1, <2>2, <2>3, <2>4, <3>1
  <2>. QED  BY <2>1, <2>2, <2>4, <2>5, <2>6
<1>3. SeenInv' /\ WinnerInv'
  BY <1>1 DEF RaceInv, SeenInv, WinnerInv
<1>4. ConflictOnlyIfRaced'
  <2>. SUFFICES ASSUME NEW q \in Procs, resp'[q].status = "conflict", handle[q].version # 0
                PROVE  store'[resp'[q].id].version > handle[q].seen
    BY <1>1 DEF ConflictOnlyIfRaced
  <2>1. CASE resp'[q] = resp[q]
    <3>1. store[resp[q].id].version > handle[q].seen
      BY <2>1 DEF RaceInv, ConflictOnlyIfRaced
    <3>2. resp[q].id \in Ids
      BY <2>1 DEF RaceInv, ConflictIdInv
    <3>. QED  BY <1>1, <2>1, <3>1, <3>2
  <2>2. CASE q = r.from /\ Awaited(r)
    BY <1>2, <2>2 DEF RaceInv, SeenInv
  <2>. QED  BY <1>1, <2>1, <2>2
<1>5. ConflictIdInv'
  BY <1>1, <1>2 DEF RaceInv, ConflictIdInv
<1>6. EachConflictHasAWinner'
  <2>. SUFFICES ASSUME NEW q \in Procs, call[q].op = "update"
                PROVE  store'[call[q].id].version >= call[q].base + call[q].conflicts
                         + (IF resp'[q].status = "conflict" THEN 1 ELSE 0)
    BY <1>1 DEF EachConflictHasAWinner
  <2>1. /\ call[q].id \in Ids
        /\ store[call[q].id].version >= call[q].base + call[q].conflicts
              + (IF resp[q].status = "conflict" THEN 1 ELSE 0)
    BY DEF RaceInv, EachConflictHasAWinner, IInv, TypeOK
  <2>2. CASE resp'[q] = resp[q] \/ resp'[q].status # "conflict"
    BY <1>1, <2>1, <2>2
  <2>3. CASE q = r.from /\ Awaited(r) /\ resp'[q].status = "conflict"
    <3>1. /\ handle[q].id = call[q].id
          /\ handle[q].version >= call[q].base + call[q].conflicts
      BY <2>3 DEF RaceInv, WinnerInv, Awaited
    <3>. QED  BY <1>2, <2>3, <3>1
  <2>. QED  BY <1>1, <2>2, <2>3
<1>. QED  BY <1>3, <1>4, <1>5, <1>6 DEF RaceInv
-----------------------------------------------------------------------------
(* How often a call takes effect.                                          *)

\* What p's calls may have stored: one effect for each, and one more for each
\* attempt that followed one without an answer.
Allowed(p) == asked[p] + resent[p]

\* The effect of p's call is still to come.
Open(p) ==
  \/ pc[p] \in {"get", "put", "backoff"}
  \/ pc[p] = "wait" /\ call[p].op \in {"put", "update"} /\ resp[p].status # "ok"

Used(p) == IF Open(p) THEN Allowed(p) - 1 ELSE Allowed(p)

\* The mutations of p: all but the one under way are in the store, in the other
\* callers' objects and in the requests nobody waits for.
CountInv ==
  \A p \in Procs :
    /\ \A i \in Ids : store[i].content[p] <= Used(p)
    /\ \A q \in Procs \ {p} : handle[q].content[p] <= Used(p)
    /\ handle[p].content[p] <= Allowed(p)
    /\ \A r \in reqs : r.kind = "put" =>
         /\ r.from = p /\ Awaited(r) => r.content[p] <= Allowed(p)
         /\ ~(r.from = p /\ Awaited(r)) => r.content[p] <= Used(p)

\* p's call goes on: nothing it may have stored so far is counted less.
Advances(p) ==
  /\ Used(p) <= Used(p)'
  /\ Allowed(p) <= Allowed(p)'
  /\ handle'[p].content[p] <= Allowed(p)'
  /\ \A q \in Procs \ {p} : handle'[p].content[q] <= Used(q)
  /\ \A r \in reqs : r.kind = "put" /\ r.from = p /\ Awaited(r) /\ ~Awaited(r)' =>
       Allowed(p) <= Used(p)'
  /\ \A r \in reqs' : r.kind = "put" =>
       r \in reqs \/ (r.from = p /\ Awaited(r)' /\ r.content = handle'[p].content)

LEMMA CountAdvances ==
  ASSUME IInv, IInv', CountInv, NEW p \in Procs, Frame(p), Advances(p)
  PROVE  CountInv'
PROOF
<1>. /\ reqs' \subseteq Requests /\ \A r \in Requests : r.from \in Procs /\ r.content \in Content
     /\ \A q \in Procs : Allowed(q) \in Int /\ Used(q) \in Int
                         /\ Allowed(q)' \in Int /\ Used(q)' \in Int
  BY DEF IInv, TypeOK, Requests, Allowed, Used
<1>1. /\ store' = store
      /\ \A q \in Procs \ {p} : handle'[q] = handle[q] /\ Used(q)' = Used(q) /\ Allowed(q)' = Allowed(q)
  BY DEF Frame, Used, Allowed, Open
<1>2. \A r \in reqs : r.from # p => (Awaited(r)' <=> Awaited(r))
  BY DEF Frame, Awaited, IInv, TypeOK, Requests
<1>3. \A q \in Procs : Used(q) <= Allowed(q) /\ Used(q)' <= Allowed(q)'
  BY DEF Used, Allowed
<1>. SUFFICES ASSUME NEW q \in Procs
              PROVE  /\ \A i \in Ids : store'[i].content[q] <= Used(q)'
                     /\ \A x \in Procs \ {q} : handle'[x].content[q] <= Used(q)'
                     /\ handle'[q].content[q] <= Allowed(q)'
                     /\ \A r \in reqs' : r.kind = "put" =>
                          /\ r.from = q /\ Awaited(r)' => r.content[q] <= Allowed(q)'
                          /\ ~(r.from = q /\ Awaited(r)') => r.content[q] <= Used(q)'
  BY DEF CountInv
<1>4. Used(q) <= Used(q)' /\ Allowed(q) <= Allowed(q)'
  BY <1>1 DEF Advances
<1>5. \A i \in Ids : store'[i].content[q] <= Used(q)'
  <2>. SUFFICES ASSUME NEW i \in Ids PROVE store[i].content[q] <= Used(q)'
    BY <1>1
  <2>1. store[i].content[q] <= Used(q) /\ store[i].content[q] \in Nat
    BY DEF CountInv, IInv, TypeOK
  <2>. QED  BY <1>4, <2>1
<1>6. \A x \in Procs \ {q} : handle'[x].content[q] <= Used(q)'
  <2>. SUFFICES ASSUME NEW x \in Procs \ {q} PROVE handle'[x].content[q] <= Used(q)'
    OBVIOUS
  <2>1. handle'[x].content[q] <= Used(q)
    BY <1>1 DEF CountInv, Advances
  <2>2. handle'[x].content[q] \in Nat
    BY DEF IInv, TypeOK
  <2>. QED  BY <1>4, <2>1, <2>2
<1>7. handle'[q].content[q] <= Allowed(q)'
  <2>1. CASE q = p
    BY <2>1 DEF Advances
  <2>2. CASE q # p
    BY <1>1, <2>2 DEF CountInv
  <2>. QED  BY <2>1, <2>2
<1>8. ASSUME NEW r \in reqs', r.kind = "put"
      PROVE  /\ r.from = q /\ Awaited(r)' => r.content[q] <= Allowed(q)'
             /\ ~(r.from = q /\ Awaited(r)') => r.content[q] <= Used(q)'
  <2>0. r.content[q] \in Nat /\ r.from \in Procs
    OBVIOUS
  <2>1. CASE r \in reqs
    <3>1. /\ r.from = q /\ Awaited(r) => r.content[q] <= Allowed(q)
          /\ ~(r.from = q /\ Awaited(r)) => r.content[q] <= Used(q)
      BY <1>8, <2>1 DEF CountInv
    <3>2. r.from = q /\ Awaited(r) /\ ~Awaited(r)' => Allowed(q) <= Used(q)'
      BY <1>2, <1>8, <2>1 DEF Advances
    <3>. QED  BY <1>3, <1>4, <2>0, <3>1, <3>2
  <2>2. CASE r \notin reqs
    <3>1. r.from = p /\ Awaited(r)' /\ r.content = handle'[p].content
      BY <1>8, <2>2 DEF Advances
    <3>. QED  BY <1>6, <1>7, <3>1
  <2>. QED  BY <2>1, <2>2
<1>. QED  BY <1>5, <1>6, <1>7, <1>8

LEMMA CountMoves ==
  ASSUME IInv, IInv', LoneInv, CountInv, NEW p \in Procs, Moves(p)
  PROVE  CountInv'
PROOF
<1>. /\ store \in [Ids -> Object] /\ handle \in [Procs -> Handle] /\ call \in [Procs -> Call]
     /\ resp \in [Procs -> Response] /\ asked \in [Procs -> Nat] /\ resent \in [Procs -> Nat]
     /\ handle' \in [Procs -> Handle] /\ call' \in [Procs -> Call]
     /\ reqs \subseteq Requests /\ \A r \in Requests : r.from \in Procs /\ r.call \in Nat
     /\ calls \in [Procs -> Nat]
     /\ pc[p] = "get" => call[p].id \in Ids /\ call[p].op = "update"
  BY DEF IInv, TypeOK, ControlInv, Requests
<1>. /\ store' = store /\ Frame(p)
  BY DEF Moves, Frame
<1>c. /\ pc[p] # "wait" => resp[p].status = "none"
      /\ pc[p] \in {"put", "get", "backoff"} => call[p].op \in {"put", "update"}
  BY DEF IInv, ControlInv
<1>h. /\ handle[p].content[p] <= Allowed(p) /\ handle[p].content[p] \in Nat
      /\ \A q \in Procs \ {p} : handle[p].content[q] <= Used(q)
      /\ Allowed(p) \in Nat
  BY DEF CountInv, Allowed
<1>l. ASSUME NEW i \in Ids
      PROVE  /\ Loaded(i).content = store[i].content /\ Listed(i).content = store[i].content
             /\ Mutated(Loaded(i), p).content[p] = store[i].content[p] + 1
             /\ \A q \in Procs \ {p} : Mutated(Loaded(i), p).content[q] = store[i].content[q]
             /\ store[i].content[p] \in Nat
             /\ \A q \in Procs : store[i].content[q] <= Used(q)
  <2>1. store[i] \in Object
    OBVIOUS
  <2>2. Loaded(i) \in Handle /\ Loaded(i).content = store[i].content /\ Listed(i).content = store[i].content
    BY <2>1, LoadedType, ListedType
  <2>3. \A q \in Procs : store[i].content[q] <= Used(q) /\ store[i].content[q] \in Nat
    BY <2>1 DEF CountInv
  <2>. HIDE DEF Handle
  <2>. QED  BY <2>2, <2>3, MutatedType
<1>m. /\ Mutated(handle[p], p).content[p] = handle[p].content[p] + 1
      /\ \A q \in Procs \ {p} : Mutated(handle[p], p).content[q] = handle[p].content[q]
  BY DEF Mutated
\* Most steps send nothing; what they leave to prove.
<1>0. ASSUME reqs' = reqs, Used(p) <= Used(p)', Allowed(p) <= Allowed(p)',
             handle'[p].content[p] <= Allowed(p)',
             \A q \in Procs \ {p} : handle'[p].content[q] <= Used(q),
             \/ Allowed(p) <= Used(p)'
             \/ \A r \in reqs : r.kind = "put" /\ r.from = p /\ Awaited(r) => Awaited(r)'
      PROVE  CountInv'
  <2>1. Advances(p)
    BY <1>0 DEF Advances
  <2>. QED  BY <2>1, CountAdvances
<1>1. CASE Rests(p)
  <2>1. Used(p)' = Used(p) /\ Allowed(p)' = Allowed(p) /\ Used(p) \in Int
    BY <1>1 DEF Rests, SameCall, SameCounts, Used, Allowed, Open
  <2>2. \A r \in reqs : r.from = p /\ Awaited(r) => Awaited(r)'
    BY <1>1 DEF Rests, SameCall, SameCounts, Awaited
  <2>. QED  BY <1>0, <1>1, <1>h, <2>1, <2>2 DEF Rests
<1>2. CASE Takes(p)
  <2>1. Used(p)' = Allowed(p) /\ Used(p) = Allowed(p) /\ Allowed(p)' = Allowed(p)
    BY <1>2 DEF Takes, SameCall, SameCounts, Used, Allowed, Open
  <2>2. \A q \in Procs : handle'[p].content[q] <= Used(q)
    <3>1. CASE handle'[p] = FreshObject
      <4>1. \A q \in Procs : 0 <= Used(q)
        <5>. SUFFICES ASSUME NEW q \in Procs PROVE 0 <= Used(q)
          OBVIOUS
        <5>1. CASE q = p
          BY <1>h, <2>1, <5>1
        <5>2. CASE q # p
          <6>1. handle[p].content[q] <= Used(q) /\ handle[p].content[q] \in Nat /\ Used(q) \in Int
            BY <1>h, <5>2 DEF Used, Allowed
          <6>. QED  BY <6>1
        <5>. QED  BY <5>1, <5>2
      <4>. QED  BY <3>1, <4>1 DEF FreshObject, Zero
    <3>2. ASSUME NEW i \in Ids, handle'[p] = Loaded(i) \/ handle'[p] = Listed(i)
          PROVE  \A q \in Procs : handle'[p].content[q] <= Used(q)
      BY <1>l, <3>2
    <3>. QED  BY <1>2, <3>1, <3>2 DEF Takes
  <2>. QED  BY <1>0, <1>2, <1>h, <2>1, <2>2 DEF Takes
<1>3. CASE BeginsPut(p)
  <2>0. ~Open(p) /\ Open(p)' /\ Allowed(p)' = Allowed(p) + 1
    BY <1>3 DEF BeginsPut, Allowed, Open
  <2>1. Used(p) = Allowed(p) /\ Used(p)' = Allowed(p) /\ Allowed(p)' = Allowed(p) + 1
    BY <1>h, <2>0 DEF Used
  <2>. QED  BY <1>0, <1>3, <1>h, <1>m, <2>1 DEF BeginsPut
<1>4. CASE BeginsUpdate(p)
  <2>0. ~Open(p) /\ Open(p)' /\ Allowed(p)' = Allowed(p) + 1
    BY <1>4 DEF BeginsUpdate, Allowed, Open
  <2>1. Used(p) = Allowed(p) /\ Used(p)' = Allowed(p) /\ Allowed(p)' = Allowed(p) + 1
    BY <1>h, <2>0 DEF Used
  <2>. QED  BY <1>0, <1>4, <1>h, <2>1 DEF BeginsUpdate
<1>5. CASE BeginsOther(p)
  <2>1. /\ Used(p) = Allowed(p) /\ Used(p)' = Allowed(p) /\ Allowed(p)' = Allowed(p)
    BY <1>5 DEF BeginsOther, Used, Allowed, Open
  <2>2. \A r \in reqs' : r.kind = "put" => r \in reqs
    BY <1>5 DEF BeginsOther
  <2>3. Advances(p)
    BY <1>5, <1>h, <2>1, <2>2 DEF BeginsOther, Advances
  <2>. QED  BY <2>3, CountAdvances
<1>6. CASE Reads(p)
  <2>1. /\ Used(p) = Allowed(p) - 1 /\ Used(p)' = Allowed(p) - 1 /\ Allowed(p)' = Allowed(p)
    BY <1>6 DEF Reads, SameCounts, Used, Allowed, Open
  <2>2. \A r \in reqs : r.from = p => ~Awaited(r)
    BY <1>6 DEF Reads, Awaited
  <2>3. /\ handle'[p].content[p] = store[call[p].id].content[p] + 1
        /\ \A q \in Procs \ {p} : handle'[p].content[q] <= Used(q)
        /\ store[call[p].id].content[p] <= Used(p) /\ store[call[p].id].content[p] \in Nat
    BY <1>6, <1>l DEF Reads
  <2>. QED  BY <1>0, <1>6, <1>h, <2>1, <2>2, <2>3 DEF Reads
<1>7. CASE Ends(p)
  <2>1. Used(p) <= Allowed(p) /\ Used(p)' = Allowed(p) /\ Allowed(p)' = Allowed(p)
    BY <1>7, <1>h DEF Ends, SameCounts, Used, Allowed, Open, NoCall, NewCall
  <2>2. /\ handle'[p].content[p] <= Allowed(p)
        /\ \A q \in Procs \ {p} : handle'[p].content[q] <= Used(q)
    <3>1. CASE handle'[p] = handle[p]
      BY <1>h, <3>1
    <3>2. CASE pc[p] = "get" /\ handle'[p] = Mutated(Loaded(call[p].id), p)
      <4>1. Used(p) = Allowed(p) - 1
        BY <3>2 DEF Used, Open
      <4>2. /\ handle'[p].content[p] = store[call[p].id].content[p] + 1
            /\ \A q \in Procs \ {p} : handle'[p].content[q] <= Used(q)
            /\ store[call[p].id].content[p] <= Used(p) /\ store[call[p].id].content[p] \in Nat
        BY <1>l, <3>2
      <4>. QED  BY <1>h, <4>1, <4>2
    <3>3. CASE handle'[p] = AfterPut(handle[p], resp[p])
      <4>1. handle'[p].content = handle[p].content
        BY <3>3 DEF AfterPut
      <4>. QED  BY <1>h, <4>1
    <3>. QED  BY <1>7, <3>1, <3>2, <3>3 DEF Ends
  <2>. QED  BY <1>0, <1>7, <1>h, <2>1, <2>2 DEF Ends
<1>8. CASE BacksOff(p)
  <2>1. /\ Used(p)' = Allowed(p)' - 1 /\ pc'[p] = "backoff"
        /\ reqs' = reqs /\ handle'[p] = handle[p] /\ Used(p) <= Allowed(p) /\ Used(p) \in Int
    BY <1>8, <1>h DEF BacksOff, Used, Open, Allowed
  <2>2. CASE resent'[p] = resent[p] + 1
    <3>1. Allowed(p)' = Allowed(p) + 1
      BY <1>8, <2>2 DEF BacksOff, Allowed
    <3>. QED  BY <1>0, <1>h, <2>1, <3>1
  <2>3. CASE resent'[p] = resent[p] /\ (pc[p] = "put" \/ resp[p].status \notin {"none", "ok"})
    <3>1. Allowed(p)' = Allowed(p) /\ Used(p) = Allowed(p) - 1
      BY <1>8, <2>3 DEF BacksOff, Allowed, Used, Open
    <3>2. ASSUME NEW r \in reqs, r.from = p, Awaited(r) PROVE FALSE
      <4>1. pc[p] = "wait" /\ resp[p].status = "none"
        BY <3>2 DEF LoneInv, Awaited
      <4>. QED  BY <2>3, <4>1
    <3>. QED  BY <1>0, <1>h, <2>1, <3>1, <3>2
  <2>. QED  BY <1>8, <2>2, <2>3 DEF BacksOff
<1>9. CASE Sends(p)
  <2>0. PICK m : m = Request(p, "put", handle[p], calls[p], call[p].attempt)
    OBVIOUS
  <2>1. m.from = p /\ m.content = handle[p].content /\ m.call = calls[p] /\ m.attempt = call[p].attempt
    BY <2>0 DEF Request
  <2>2. reqs' = reqs \cup {m}
    BY <1>9, <2>0 DEF Sends
  <2>3. /\ pc[p] = "put" /\ pc'[p] = "wait" /\ call'[p] = call[p] /\ resp'[p] = resp[p]
        /\ asked'[p] = asked[p] /\ resent'[p] = resent[p] /\ calls'[p] = calls[p]
        /\ handle'[p] = handle[p]
    BY <1>9 DEF Sends, SameCounts
  <2>4. Awaited(m)'
    BY <2>1, <2>3 DEF Awaited
  <2>5. /\ Used(p) = Allowed(p) - 1 /\ Used(p)' = Allowed(p) - 1 /\ Allowed(p)' = Allowed(p)
    BY <1>c, <2>3 DEF Used, Allowed, Open
  <2>6. \A r \in reqs : r.from = p => ~Awaited(r)
    BY <2>3 DEF Awaited
  <2>7. Advances(p)
    BY <1>h, <2>1, <2>2, <2>3, <2>4, <2>5, <2>6 DEF Advances
  <2>. QED  BY <2>7, CountAdvances
<1>10. CASE Retries(p)
  <2>1. /\ Used(p) = Allowed(p) - 1 /\ Used(p)' = Allowed(p) - 1 /\ Allowed(p)' = Allowed(p)
    BY <1>10 DEF Retries, SameCounts, Used, Allowed, Open
  <2>2. \A r \in reqs : r.from = p => ~Awaited(r)
    BY <1>10 DEF Retries, Awaited
  <2>. QED  BY <1>0, <1>10, <1>h, <2>1, <2>2 DEF Retries
<1>. QED  BY <1>1, <1>2, <1>3, <1>4, <1>5, <1>6, <1>7, <1>8, <1>9, <1>10 DEF Moves
LEMMA CountAnswers ==
  ASSUME IInv, IInv', LoneInv, CountInv, NEW r \in reqs, Answers(r)
  PROVE  CountInv'
PROOF
<1>. /\ reqs \subseteq Requests /\ \A x \in Requests : x.from \in Procs /\ x.content \in Content
     /\ \A q \in Procs : Allowed(q) \in Int /\ Used(q) \in Int /\ Used(q)' \in Int
  BY DEF IInv, TypeOK, Requests, Allowed, Used
<1>1. /\ UNCHANGED handle /\ reqs' = reqs \ {r}
      /\ \A q \in Procs : Allowed(q)' = Allowed(q)
      /\ \A x \in reqs : Awaited(x)' <=> Awaited(x)
  BY DEF Answers, Allowed, Awaited
\* Only the caller that waits for r is told something, and nothing is un-told.
<1>2. \A q \in Procs : /\ Used(q) <= Allowed(q) /\ Used(q)' <= Allowed(q)
                       /\ q # r.from \/ ~Awaited(r) => Used(q)' = Used(q)
  BY <1>1 DEF Answers, Used, Open
<1>3. Awaited(r) /\ resp'[r.from].status = "ok" => Used(r.from)' = Allowed(r.from)
  BY <1>1 DEF Answers, Used, Open, Awaited
<1>4. \A q \in Procs : Used(q) <= Used(q)'
  <2>. SUFFICES ASSUME NEW q \in Procs, q = r.from, Awaited(r) PROVE Used(q) <= Used(q)'
    BY <1>2
  <2>1. Open(q)' => Open(q)
    BY DEF Answers, Open, LoneInv
  <2>. QED  BY <1>1, <2>1 DEF Used
<1>. SUFFICES ASSUME NEW q \in Procs
              PROVE  /\ \A i \in Ids : store'[i].content[q] <= Used(q)'
                     /\ \A x \in Procs \ {q} : handle[x].content[q] <= Used(q)'
                     /\ handle[q].content[q] <= Allowed(q)
                     /\ \A m \in reqs' : m.kind = "put" =>
                          /\ m.from = q /\ Awaited(m) => m.content[q] <= Allowed(q)
                          /\ ~(m.from = q /\ Awaited(m)) => m.content[q] <= Used(q)'
  BY <1>1 DEF CountInv
<1>5. \A i \in Ids : store'[i].content[q] <= Used(q)'
  <2>. SUFFICES ASSUME NEW i \in Ids PROVE store'[i].content[q] <= Used(q)'
    OBVIOUS
  <2>1. CASE store'[i].content = store[i].content
    <3>1. store[i].content[q] <= Used(q) /\ store[i].content[q] \in Nat
      BY DEF CountInv, IInv, TypeOK
    <3>. QED  BY <1>4, <2>1, <3>1
  <2>2. CASE /\ r.kind = "put" /\ store'[i].content = r.content
             /\ Awaited(r) => resp'[r.from].status = "ok"
    <3>1. r.content[q] \in Nat
      OBVIOUS
    <3>2. CASE r.from = q /\ Awaited(r)
      <4>1. r.content[q] <= Allowed(q)
        BY <2>2, <3>2 DEF CountInv
      <4>. QED  BY <1>3, <2>2, <3>2, <4>1
    <3>3. CASE ~(r.from = q /\ Awaited(r))
      <4>1. r.content[q] <= Used(q)
        BY <2>2, <3>3 DEF CountInv
      <4>. QED  BY <1>4, <2>2, <3>1, <4>1
    <3>. QED  BY <3>2, <3>3
  <2>. QED  BY <2>1, <2>2 DEF Answers
<1>6. \A x \in Procs \ {q} : handle[x].content[q] <= Used(q)'
  <2>. SUFFICES ASSUME NEW x \in Procs \ {q} PROVE handle[x].content[q] <= Used(q)'
    OBVIOUS
  <2>1. handle[x].content[q] <= Used(q) /\ handle[x].content[q] \in Nat
    BY DEF CountInv, IInv, TypeOK
  <2>. QED  BY <1>4, <2>1
<1>7. ASSUME NEW m \in reqs', m.kind = "put"
      PROVE  /\ m.from = q /\ Awaited(m) => m.content[q] <= Allowed(q)
             /\ ~(m.from = q /\ Awaited(m)) => m.content[q] <= Used(q)'
  <2>1. m \in reqs /\ m.content[q] \in Nat
    BY <1>1
  <2>2. /\ m.from = q /\ Awaited(m) => m.content[q] <= Allowed(q)
        /\ ~(m.from = q /\ Awaited(m)) => m.content[q] <= Used(q)
    BY <1>7, <2>1 DEF CountInv
  <2>. QED  BY <1>4, <2>1, <2>2
<1>8. handle[q].content[q] <= Allowed(q)
  BY DEF CountInv
<1>. QED  BY <1>5, <1>6, <1>7, <1>8

-----------------------------------------------------------------------------
(* Who outruns a caller, when no answer is lost and no call is cancelled.  *)

\* Nobody has given up on a request.
AllAwaited == \A r \in reqs : Awaited(r)

\* The id and version p has in hand, a Put that is answered included.
Held(p) ==
  IF resp[p].status = "ok" /\ call[p].op \in {"put", "update"}
    THEN [id |-> resp[p].id, version |-> resp[p].version]
    ELSE [id |-> handle[p].id, version |-> handle[p].version]

\* Object i has mutations of another caller that p's object has not.
Outrun(p, i) == \E q \in Procs \ {p} : store[i].content[q] > handle[p].content[q]

OutrunInv ==
  \A p \in Procs :
    LET h == Held(p) IN
    h.id # NoId /\ h.version # 0 /\ store[h.id].version > h.version => Outrun(p, h.id)

\* A refusal is about the object in hand.
RefusedInv == \A p \in Procs : resp[p].status = "conflict" => resp[p].id = handle[p].id

SureInv == ~Lossy => AllAwaited /\ OutrunInv /\ RefusedInv

LEMMA SureMoves ==
  ASSUME IInv, IInv', LoneInv, SureInv, ~Lossy, NEW p \in Procs, CallerStep(p), Moves(p)
  PROVE  SureInv'
PROOF
<1>. /\ store \in [Ids -> Object] /\ handle \in [Procs -> Handle] /\ handle' \in [Procs -> Handle]
     /\ resp \in [Procs -> Response] /\ reqs \subseteq Requests
     /\ \A r \in Requests : r.from \in Procs /\ r.call \in Nat
  BY DEF IInv, TypeOK, Requests
<1>f. /\ store' = store
      /\ \A q \in Procs \ {p} : handle'[q] = handle[q] /\ pc'[q] = pc[q] /\ call'[q] = call[q]
                                /\ resp'[q] = resp[q] /\ calls'[q] = calls[q]
  BY DEF Moves, Frame
<1>s. AllAwaited /\ OutrunInv /\ RefusedInv
  BY DEF SureInv
\* Only an answer ends a wait.
<1>w. pc[p] = "wait" => Receive(p)
  BY DEF CallerStep, Proceed, New, Put, Cancel, Get, List, Delete, Recover, DeleteOrRecover, Begin,
     Update, UpdateGet, UpdateGetFails, UpdateRejects, SendPut, PutAborts, GiveUp, Backoff
<1>c. pc[p] # "wait" => resp[p].status = "none"
  BY DEF IInv, ControlInv
<1>n. \A r \in reqs : r.from = p => pc[p] = "wait" /\ resp[p].status = "none"
  BY <1>s DEF AllAwaited, Awaited, LoneInv
<1>m. /\ Mutated(handle[p], p).id = handle[p].id /\ Mutated(handle[p], p).version = handle[p].version
      /\ \A q \in Procs \ {p} : Mutated(handle[p], p).content[q] = handle[p].content[q]
  BY MutatedType
<1>l. ASSUME NEW i \in Ids
      PROVE  /\ Loaded(i).id = i /\ Loaded(i).version = store[i].version /\ Listed(i).version = 0
             /\ Mutated(Loaded(i), p).id = i /\ Mutated(Loaded(i), p).version = store[i].version
  BY DEF Loaded, Listed, Mutated
\* It is enough to look at p.
<1>a. ASSUME \A r \in reqs' : r.from = p => Awaited(r)'
      PROVE  AllAwaited'
  <2>. SUFFICES ASSUME NEW r \in reqs', r.from # p PROVE Awaited(r)'
    BY <1>a DEF AllAwaited
  <2>1. r \in reqs
    BY DEF Moves, Rests, Takes, BeginsPut, BeginsUpdate, BeginsOther, Reads, Ends, BacksOff, Sends,
       Retries, Request
  <2>2. Awaited(r) /\ r.from \in Procs \ {p}
    BY <1>s, <2>1 DEF AllAwaited
  <2>. QED  BY <1>f, <2>2 DEF Awaited
<1>b. ASSUME resp'[p].status \notin {"ok", "conflict"},
             \/ handle'[p].id = NoId \/ handle'[p].version = 0
             \/ handle'[p].version = store[handle'[p].id].version
             \/ /\ handle'[p].id = Held(p).id /\ handle'[p].version = Held(p).version
                /\ \A q \in Procs \ {p} : handle'[p].content[q] = handle[p].content[q]
      PROVE  OutrunInv' /\ RefusedInv'
  <2>. SUFFICES ASSUME NEW q \in Procs
                PROVE  /\ Held(q)'.id # NoId /\ Held(q)'.version # 0
                            /\ store[Held(q)'.id].version > Held(q)'.version
                            => Outrun(q, Held(q).id)'
                       /\ resp'[q].status = "conflict" => resp'[q].id = handle'[q].id
    BY <1>f DEF OutrunInv, RefusedInv
  <2>1. CASE q # p
    <3>1. Held(q)' = Held(q)
      BY <1>f, <2>1 DEF Held
    <3>2. \A i : Outrun(q, i)' <=> Outrun(q, i)
      BY <1>f, <2>1 DEF Outrun
    <3>. QED  BY <1>f, <1>s, <2>1, <3>1, <3>2 DEF OutrunInv, RefusedInv
  <2>2. CASE q = p
    <3>1. Held(q)'.id = handle'[p].id /\ Held(q)'.version = handle'[p].version
      BY <1>b, <2>2 DEF Held
    <3>2. CASE \/ handle'[p].id = NoId \/ handle'[p].version = 0
               \/ handle'[p].version = store[handle'[p].id].version
      <4>1. handle'[p].id # NoId => store[handle'[p].id].version \in Nat
        OBVIOUS
      <4>. QED  BY <1>b, <2>2, <3>1, <3>2, <4>1
    <3>3. CASE /\ handle'[p].id = Held(p).id /\ handle'[p].version = Held(p).version
               /\ \A x \in Procs \ {p} : handle'[p].content[x] = handle[p].content[x]
      <4>1. /\ Held(q)'.id = Held(p).id /\ Held(q)'.version = Held(p).version
        BY <3>1, <3>3
      <4>2. Outrun(p, Held(p).id) => Outrun(q, Held(q).id)'
        BY <1>f, <2>2, <3>3, <4>1 DEF Outrun
      <4>. QED  BY <1>b, <1>f, <1>s, <2>2, <4>1, <4>2 DEF OutrunInv
    <3>. QED  BY <1>b, <3>2, <3>3
  <2>. QED  BY <2>1, <2>2
<1>1. CASE Rests(p)
  <2>1. /\ handle' = handle /\ resp'[p] = resp[p] /\ call'[p] = call[p] /\ pc'[p] = pc[p]
        /\ calls'[p] = calls[p] /\ reqs' = reqs
    BY <1>1, <1>f DEF Rests, SameCall, SameCounts
  <2>2. \A q \in Procs : Held(q)' = Held(q) /\ \A i : Outrun(q, i)' <=> Outrun(q, i)
    BY <1>f, <2>1 DEF Held, Outrun
  <2>3. \A r \in reqs : Awaited(r)' <=> Awaited(r)
    BY <1>f, <2>1 DEF Awaited
  <2>4. AllAwaited'
    BY <1>s, <2>1, <2>3 DEF AllAwaited
  <2>5. OutrunInv'
    BY <1>f, <1>s, <2>2 DEF OutrunInv
  <2>6. RefusedInv'
    BY <1>f, <1>s, <2>1 DEF RefusedInv
  <2>. QED  BY <2>4, <2>5, <2>6 DEF SureInv
\* The answer ends the wait.
<1>2. CASE Receive(p)
  <2>1. resp[p].status # "none" /\ reqs' = reqs
    BY <1>2 DEF Receive
  <2>2. AllAwaited'
    BY <1>a, <1>n, <2>1
  <2>3. resp'[p] = NoResp
    BY <1>2 DEF Receive, Return, PutFailed
  <2>4. /\ handle'[p].id = Held(p).id /\ handle'[p].version = Held(p).version
        /\ \A q \in Procs \ {p} : handle'[p].content[q] = handle[p].content[q]
    <3>1. CASE resp[p].status = "ok" /\ call[p].op \in {"put", "update"}
      <4>1. handle'[p] = AfterPut(handle[p], resp[p])
        BY <1>2, <3>1 DEF Receive
      <4>. QED  BY <3>1, <4>1, AfterPutType DEF Held
    <3>2. CASE ~(resp[p].status = "ok" /\ call[p].op \in {"put", "update"})
      <4>1. handle' = handle
        BY <1>2, <3>2 DEF Receive
      <4>. QED  BY <3>2, <4>1 DEF Held
    <3>. QED  BY <3>1, <3>2
  <2>. QED  BY <1>b, <2>2, <2>3, <2>4 DEF SureInv, NoResp
<1>3. CASE pc[p] # "wait" /\ ~Rests(p)
  <2>1. resp[p].status = "none" /\ Held(p).id = handle[p].id /\ Held(p).version = handle[p].version
    BY <1>3, <1>c DEF Held
  <2>2. resp'[p].status = "none"
    BY <1>3, <2>1 DEF Moves, Takes, SameCall, BeginsPut, BeginsUpdate, BeginsOther, Reads, Ends,
       BacksOff, Sends, Retries, NoResp
  <2>3. \/ handle'[p].id = NoId \/ handle'[p].version = 0
        \/ handle'[p].version = store[handle'[p].id].version
        \/ /\ handle'[p].id = handle[p].id /\ handle'[p].version = handle[p].version
           /\ \A q \in Procs \ {p} : handle'[p].content[q] = handle[p].content[q]
    <3>1. CASE Takes(p)
      BY <1>l, <3>1 DEF Takes, FreshObject
    <3>2. CASE BeginsPut(p)
      BY <1>m, <3>2 DEF BeginsPut
    <3>3. CASE handle'[p] = handle[p]
      BY <3>3
    <3>4. CASE pc[p] = "get" /\ handle'[p] = Mutated(Loaded(call[p].id), p)
      <4>1. call[p].id \in Ids
        BY <3>4 DEF IInv, TypeOK, ControlInv
      <4>. QED  BY <1>l, <3>4, <4>1
    <3>. QED  BY <1>3, <2>1, <3>1, <3>2, <3>3, <3>4 DEF Moves, BeginsUpdate, BeginsOther, Reads, Ends,
         BacksOff, Sends, Retries
  <2>4. \A r \in reqs' : r.from = p => Awaited(r)'
    <3>. SUFFICES ASSUME NEW r \in reqs', r.from = p PROVE Awaited(r)'
      OBVIOUS
    <3>1. r \notin reqs
      BY <1>3, <1>n
    <3>2. CASE BeginsOther(p)
      BY <3>1, <3>2 DEF BeginsOther, Awaited
    <3>3. CASE Sends(p)
      BY <3>1, <3>3 DEF Sends, SameCounts, Request, Awaited
    <3>. QED  BY <1>3, <3>1, <3>2, <3>3 DEF Moves, Takes, BeginsPut, BeginsUpdate, Reads, Ends,
         BacksOff, Retries
  <2>. QED  BY <1>a, <1>b, <2>1, <2>2, <2>3, <2>4 DEF SureInv
<1>. QED  BY <1>1, <1>2, <1>3, <1>w

\* What a served request changes: one object, from its version to the next, and
\* there the mutations of the caller that sent it.
Stores(r, i) ==
  /\ r.kind = "put"
  /\ store[i].status = "absent" \/ (i = r.id /\ r.version = store[i].version + 1)
  /\ store'[i].version = r.version
  /\ store'[i].content[r.from] > store[i].content[r.from]
  /\ \A q \in Procs \ {r.from} : store'[i].content[q] = store[i].content[q]
  /\ Awaited(r) => resp'[r.from] = [status |-> "ok", id |-> i, version |-> r.version]

LEMMA ServeStores ==
  ASSUME IInv, NEW r \in reqs, Serve(r)
  PROVE  /\ \A i \in Ids :
              \/ store'[i].version = store[i].version /\ store'[i].content = store[i].content
              \/ Stores(r, i)
         /\ r.kind = "put" /\ Awaited(r) /\ resp'[r.from].status = "ok" =>
              resp'[r.from].id \in Ids /\ Stores(r, resp'[r.from].id)
PROOF
<1>. /\ store \in [Ids -> Object] /\ resp \in [Procs -> Response]
     /\ r.from \in Procs /\ r.version \in Nat /\ r.content \in Content /\ r.id \in Ids \cup {NoId}
  BY DEF IInv, TypeOK, Requests
<1>1. CASE ServeCreate(r)
  <2>1. PICK j \in Ids :
          /\ store[j].status = "absent"
          /\ store' = [store EXCEPT ![j] = [status |-> "active", version |-> r.version,
                                            content |-> r.content]]
          /\ Answer(r, "ok", j, r.version)
    BY <1>1 DEF ServeCreate
  <2>2. \A q \in Procs : store[j].content[q] = 0
    BY <2>1 DEF IInv, StoreInv
  <2>3. /\ r.kind = "put" /\ r.content[r.from] > 0
        /\ \A q \in Procs \ {r.from} : r.content[q] = 0
    BY <1>1 DEF ServeCreate, IInv, PutInv
  <2>4. store'[j].version = r.version /\ store'[j].content = r.content
    BY <2>1
  <2>5. Awaited(r) => resp'[r.from] = [status |-> "ok", id |-> j, version |-> r.version]
    BY <2>1 DEF Answer
  <2>6. Stores(r, j)
    BY <2>1, <2>2, <2>3, <2>4, <2>5 DEF Stores
  <2>7. \A i \in Ids \ {j} : store'[i] = store[i]
    BY <2>1
  <2>. QED  BY <2>5, <2>6, <2>7
<1>2. CASE ServeUpdate(r)
  <2>1. /\ r.kind = "put" /\ r.id \in Ids /\ r.version = store[r.id].version + 1
        /\ Answer(r, "ok", r.id, r.version)
        /\ store'[r.id].version = r.version /\ store'[r.id].content = r.content
        /\ \A j \in Ids \ {r.id} : store'[j] = store[j]
    BY <1>2 DEF ServeUpdate
  <2>2. r.version - 1 = store[r.id].version
    BY <2>1
  <2>3. /\ Follows(r.from, r.version - 1, r.content, store[r.id])
        /\ Adds(r.from, r.version - 1, r.content, store[r.id])
    BY <2>1 DEF IInv, PutInv
  <2>4. /\ r.content[r.from] > store[r.id].content[r.from]
        /\ \A q \in Procs \ {r.from} : r.content[q] = store[r.id].content[q]
    BY <2>2, <2>3 DEF Follows, Adds
  <2>5. Awaited(r) => resp'[r.from] = [status |-> "ok", id |-> r.id, version |-> r.version]
    BY <2>1 DEF Answer
  <2>6. Stores(r, r.id)
    BY <2>1, <2>4, <2>5 DEF Stores
  <2>. QED  BY <2>1, <2>5, <2>6
<1>3. CASE ServeDelete(r) \/ ServeRecover(r)
  <2>1. PICK st \in {"active", "deleted"} : store' = [store EXCEPT ![r.id].status = st]
    BY <1>3 DEF ServeDelete, ServeRecover
  <2>2. r.kind # "put"
    BY <1>3 DEF ServeDelete, ServeRecover
  <2>3. \A i \in Ids : store'[i].version = store[i].version /\ store'[i].content = store[i].content
    BY <2>1
  <2>. QED  BY <2>2, <2>3
<1>4. CASE ServeConflict(r)
  BY <1>4 DEF ServeConflict, Answer
<1>5. CASE ServeGone(r)
  BY <1>5 DEF ServeGone, Answer
<1>6. CASE Refuse(r)
  BY <1>6 DEF Refuse, Answer
<1>. QED  BY <1>1, <1>2, <1>3, <1>4, <1>5, <1>6 DEF Serve

LEMMA SureAnswers ==
  ASSUME IInv, IInv', LoneInv, SureInv, ~Lossy, NEW r \in reqs, Serve(r), Answers(r)
  PROVE  SureInv'
PROOF
<1>. /\ store \in [Ids -> Object] /\ store' \in [Ids -> Object] /\ handle \in [Procs -> Handle]
     /\ resp \in [Procs -> Response] /\ resp' \in [Procs -> Response] /\ reqs \subseteq Requests
     /\ r.from \in Procs /\ r.version \in Nat
  BY DEF IInv, TypeOK, Requests
<1>s. AllAwaited /\ OutrunInv /\ RefusedInv /\ Awaited(r)
  BY DEF SureInv, AllAwaited
<1>1. AllAwaited'
  BY <1>s DEF AllAwaited, Answers, Awaited
<1>2. RefusedInv'
  <2>. SUFFICES ASSUME NEW q \in Procs, resp'[q].status = "conflict"
                PROVE  resp'[q].id = handle[q].id
    BY DEF RefusedInv, Answers
  <2>1. CASE resp'[q] = resp[q]
    BY <1>s, <2>1 DEF RefusedInv
  <2>2. CASE q = r.from
    <3>1. r.kind = "put" /\ resp'[q].id = r.id
      BY <1>s, <2>2 DEF Answers
    <3>. QED  BY <1>s, <2>2, <3>1 DEF IInv, AwaitedInv, Carries
  <2>. QED  BY <2>1, <2>2 DEF Answers
\* The version in hand is the stored one, or another caller has stored since.
<1>3. OutrunInv'
  <2>. SUFFICES ASSUME NEW q \in Procs, NEW i, NEW v, i = Held(q)'.id, v = Held(q)'.version,
                       i # NoId, v # 0, store'[i].version > v
                PROVE  Outrun(q, i)'
    BY DEF OutrunInv
  <2>1. handle' = handle /\ call' = call
    BY DEF Answers
  <2>2. i \in Ids
    <3>1. CASE resp'[q].status = "ok" /\ call'[q].op \in {"put", "update"}
      BY <3>1 DEF Held, IInv, AnswerInv
    <3>2. CASE ~(resp'[q].status = "ok" /\ call'[q].op \in {"put", "update"})
      BY <2>1, <3>2 DEF Held
    <3>. QED  BY <3>1, <3>2
  <2>3. \/ store'[i].version = store[i].version /\ store'[i].content = store[i].content
        \/ Stores(r, i)
    BY <2>2, ServeStores
  <2>4. CASE resp'[q] = resp[q]
    <3>1. i = Held(q).id /\ v = Held(q).version
      BY <2>1, <2>4 DEF Held
    <3>2. v \in Nat /\ Follows(q, v, handle[q].content, store[i])
      <4>1. CASE resp[q].status = "ok" /\ call[q].op \in {"put", "update"}
        BY <3>1, <4>1 DEF Held, IInv, AnswerInv
      <4>2. CASE ~(resp[q].status = "ok" /\ call[q].op \in {"put", "update"})
        BY <3>1, <4>2 DEF Held, IInv, HandleInv
      <4>. QED  BY <4>1, <4>2
    <3>3. store[i].version > v => Outrun(q, i)
      BY <1>s, <3>1 DEF OutrunInv
    <3>4. CASE store'[i].version = store[i].version /\ store'[i].content = store[i].content
      BY <2>1, <3>3, <3>4 DEF Outrun
    <3>5. CASE Stores(r, i)
      <4>0. q # r.from
        <5>1. resp[r.from].status = "none" /\ resp'[r.from].status = "ok"
          BY <1>s, <3>5 DEF Stores, LoneInv
        <5>. QED  BY <2>4, <5>1
      <4>1. \A x \in Procs : store'[i].content[x] >= store[i].content[x]
        <5>1. \A x \in Procs : store[i].content[x] \in Nat /\ store'[i].content[x] \in Nat
          BY <2>2
        <5>2. store'[i].content[r.from] >= store[i].content[r.from]
          BY <3>5, <5>1 DEF Stores
        <5>3. \A x \in Procs \ {r.from} : store'[i].content[x] = store[i].content[x]
          BY <3>5 DEF Stores
        <5>. QED  BY <5>1, <5>2, <5>3
      <4>2. CASE store[i].version > v
        <5>1. PICK x \in Procs \ {q} : store[i].content[x] > handle[q].content[x]
          BY <3>3, <4>2 DEF Outrun
        <5>2. store'[i].content[x] > handle[q].content[x]
          BY <2>2, <4>1, <5>1
        <5>. QED  BY <2>1, <5>1, <5>2 DEF Outrun
      <4>3. CASE store[i].version = v
        <5>1. store[i].content[r.from] = handle[q].content[r.from]
          BY <3>2, <4>0, <4>3 DEF Follows
        <5>2. store'[i].content[r.from] > handle[q].content[r.from]
          BY <3>5, <5>1 DEF Stores
        <5>. QED  BY <2>1, <4>0, <5>2 DEF Outrun
      <4>4. v <= store[i].version /\ store[i].version \in Nat
        BY <2>2, <3>2 DEF Follows
      <4>5. store[i].version > v \/ store[i].version = v
        <5>1. ASSUME NEW x \in Nat, NEW y \in Nat, x <= y PROVE y > x \/ y = x
          BY <5>1
        <5>. QED  BY <3>2, <4>4, <5>1
      <4>. QED  BY <4>2, <4>3, <4>5
    <3>. QED  BY <2>3, <3>4, <3>5
  \* An answer that arrives tells the version it stored; a refusal stores none.
  <2>5. CASE q = r.from /\ resp'[q] # resp[q]
    <3>1. resp[q].status = "none" /\ Carries(r)
      BY <1>s, <2>5 DEF LoneInv, IInv, AwaitedInv
    <3>2. CASE resp'[q].status = "ok" /\ call[q].op \in {"put", "update"}
      <4>1. r.kind = "put"
        BY <2>5, <3>1, <3>2 DEF Carries
      <4>2. i = resp'[q].id /\ Stores(r, i)
        BY <1>s, <2>1, <2>5, <3>2, <4>1, ServeStores DEF Held
      <4>3. resp'[q].version = r.version /\ store'[i].version = r.version
        BY <1>s, <2>5, <4>2 DEF Stores
      <4>4. v = resp'[q].version
        BY <2>1, <3>2 DEF Held
      <4>. QED  BY <4>3, <4>4
    <3>3. CASE ~(resp'[q].status = "ok" /\ call[q].op \in {"put", "update"})
      <4>1. ~Stores(r, i)
        BY <1>s, <2>5, <3>1, <3>3 DEF Stores, Carries
      <4>2. i = Held(q).id /\ v = Held(q).version
        BY <2>1, <3>1, <3>3 DEF Held
      <4>3. store[i].version > v /\ store'[i].content = store[i].content
        BY <2>3, <4>1
      <4>. QED  BY <1>s, <2>1, <4>2, <4>3 DEF OutrunInv, Outrun
    <3>. QED  BY <3>2, <3>3
  <2>. QED  BY <2>4, <2>5 DEF Answers
<1>. QED  BY <1>1, <1>2, <1>3 DEF SureInv
-----------------------------------------------------------------------------
CallsInv == LoneInv /\ RaceInv /\ CountInv /\ SureInv

LEMMA CallsInit == Init => CallsInv
PROOF
<1>. SUFFICES ASSUME Init PROVE CallsInv
  OBVIOUS
<1>1. LoneInv /\ RaceInv
  BY DEF Init, LoneInv, RaceInv, SeenInv, ConflictIdInv, ConflictOnlyIfRaced, WinnerInv,
     EachConflictHasAWinner, FreshObject, NoCall, NewCall, NoResp
<1>2. CountInv
  BY DEF Init, CountInv, Used, Allowed, Open, FreshObject, Absent, Zero
<1>3. SureInv
  BY DEF Init, SureInv, AllAwaited, OutrunInv, Held, RefusedInv, FreshObject, NoCall, NewCall, NoResp
<1>. QED  BY <1>1, <1>2, <1>3 DEF CallsInv

LEMMA CallsStep == IInv /\ CallsInv /\ [Next]_vars => CallsInv'
PROOF
<1>. SUFFICES ASSUME IInv, CallsInv, [Next]_vars PROVE CallsInv'
  OBVIOUS
<1>i. IInv'
  BY InvStep
<1>2. ASSUME NEW p \in Procs, CallerStep(p) PROVE CallsInv'
  <2>1. Moves(p)
    BY <1>2, CallerMoves
  <2>2. LoneInv' /\ RaceInv' /\ CountInv'
    BY <1>i, <2>1, LoneMoves, RaceMoves, CountMoves DEF CallsInv
  <2>3. SureInv'
    BY <1>i, <1>2, <2>1, SureMoves DEF CallsInv, SureInv
  <2>. QED  BY <2>2, <2>3 DEF CallsInv
<1>3. ASSUME NEW r \in reqs, Serve(r) PROVE CallsInv'
  <2>1. Answers(r)
    BY <1>3, ServeAnswers
  <2>2. LoneInv' /\ RaceInv' /\ CountInv'
    BY <1>i, <2>1, LoneAnswers, RaceAnswers, CountAnswers DEF CallsInv
  <2>3. SureInv'
    BY <1>i, <1>3, <2>1, SureAnswers DEF CallsInv, SureInv
  <2>. QED  BY <2>2, <2>3 DEF CallsInv
<1>4. CASE UNCHANGED vars
  <2>1. LoneInv'
    BY <1>4 DEF vars, CallsInv, LoneInv, Awaited
  <2>2. RaceInv'
    BY <1>4 DEF vars, CallsInv, RaceInv, SeenInv, ConflictIdInv, ConflictOnlyIfRaced, WinnerInv,
       EachConflictHasAWinner
  <2>3. CountInv'
    BY <1>4 DEF vars, CallsInv, CountInv, Used, Allowed, Open, Awaited
  <2>4. SureInv'
    BY <1>4 DEF vars, CallsInv, SureInv, AllAwaited, Awaited, OutrunInv, Held, Outrun, RefusedInv
  <2>. QED  BY <2>1, <2>2, <2>3, <2>4 DEF CallsInv
<1>. QED  BY <1>2, <1>3, <1>4 DEF Next, ServerStep, Finished

LEMMA CallsInvariant == Spec => [](IInv /\ CallsInv)
PROOF
<1>1. Init => IInv /\ CallsInv
  BY InvInit, CallsInit
<1>2. IInv /\ CallsInv /\ [Next]_vars => (IInv /\ CallsInv)'
  BY InvStep, CallsStep
<1>. QED  BY <1>1, <1>2, PTL DEF Spec

\* Without losses the versions that refuse a caller are not its own: the stored
\* object has a mutation of another caller that the refused object has not.
LostToOthers ==
  ~Lossy =>
    \A p \in Procs :
      resp[p].status = "conflict" /\ handle[p].version # 0 => Outrun(p, resp[p].id)

\* A Put of an object with a version is refused only if another version was
\* stored since the object was filled (APIClient.Put's currentVersion+1), and
\* if no answers are lost another caller has changed the object since. With
\* losses the later version may be that of a request the caller has no answer to.
THEOREM ConflictsAreRaces == Spec => [](ConflictOnlyIfRaced /\ LostToOthers)
PROOF
<1>1. IInv /\ CallsInv => ConflictOnlyIfRaced /\ LostToOthers
  <2>. SUFFICES ASSUME IInv, CallsInv PROVE ConflictOnlyIfRaced /\ LostToOthers
    OBVIOUS
  <2>1. ConflictOnlyIfRaced
    BY DEF CallsInv, RaceInv
  <2>2. ASSUME ~Lossy, NEW p \in Procs, resp[p].status = "conflict", handle[p].version # 0
        PROVE  Outrun(p, resp[p].id)
    <3>1. store[resp[p].id].version > handle[p].version /\ resp[p].id \in Ids
      BY <2>2 DEF CallsInv, RaceInv, SeenInv, ConflictIdInv, ConflictOnlyIfRaced
    <3>2. /\ resp[p].id = handle[p].id /\ OutrunInv
          /\ Held(p).id = handle[p].id /\ Held(p).version = handle[p].version
      BY <2>2 DEF CallsInv, SureInv, RefusedInv, Held
    <3>. QED  BY <2>2, <3>1, <3>2 DEF OutrunInv
  <2>. QED  BY <2>1, <2>2 DEF LostToOthers
<1>. QED  BY <1>1, CallsInvariant, PTL

\* Without losses what a caller stores is the request of the call it is in, and
\* that call is told so by the step that stores it.
OwnWritesAreTold ==
  ~Lossy =>
    \A p \in Procs, i \in Ids :
      store'[i].content[p] # store[i].content[p] =>
        /\ call[p].op \in {"put", "update"}
        /\ resp'[p] = [status |-> "ok", id |-> i, version |-> store'[i].version]

\* Every conflict Update meets is the work of a version of its own: n conflicts
\* mean n versions stored since the call began. If no answers are lost none of
\* them is the call's own, which ends with the first version it stores; with
\* losses one may be an earlier attempt of the call, stored late.
THEOREM ConflictsHaveWinners == Spec => []EachConflictHasAWinner /\ [][OwnWritesAreTold]_vars
PROOF
<1>1. CallsInv => EachConflictHasAWinner
  BY DEF CallsInv, RaceInv
<1>2. IInv /\ CallsInv /\ [Next]_vars => [OwnWritesAreTold]_vars
  <2>. SUFFICES ASSUME IInv, CallsInv, Next, ~Lossy, NEW p \in Procs, NEW i \in Ids,
                       store'[i].content[p] # store[i].content[p]
                PROVE  /\ call[p].op \in {"put", "update"}
                       /\ resp'[p] = [status |-> "ok", id |-> i, version |-> store'[i].version]
    BY DEF OwnWritesAreTold
  <2>1. ASSUME NEW q \in Procs, CallerStep(q) PROVE FALSE
    BY <2>1, CallerMoves DEF Moves, Frame
  <2>2. PICK r \in reqs : Serve(r)
    BY <2>1 DEF Next, ServerStep, Finished, vars
  <2>3. Stores(r, i) /\ Awaited(r)
    BY <2>2, ServeStores DEF CallsInv, SureInv, AllAwaited
  <2>4. store \in [Ids -> Object] /\ r.from \in Procs
    BY DEF IInv, TypeOK, Requests
  <2>5. r.from = p
    BY <2>3, <2>4 DEF Stores
  <2>. QED  BY <2>3, <2>5 DEF Stores, IInv, AwaitedInv, Carries
<1>. QED  BY <1>1, <1>2, CallsInvariant, PTL DEF Spec

\* No call takes effect twice, but an Update that had no answer to an attempt
\* and went on: once more for each such attempt.
THEOREM CallsApplyOnce == Spec => []AppliedAtMostOnce
PROOF
<1>1. IInv /\ CallsInv => AppliedAtMostOnce
  <2>. SUFFICES ASSUME IInv, CallsInv, NEW p \in Procs, NEW i \in Ids
                PROVE  store[i].content[p] <= asked[p] + resent[p]
    BY DEF AppliedAtMostOnce
  <2>1. store[i].content[p] <= Used(p) /\ store[i].content[p] \in Nat
    BY DEF CallsInv, CountInv, IInv, TypeOK
  <2>2. Allowed(p) \in Nat
    BY DEF Allowed, IInv, TypeOK
  <2>3. Used(p) <= Allowed(p) /\ Used(p) \in Int
    BY <2>2 DEF Used
  <2>. QED  BY <2>1, <2>2, <2>3 DEF Allowed
<1>. QED  BY <1>1, CallsInvariant, PTL
-----------------------------------------------------------------------------
(* Objects nobody was told of.                                             *)

\* The creating Puts that wait, with what they have been told.
Waiting == {q \in Procs : pc[q] = "wait" /\ Creating(q)}
Pending == {q \in Waiting : resp[q].status = "none"}
Telling == {q \in Waiting : resp[q].status = "ok"}
Told == {resp[q].id : q \in Telling}

Creates == {r \in reqs : r.id = NoId}
Unknown == {i \in Ids : store[i].status # "absent" /\ \A q \in Procs : acked[q][i] = 0}

\* Stored, not acknowledged, and no answer about it on its way.
Orphans == Unknown \ Told

\* Each orphan, and each creation still to be served, is the request of a Put
\* that gave up or that waits without an answer.
OwedInv ==
  /\ IsFiniteSet(reqs)
  /\ Cardinality(Orphans) + Cardinality(Creates) <= unanswered + Cardinality(Pending)

LEMMA CardSub ==
  ASSUME NEW S, NEW T, IsFiniteSet(S), T \subseteq S
  PROVE  /\ IsFiniteSet(T) /\ Cardinality(T) \in Nat /\ Cardinality(S) \in Nat
         /\ Cardinality(T) <= Cardinality(S)
PROOF
  BY FS_Subset, FS_CardinalityType

LEMMA CardAdd ==
  ASSUME NEW S, NEW T, NEW x, IsFiniteSet(S), T \subseteq S \cup {x}
  PROVE  /\ IsFiniteSet(T) /\ Cardinality(T) \in Nat /\ Cardinality(S) \in Nat
         /\ Cardinality(T) <= Cardinality(S) + 1
PROOF
<1>1. IsFiniteSet(S \cup {x}) /\ Cardinality(S \cup {x}) <= Cardinality(S) + 1
      /\ Cardinality(S) \in Nat
  BY FS_AddElement, FS_CardinalityType
<1>. QED  BY <1>1, CardSub

LEMMA CardDrop ==
  ASSUME NEW S, NEW T, NEW x \in S, IsFiniteSet(S), T \subseteq S \ {x}
  PROVE  /\ IsFiniteSet(T) /\ Cardinality(T) \in Nat /\ Cardinality(S) \in Nat
         /\ Cardinality(T) + 1 <= Cardinality(S)
PROOF
<1>1. IsFiniteSet(S \ {x}) /\ Cardinality(S \ {x}) = Cardinality(S) - 1 /\ Cardinality(S) \in Nat
  BY FS_RemoveElement, FS_CardinalityType
<1>. QED  BY <1>1, CardSub

LEMMA CardGain ==
  ASSUME NEW S, NEW T, NEW x, IsFiniteSet(T), x \notin S, S \cup {x} \subseteq T
  PROVE  /\ Cardinality(S) \in Nat /\ Cardinality(T) \in Nat
         /\ Cardinality(S) + 1 <= Cardinality(T)
PROOF
<1>1. x \in T /\ S \subseteq T \ {x}
  OBVIOUS
<1>. QED  BY <1>1, CardDrop

LEMMA CardUnion ==
  ASSUME NEW S, NEW T, IsFiniteSet(S), IsFiniteSet(T), S \cap T = {}
  PROVE  /\ IsFiniteSet(S \cup T)
         /\ Cardinality(S \cup T) \in Nat
         /\ Cardinality(S \cup T) = Cardinality(S) + Cardinality(T)
PROOF
<1>1. /\ IsFiniteSet(S \cup T)
      /\ Cardinality(S \cup T) = Cardinality(S) + Cardinality(T) - Cardinality(S \cap T)
  BY FS_Union
<1>2. Cardinality(S \cap T) = 0
  BY FS_EmptySet
<1>3. Cardinality(S) \in Nat /\ Cardinality(T) \in Nat
  BY FS_CardinalityType
<1>. QED  BY <1>1, <1>2, <1>3

\* What p's step does to the acknowledgements and to the count of lost answers.
Owes(p) ==
  \/ /\ UNCHANGED <<acked, unanswered>>
     /\ pc[p] = "wait" /\ Creating(p) /\ pc'[p] # "wait" => resp[p].status \notin {"none", "ok"}
  \/ /\ pc[p] = "wait" /\ pc'[p] = "idle" /\ resp[p].status = "ok"
     /\ call[p].op \in {"put", "update"} /\ unanswered' = unanswered
     /\ \A q \in Procs, i \in Ids :
          acked'[q][i] = IF q = p /\ i = resp[p].id THEN handle[p].content[p] ELSE acked[q][i]
  \/ /\ UNCHANGED acked /\ unanswered' = unanswered + 1
     /\ pc[p] = "wait" /\ Creating(p)

LEMMA CallerOwes ==
  ASSUME IInv, NEW p \in Procs, CallerStep(p)
  PROVE  Owes(p)
PROOF
<1>. /\ acked \in [Procs -> [Ids -> Nat]] /\ pc \in [Procs -> {"idle", "get", "put", "wait", "backoff"}]
  BY DEF IInv, TypeOK
<1>1. ASSUME UNCHANGED <<acked, unanswered>>, pc[p] # "wait"
      PROVE  Owes(p)
  BY <1>1 DEF Owes
<1>2. CASE New(p) \/ Put(p) \/ UpdateGet(p) \/ UpdateGetFails(p) \/ UpdateRejects(p) \/ SendPut(p)
           \/ PutAborts(p) \/ Backoff(p)
  BY <1>1, <1>2 DEF New, Put, Begin, UpdateGet, UpdateGetFails, UpdateRejects, SendPut, PutAborts, Backoff
<1>3. ASSUME NEW i \in Ids,
             \/ Get(p, i) \/ List(p, i) \/ Delete(p, i) \/ Recover(p, i)
             \/ \E n \in RetryOptions : Update(p, i, n)
      PROVE  Owes(p)
  BY <1>1, <1>3 DEF Get, List, Delete, Recover, DeleteOrRecover, Update, Begin
<1>4. CASE Cancel(p)
  BY <1>4 DEF Cancel, Owes
<1>5. CASE Receive(p)
  <2>1. CASE resp[p].status = "ok" /\ call[p].op \in {"put", "update"}
    <3>1. /\ Return(p, "ok") /\ pc[p] = "wait" /\ unanswered' = unanswered
          /\ acked' = [acked EXCEPT ![p][resp[p].id] = handle[p].content[p]]
      BY <1>5, <2>1, Zenon DEF Receive
    <3>2. \A q \in Procs, i \in Ids :
            acked'[q][i] = IF q = p /\ i = resp[p].id THEN handle[p].content[p] ELSE acked[q][i]
      BY <3>1
    <3>3. pc'[p] = "idle"
      BY <3>1 DEF Return
    <3>. QED  BY <2>1, <3>1, <3>2, <3>3 DEF Owes
  <2>2. CASE ~(resp[p].status = "ok" /\ call[p].op \in {"put", "update"})
    <3>1. UNCHANGED <<acked, unanswered>> /\ resp[p].status # "none"
      BY <1>5, <2>2 DEF Receive
    <3>. QED  BY <2>2, <3>1 DEF Owes, Creating
  <2>. QED  BY <2>1, <2>2
<1>6. CASE GiveUp(p)
  <2>1. CASE Creating(p)
    BY <1>6, <2>1 DEF GiveUp, Owes
  <2>2. CASE ~Creating(p)
    BY <1>6, <2>2 DEF GiveUp, Owes
  <2>. QED  BY <2>1, <2>2
<1>. QED  BY <1>2, <1>3, <1>4, <1>5, <1>6 DEF CallerStep, Proceed
\* A Put that took effect stored a mutation of its caller.
GainInv ==
  \A p \in Procs :
    resp[p].status = "ok" /\ call[p].op \in {"put", "update"} => handle[p].content[p] > 0

LEMMA OwedMoves ==
  ASSUME IInv, IInv', RaceInv, GainInv, OwedInv, IsFiniteSet(Procs), IsFiniteSet(Ids),
         NEW p \in Procs, Moves(p), Owes(p)
  PROVE  OwedInv'
PROOF
<1>. /\ handle \in [Procs -> Handle] /\ resp \in [Procs -> Response] /\ unanswered \in Nat
     /\ acked \in [Procs -> [Ids -> Nat]]
  BY DEF IInv, TypeOK
<1>. HIDE DEF Object, Handle, Call, Response
<1>f. /\ store' = store
      /\ \A q \in Procs \ {p} : /\ handle'[q] = handle[q] /\ pc'[q] = pc[q] /\ call'[q] = call[q]
                                /\ resp'[q] = resp[q]
  BY DEF Moves, Frame
<1>q. \A q \in Procs \ {p} : /\ (q \in Pending' <=> q \in Pending)
                             /\ (q \in Telling' <=> q \in Telling)
  BY <1>f DEF Pending, Telling, Waiting, Creating
<1>n. /\ IsFiniteSet(Pending) /\ IsFiniteSet(Pending') /\ IsFiniteSet(Orphans) /\ IsFiniteSet(Orphans')
      /\ IsFiniteSet(Creates)
      /\ Cardinality(Pending) \in Nat /\ Cardinality(Orphans) \in Nat /\ Cardinality(Creates) \in Nat
  <2>1. /\ Pending \subseteq Procs /\ Pending' \subseteq Procs /\ Orphans \subseteq Ids
        /\ Orphans' \subseteq Ids /\ Creates \subseteq reqs /\ IsFiniteSet(reqs)
    BY DEF Pending, Waiting, Orphans, Unknown, Creates, OwedInv
  <2>. QED  BY <2>1, CardSub
<1>o. Cardinality(Orphans) + Cardinality(Creates) <= unanswered + Cardinality(Pending)
      /\ IsFiniteSet(reqs)
  BY DEF OwedInv
<1>r. /\ pc'[p] = "wait" /\ pc[p] # "wait" => BeginsOther(p) \/ Sends(p)
      /\ pc'[p] # "wait" => reqs' = reqs
      /\ pc'[p] = "wait" /\ pc[p] = "wait" => Rests(p)
  BY DEF Moves, Rests, Takes, BeginsPut, BeginsUpdate, BeginsOther, Reads, Ends, BacksOff, Sends,
     Retries, SameCall
\* p waits as it did.
<1>1. CASE pc'[p] = "wait" /\ pc[p] = "wait"
  <2>1. reqs' = reqs /\ resp'[p] = resp[p] /\ handle'[p] = handle[p] /\ call'[p] = call[p]
    BY <1>1, <1>r DEF Rests, SameCall
  <2>2. Pending' = Pending /\ Telling' = Telling /\ \A q \in Procs : resp'[q] = resp[q]
    <3>1. (p \in Pending' <=> p \in Pending) /\ (p \in Telling' <=> p \in Telling)
      BY <1>1, <2>1 DEF Pending, Telling, Waiting, Creating
    <3>2. /\ Pending \subseteq Procs /\ Pending' \subseteq Procs
          /\ Telling \subseteq Procs /\ Telling' \subseteq Procs
      BY DEF Pending, Telling, Waiting
    <3>3. \A q \in Procs : (q \in Pending' <=> q \in Pending) /\ (q \in Telling' <=> q \in Telling)
      BY <1>q, <3>1
    <3>4. \A q \in Procs : resp'[q] = resp[q]
      BY <1>f, <2>1
    <3>. HIDE DEF Pending, Telling
    <3>. QED  BY <3>2, <3>3, <3>4
  <2>3. Told' = Told
    <3>. SUFFICES {resp'[q].id : q \in Telling'} = {resp[q].id : q \in Telling}
      BY DEF Told
    <3>. QED  BY <2>2 DEF Telling, Waiting
  <2>4. /\ UNCHANGED acked /\ (unanswered' = unanswered \/ unanswered' = unanswered + 1)
    BY <1>1 DEF Owes
  <2>5. Orphans' = Orphans /\ Creates' = Creates
    BY <1>f, <2>1, <2>3, <2>4 DEF Orphans, Unknown, Creates
  <2>. QED  BY <1>n, <1>o, <2>1, <2>2, <2>4, <2>5 DEF OwedInv
\* p begins to wait.
<1>2. CASE pc'[p] = "wait" /\ pc[p] # "wait"
  <2>1. UNCHANGED <<acked, unanswered>> /\ p \notin Pending /\ p \notin Telling
    BY <1>2 DEF Owes, Pending, Telling, Waiting
  <2>2. resp'[p].status = "none" /\ p \notin Telling'
    BY <1>2, <1>r DEF BeginsOther, Sends, IInv, ControlInv, Telling
  <2>3. Told' = Told
    <3>1. Telling' = Telling /\ \A q \in Telling : resp'[q] = resp[q]
      BY <1>f, <1>q, <2>1, <2>2 DEF Telling, Waiting
    <3>. SUFFICES {resp'[q].id : q \in Telling'} = {resp[q].id : q \in Telling}
      BY DEF Told
    <3>. QED  BY <3>1
  <2>4. Orphans' = Orphans
    BY <1>f, <2>1, <2>3 DEF Orphans, Unknown
  <2>5. CASE BeginsOther(p)
    <3>1. p \notin Pending'
      BY <2>5 DEF BeginsOther, Pending, Waiting, Creating
    <3>2. Pending' = Pending
      BY <1>q, <2>1, <3>1 DEF Pending, Waiting
    <3>3. PICK m \in Requests : m.id # NoId /\ reqs' = reqs \cup {m}
      BY <2>5 DEF BeginsOther
    <3>4. Creates' = Creates
      BY <3>3 DEF Creates
    <3>5. IsFiniteSet(reqs')
      BY <1>o, <3>3, FS_AddElement
    <3>. QED  BY <1>o, <2>1, <2>4, <3>2, <3>4, <3>5 DEF OwedInv
  <2>6. CASE Sends(p)
    <3>1. PICK m : m = Request(p, "put", handle[p], calls[p], call[p].attempt)
      OBVIOUS
    <3>2. reqs' = reqs \cup {m} /\ m.id = handle[p].id
      BY <2>6, <3>1 DEF Sends, Request
    <3>3. IsFiniteSet(reqs')
      BY <1>o, <3>2, FS_AddElement
    <3>4. CASE handle[p].id = NoId
      <4>1. call[p].op = "put"
        <5>1. call[p].op \in {"put", "update"} /\ (call[p].op = "update" => call[p].id \in Ids)
          BY <2>6 DEF Sends, IInv, TypeOK, ControlInv
        <5>2. call[p].op = "update" => handle[p].id = call[p].id
          BY <2>6 DEF Sends, RaceInv, WinnerInv
        <5>. QED  BY <3>4, <5>1, <5>2
      <4>2. p \in Pending'
        BY <1>2, <2>2, <2>6, <3>4, <4>1 DEF Sends, Pending, Waiting, Creating
      <4>3. Pending \cup {p} \subseteq Pending'
        BY <1>q, <2>1, <4>2 DEF Pending, Waiting
      <4>4. Cardinality(Pending) + 1 <= Cardinality(Pending') /\ Cardinality(Pending') \in Nat
        BY <1>n, <2>1, <4>3, CardGain
      <4>5. Creates' \subseteq Creates \cup {m}
        BY <3>2 DEF Creates
      <4>6. Cardinality(Creates') <= Cardinality(Creates) + 1 /\ Cardinality(Creates') \in Nat
        BY <1>n, <4>5, CardAdd
      <4>. QED  BY <1>n, <1>o, <2>1, <2>4, <3>3, <4>4, <4>6 DEF OwedInv
    <3>5. CASE handle[p].id # NoId
      <4>1. p \notin Pending'
        BY <2>6, <3>5 DEF Sends, Pending, Waiting, Creating
      <4>2. Pending' = Pending
        BY <1>q, <2>1, <4>1 DEF Pending, Waiting
      <4>3. Creates' = Creates
        BY <3>2, <3>5 DEF Creates
      <4>. QED  BY <1>o, <2>1, <2>4, <3>3, <4>2, <4>3 DEF OwedInv
    <3>. QED  BY <3>4, <3>5
  <2>. QED  BY <1>2, <1>r, <2>5, <2>6
\* p does not wait after the step.
<1>3. CASE pc'[p] # "wait"
  <2>1. reqs' = reqs /\ Creates' = Creates
    BY <1>3, <1>r DEF Creates
  <2>2. p \notin Pending' /\ p \notin Telling'
    BY <1>3 DEF Pending, Telling, Waiting
  <2>3. Pending' = Pending \ {p} /\ Telling' = Telling \ {p}
    BY <1>q, <2>2 DEF Pending, Telling, Waiting
  <2>4. \A q \in Telling \ {p} : resp[q].id \in Told'
    <3>. SUFFICES ASSUME NEW q \in Telling \ {p} PROVE resp'[q].id \in {resp'[x].id : x \in Telling'}
      BY <1>f DEF Told, Telling, Waiting
    <3>. QED  BY <2>3
  <2>5. Told \ {resp[p].id} \subseteq Told' /\ (p \notin Telling => Told \subseteq Told')
    BY <2>4 DEF Told
  <2>6. CASE UNCHANGED <<acked, unanswered>> /\ p \notin Pending /\ p \notin Telling
    <3>1. Orphans' \subseteq Orphans /\ Pending' = Pending
      BY <1>f, <2>3, <2>5, <2>6 DEF Orphans, Unknown
    <3>2. Cardinality(Orphans') <= Cardinality(Orphans) /\ Cardinality(Orphans') \in Nat
      BY <1>n, <3>1, CardSub
    <3>. QED  BY <1>n, <1>o, <2>1, <2>6, <3>1, <3>2 DEF OwedInv
  <2>7. CASE /\ resp[p].status = "ok" /\ call[p].op \in {"put", "update"} /\ unanswered' = unanswered
             /\ \A q \in Procs, i \in Ids :
                  acked'[q][i] = IF q = p /\ i = resp[p].id THEN handle[p].content[p] ELSE acked[q][i]
    <3>1. handle[p].content[p] > 0
      BY <2>7 DEF GainInv
    <3>2. Unknown' \subseteq Unknown \ {resp[p].id}
      <4>. SUFFICES ASSUME NEW i \in Unknown' PROVE i \in Unknown /\ i # resp[p].id
        OBVIOUS
      <4>1. i \in Ids /\ store[i].status # "absent" /\ \A q \in Procs : acked'[q][i] = 0
        BY <1>f DEF Unknown
      <4>2. i # resp[p].id
        <5>. SUFFICES ASSUME i = resp[p].id PROVE FALSE
          OBVIOUS
        <5>1. acked'[p][i] = handle[p].content[p]
          BY <2>7, <4>1
        <5>. QED  BY <3>1, <4>1, <5>1
      <4>3. \A q \in Procs : acked[q][i] = 0
        BY <2>7, <4>1, <4>2
      <4>. QED  BY <4>1, <4>2, <4>3 DEF Unknown
    <3>3. Orphans' \subseteq Orphans
      BY <2>5, <3>2 DEF Orphans
    <3>4. Pending' = Pending
      BY <2>3, <2>7 DEF Pending
    <3>5. Cardinality(Orphans') <= Cardinality(Orphans) /\ Cardinality(Orphans') \in Nat
      BY <1>n, <3>3, CardSub
    <3>. QED  BY <1>n, <1>o, <2>1, <2>7, <3>4, <3>5 DEF OwedInv
  <2>8. CASE UNCHANGED acked /\ unanswered' = unanswered + 1
    <3>1. CASE p \in Pending
      <4>1. p \notin Telling
        BY <3>1 DEF Pending, Telling
      <4>2. Orphans' \subseteq Orphans
        BY <1>f, <2>5, <2>8, <4>1 DEF Orphans, Unknown
      <4>3. Pending \subseteq Pending' \cup {p}
        BY <2>3
      <4>4. Cardinality(Pending) <= Cardinality(Pending') + 1 /\ Cardinality(Pending') \in Nat
        BY <1>n, <4>3, CardAdd
      <4>5. Cardinality(Orphans') <= Cardinality(Orphans) /\ Cardinality(Orphans') \in Nat
        BY <1>n, <4>2, CardSub
      <4>. QED  BY <1>n, <1>o, <2>1, <2>8, <4>4, <4>5 DEF OwedInv
    <3>2. CASE p \notin Pending
      <4>1. Pending' = Pending
        BY <2>3, <3>2
      <4>2. Orphans' \subseteq Orphans \cup {resp[p].id}
        BY <1>f, <2>5, <2>8 DEF Orphans, Unknown
      <4>3. Cardinality(Orphans') <= Cardinality(Orphans) + 1 /\ Cardinality(Orphans') \in Nat
        BY <1>n, <4>2, CardAdd
      <4>. QED  BY <1>n, <1>o, <2>1, <2>8, <4>1, <4>3 DEF OwedInv
    <3>. QED  BY <3>1, <3>2
  <2>9. \/ UNCHANGED <<acked, unanswered>> /\ p \notin Pending /\ p \notin Telling
        \/ /\ resp[p].status = "ok" /\ call[p].op \in {"put", "update"} /\ unanswered' = unanswered
           /\ \A q \in Procs, i \in Ids :
                acked'[q][i] = IF q = p /\ i = resp[p].id THEN handle[p].content[p] ELSE acked[q][i]
        \/ UNCHANGED acked /\ unanswered' = unanswered + 1
    BY <1>3 DEF Owes, Pending, Telling, Waiting
  <2>. QED  BY <2>6, <2>7, <2>8, <2>9
<1>. QED  BY <1>1, <1>2, <1>3
LEMMA GainMoves ==
  ASSUME IInv, GainInv, NEW p \in Procs, Moves(p)
  PROVE  GainInv'
PROOF
<1>. SUFFICES ASSUME NEW q \in Procs, resp'[q].status = "ok", call'[q].op \in {"put", "update"}
              PROVE  handle'[q].content[q] > 0
  BY DEF GainInv
<1>1. pc[p] # "wait" => resp[p].status = "none"
  BY DEF IInv, ControlInv
<1>2. resp'[p].status = "ok" => resp'[p] = resp[p] /\ handle'[p] = handle[p] /\ call'[p] = call[p]
  BY <1>1 DEF Moves, Rests, Takes, BeginsPut, BeginsUpdate, BeginsOther, Reads, Ends, BacksOff, Sends,
     Retries, SameCall, NoResp
<1>3. resp'[q] = resp[q] /\ handle'[q] = handle[q] /\ call'[q] = call[q]
  BY <1>2 DEF Moves, Frame
<1>. QED  BY <1>3 DEF GainInv

\* What serving r does to the objects nobody was told of.
ServesCreation(r) ==
  /\ r.id = NoId
  /\ \E i \in Ids : /\ \A j \in Ids \ {i} : store'[j] = store[j]
                    /\ Awaited(r) => resp'[r.from].status = "ok" /\ resp'[r.from].id = i

RefusesCreation(r) ==
  /\ r.id = NoId /\ store' = store
  /\ Awaited(r) => resp'[r.from].status \notin {"none", "ok"}

ServesObject(r) ==
  /\ r.id # NoId
  /\ \A j \in Ids : store'[j].status = "absent" <=> store[j].status = "absent"

Settles(r) ==
  /\ reqs' = reqs \ {r}
  /\ UNCHANGED <<handle, pc, call, acked, unanswered>>
  /\ \A q \in Procs : q # r.from \/ ~Awaited(r) => resp'[q] = resp[q]
  /\ Awaited(r) /\ r.kind = "put" /\ resp'[r.from].status = "ok" => r.content[r.from] > 0
  /\ ServesCreation(r) \/ RefusesCreation(r) \/ ServesObject(r)

LEMMA ServeSettles ==
  ASSUME IInv, NEW r \in reqs, Serve(r)
  PROVE  Settles(r)
PROOF
<1>. /\ store \in [Ids -> Object] /\ resp \in [Procs -> Response]
     /\ r.from \in Procs /\ r.content \in Content
     /\ r.id \in Ids \cup {NoId} /\ (r.kind # "put" => r.id \in Ids)
  BY DEF IInv, TypeOK, Requests
<1>0. ASSUME NEW status, NEW i, NEW v, Answer(r, status, i, v)
      PROVE  /\ reqs' = reqs \ {r}
             /\ UNCHANGED <<handle, pc, call, acked, unanswered>>
             /\ \A q \in Procs : q # r.from \/ ~Awaited(r) => resp'[q] = resp[q]
             /\ Awaited(r) => resp'[r.from].status = status /\ resp'[r.from].id = i
  BY <1>0 DEF Answer
<1>1. CASE ServeCreate(r)
  <2>1. PICK i \in Ids :
          /\ store' = [store EXCEPT ![i] = [status |-> "active", version |-> r.version,
                                            content |-> r.content]]
          /\ Answer(r, "ok", i, r.version)
    BY <1>1 DEF ServeCreate
  <2>2. r.id = NoId /\ r.content[r.from] > 0
    BY <1>1 DEF ServeCreate, IInv, PutInv
  <2>3. ServesCreation(r)
    BY <1>0, <2>1, <2>2 DEF ServesCreation
  <2>. QED  BY <1>0, <2>1, <2>2, <2>3 DEF Settles
<1>2. CASE ServeUpdate(r)
  <2>1. /\ r.id \in Ids /\ store[r.id].status = "active" /\ r.kind = "put" /\ r.id # NoId
        /\ r.version = store[r.id].version + 1
        /\ store' = [store EXCEPT ![r.id].version = r.version, ![r.id].content = r.content]
        /\ Answer(r, "ok", r.id, r.version)
    BY <1>2 DEF ServeUpdate
  <2>2. r.content[r.from] > 0
    <3>1. Adds(r.from, r.version - 1, r.content, store[r.id])
      BY <2>1 DEF IInv, PutInv
    <3>2. r.version - 1 = store[r.id].version
      BY <2>1
    <3>3. store[r.id].content[r.from] \in Nat /\ r.content[r.from] \in Nat
      BY <2>1
    <3>. QED  BY <3>1, <3>2, <3>3 DEF Adds
  <2>3. \A j \in Ids : store'[j].status = store[j].status
    BY <2>1
  <2>. QED  BY <1>0, <2>1, <2>2, <2>3 DEF Settles, ServesObject
<1>3. CASE ServeConflict(r) \/ ServeGone(r)
  <2>1. PICK status \in {"conflict", "notFound", "gone"} : Answer(r, status, r.id, 0)
    BY <1>3 DEF ServeConflict, ServeGone
  <2>2. r.id # NoId /\ store' = store
    BY <1>3 DEF ServeConflict, ServeGone
  <2>. QED  BY <1>0, <2>1, <2>2 DEF Settles, ServesObject
<1>4. CASE ServeDelete(r) \/ ServeRecover(r)
  <2>1. PICK st \in {"active", "deleted"} : store' = [store EXCEPT ![r.id].status = st]
    BY <1>4 DEF ServeDelete, ServeRecover
  <2>2. Answer(r, "ok", r.id, 0) /\ r.kind # "put" /\ store[r.id].status # "absent" /\ r.id # NoId
    BY <1>4 DEF ServeDelete, ServeRecover
  <2>3. \A j \in Ids : store'[j].status = "absent" <=> store[j].status = "absent"
    BY <2>1, <2>2
  <2>. QED  BY <1>0, <2>2, <2>3 DEF Settles, ServesObject
<1>5. CASE Refuse(r)
  <2>1. PICK status \in Refusals \ {"session", "validation"} : Answer(r, status, r.id, 0)
    BY <1>5 DEF Refuse
  <2>2. store' = store /\ status \notin {"none", "ok"}
    BY <1>5 DEF Refuse
  <2>3. RefusesCreation(r) \/ ServesObject(r)
    BY <1>0, <2>1, <2>2 DEF RefusesCreation, ServesObject
  <2>. QED  BY <1>0, <2>1, <2>2, <2>3 DEF Settles
<1>. QED  BY <1>1, <1>2, <1>3, <1>4, <1>5 DEF Serve

LEMMA GainSettles ==
  ASSUME IInv, GainInv, NEW r \in reqs, Settles(r)
  PROVE  GainInv'
PROOF
<1>. SUFFICES ASSUME NEW q \in Procs, resp'[q].status = "ok", call[q].op \in {"put", "update"}
              PROVE  handle[q].content[q] > 0
  BY DEF GainInv, Settles
<1>1. CASE q # r.from \/ ~Awaited(r)
  BY <1>1 DEF Settles, GainInv
<1>2. CASE q = r.from /\ Awaited(r)
  <2>1. r.kind = "put" /\ r.content = handle[q].content
    BY <1>2 DEF IInv, AwaitedInv, Carries
  <2>. QED  BY <1>2, <2>1 DEF Settles
<1>. QED  BY <1>1, <1>2

LEMMA OwedSettles ==
  ASSUME IInv, LoneInv, RaceInv, OwedInv, IsFiniteSet(Procs), IsFiniteSet(Ids),
         NEW r \in reqs, Settles(r)
  PROVE  OwedInv'
PROOF
<1>. /\ unanswered \in Nat /\ r.from \in Procs /\ r \in Requests
     /\ (r.kind # "put" => r.id # NoId)
  BY DEF IInv, TypeOK, Requests
<1>. HIDE DEF Object, Handle, Call, Response
<1>n. /\ IsFiniteSet(Pending) /\ IsFiniteSet(Pending') /\ IsFiniteSet(Orphans) /\ IsFiniteSet(Orphans')
      /\ IsFiniteSet(Creates) /\ IsFiniteSet(reqs')
      /\ Cardinality(Pending) \in Nat /\ Cardinality(Orphans) \in Nat /\ Cardinality(Creates) \in Nat
  <2>1. /\ Pending \subseteq Procs /\ Pending' \subseteq Procs /\ Orphans \subseteq Ids
        /\ Orphans' \subseteq Ids /\ Creates \subseteq reqs /\ IsFiniteSet(reqs)
        /\ reqs' \subseteq reqs
    BY DEF Pending, Waiting, Orphans, Unknown, Creates, OwedInv, Settles
  <2>. QED  BY <2>1, CardSub
<1>o. Cardinality(Orphans) + Cardinality(Creates) <= unanswered + Cardinality(Pending)
  BY DEF OwedInv
<1>u. UNCHANGED <<handle, pc, call, acked, unanswered>> /\ Waiting' = Waiting
  BY DEF Settles, Waiting, Creating
<1>r. \A q \in Procs : q # r.from \/ ~Awaited(r) => resp'[q] = resp[q]
  BY DEF Settles
\* It is enough to compare the sets.
<1>c. Creates' \subseteq Creates /\ (r.id = NoId => r \in Creates /\ Creates' \subseteq Creates \ {r})
  BY DEF Creates, Settles
<1>d. /\ Cardinality(Creates') \in Nat /\ Cardinality(Creates') <= Cardinality(Creates)
      /\ r.id = NoId => Cardinality(Creates') + 1 <= Cardinality(Creates)
  BY <1>n, <1>c, CardSub, CardDrop
<1>1. ASSUME Pending' = Pending, Orphans' \subseteq Orphans PROVE OwedInv'
  <2>1. Cardinality(Orphans') <= Cardinality(Orphans) /\ Cardinality(Orphans') \in Nat
    BY <1>n, <1>1, CardSub
  <2>. QED  BY <1>n, <1>o, <1>u, <1>d, <1>1, <2>1 DEF OwedInv
<1>2. ASSUME Pending \subseteq Pending' \cup {r.from}, Orphans' \subseteq Orphans, r.id = NoId
      PROVE  OwedInv'
  <2>1. Cardinality(Orphans') <= Cardinality(Orphans) /\ Cardinality(Orphans') \in Nat
    BY <1>n, <1>2, CardSub
  <2>2. Cardinality(Pending) <= Cardinality(Pending') + 1 /\ Cardinality(Pending') \in Nat
    BY <1>n, <1>2, CardAdd
  <2>. QED  BY <1>n, <1>o, <1>u, <1>d, <1>2, <2>1, <2>2 DEF OwedInv
<1>3. ASSUME Pending' = Pending, NEW i, Orphans' \subseteq Orphans \cup {i}, r.id = NoId
      PROVE  OwedInv'
  <2>1. Cardinality(Orphans') <= Cardinality(Orphans) + 1 /\ Cardinality(Orphans') \in Nat
    BY <1>n, <1>3, CardAdd
  <2>. QED  BY <1>n, <1>o, <1>u, <1>d, <1>3, <2>1 DEF OwedInv
<1>t. ASSUME r.from \notin Telling PROVE Told \subseteq Told' /\ Telling \subseteq Telling'
  <2>1. \A q \in Telling : q \in Waiting /\ resp'[q] = resp[q]
    BY <1>r, <1>t DEF Telling, Waiting
  <2>2. \A q \in Telling : q \in Telling' /\ resp'[q].id = resp[q].id
    BY <1>u, <2>1 DEF Telling
  <2>. QED  BY <2>2 DEF Told
\* The caller that waits for r has been told nothing yet.
<1>w. Awaited(r) => resp[r.from].status = "none" /\ r.from \notin Telling
  BY DEF LoneInv, Telling
<1>4. CASE ~Awaited(r)
  <2>1. Pending' = Pending /\ Telling' = Telling /\ \A q \in Procs : resp'[q] = resp[q]
    BY <1>4, <1>u, <1>r DEF Pending, Telling, Waiting
  <2>2. Told' = Told
    <3>. SUFFICES {resp'[q].id : q \in Telling'} = {resp[q].id : q \in Telling}
      BY DEF Told
    <3>. QED  BY <2>1 DEF Telling, Waiting
  <2>3. CASE ServesCreation(r)
    <3>1. PICK i \in Ids : \A j \in Ids \ {i} : store'[j] = store[j]
      BY <2>3 DEF ServesCreation
    <3>2. Orphans' \subseteq Orphans \cup {i}
      BY <1>u, <2>2, <3>1 DEF Orphans, Unknown
    <3>. QED  BY <1>3, <2>1, <2>3, <3>2 DEF ServesCreation
  <2>4. CASE RefusesCreation(r) \/ ServesObject(r)
    <3>1. Orphans' \subseteq Orphans
      BY <1>u, <2>2, <2>4 DEF Orphans, Unknown, RefusesCreation, ServesObject
    <3>. QED  BY <1>1, <2>1, <3>1
  <2>. QED  BY <2>3, <2>4 DEF Settles
<1>5. CASE Awaited(r) /\ r.id = NoId
  <2>1. Pending \subseteq Pending' \cup {r.from}
    BY <1>u, <1>r DEF Pending, Waiting
  <2>2. Told \subseteq Told'
    BY <1>t, <1>w, <1>5
  <2>3. CASE ServesCreation(r)
    <3>1. PICK i \in Ids : /\ \A j \in Ids \ {i} : store'[j] = store[j]
                           /\ resp'[r.from].status = "ok" /\ resp'[r.from].id = i
      BY <1>5, <2>3 DEF ServesCreation
    <3>2. r.from \in Waiting
      <4>1. r.kind = "put" /\ pc[r.from] = "wait"
        BY <1>5 DEF Awaited
      <4>2. call[r.from].op \in {"put", "update"} /\ handle[r.from].id = NoId
        BY <1>5, <4>1 DEF IInv, AwaitedInv, Carries
      <4>3. call[r.from].op # "update"
        BY <4>1, <4>2 DEF RaceInv, WinnerInv, IInv, TypeOK
      <4>. QED  BY <4>1, <4>2, <4>3 DEF Waiting, Creating
    <3>3. r.from \in Telling'
      BY <1>u, <3>1, <3>2 DEF Telling
    <3>4. i \in Told'
      <4>. SUFFICES i \in {resp'[q].id : q \in Telling'}
        BY DEF Told
      <4>. QED  BY <3>1, <3>3
    <3>5. Orphans' \subseteq Orphans
      BY <1>u, <2>2, <3>1, <3>4 DEF Orphans, Unknown
    <3>. QED  BY <1>2, <1>5, <2>1, <3>5
  <2>4. CASE RefusesCreation(r)
    <3>1. Orphans' \subseteq Orphans
      BY <1>u, <2>2, <2>4 DEF Orphans, Unknown, RefusesCreation
    <3>. QED  BY <1>2, <1>5, <2>1, <3>1
  <2>. QED  BY <1>5, <2>3, <2>4 DEF Settles, ServesObject
<1>6. CASE Awaited(r) /\ r.id # NoId
  <2>1. r.from \notin Waiting
    <3>1. call[r.from].op = "put" => handle[r.from].id = r.id
      BY <1>6 DEF IInv, AwaitedInv, Carries
    <3>. QED  BY <1>6, <3>1 DEF Waiting, Creating
  <2>2. \A q \in Waiting : resp'[q] = resp[q]
    BY <1>r, <2>1 DEF Waiting
  <2>3. Pending' = Pending /\ Telling' = Telling
    BY <1>u, <2>2 DEF Pending, Telling
  <2>4. Told' = Told
    <3>. SUFFICES {resp'[q].id : q \in Telling'} = {resp[q].id : q \in Telling}
      BY DEF Told
    <3>. QED  BY <2>2, <2>3 DEF Telling
  <2>5. Orphans' \subseteq Orphans
    BY <1>6, <1>u, <2>4 DEF Orphans, Unknown, Settles, ServesCreation, RefusesCreation, ServesObject
  <2>. QED  BY <1>1, <2>3, <2>5
<1>. QED  BY <1>4, <1>5, <1>6

LEMMA OwedInvariant ==
  ASSUME IsFiniteSet(Procs), IsFiniteSet(Ids)
  PROVE  Spec => [](GainInv /\ OwedInv)
PROOF
<1>1. Init => GainInv /\ OwedInv
  <2>. SUFFICES ASSUME Init PROVE GainInv /\ OwedInv
    OBVIOUS
  <2>1. GainInv
    BY DEF Init, GainInv, NoResp
  <2>2. Orphans = {} /\ Creates = {} /\ Pending = {} /\ reqs = {} /\ unanswered = 0
    BY DEF Init, Orphans, Unknown, Creates, Pending, Waiting, Absent
  <2>. QED  BY <2>1, <2>2, FS_EmptySet DEF OwedInv
<1>2. IInv /\ CallsInv /\ GainInv /\ OwedInv /\ [Next]_vars => (GainInv /\ OwedInv)'
  <2>. SUFFICES ASSUME IInv, CallsInv, GainInv, OwedInv, [Next]_vars PROVE (GainInv /\ OwedInv)'
    OBVIOUS
  <2>i. IInv' /\ LoneInv /\ RaceInv
    BY InvStep DEF CallsInv
  <2>1. ASSUME NEW p \in Procs, CallerStep(p) PROVE (GainInv /\ OwedInv)'
    <3>1. Moves(p) /\ Owes(p)
      BY <2>1, CallerMoves, CallerOwes
    <3>. QED  BY <2>i, <3>1, GainMoves, OwedMoves
  <2>2. ASSUME NEW r \in reqs, Serve(r) PROVE (GainInv /\ OwedInv)'
    <3>1. Settles(r)
      BY <2>2, ServeSettles
    <3>. QED  BY <2>i, <3>1, GainSettles, OwedSettles
  <2>3. CASE UNCHANGED vars
    BY <2>3 DEF vars, GainInv, OwedInv, Orphans, Unknown, Told, Telling, Pending, Waiting, Creating, Creates
  <2>. QED  BY <2>1, <2>2, <2>3 DEF Next, ServerStep, Finished
<1>. QED  BY <1>1, <1>2, CallsInvariant, PTL DEF Spec

\* Only a creating Put without an answer leaves an object nobody was told of,
\* and no more than one each.
THEOREM UnknownObjectsAreUnanswered ==
  ASSUME IsFiniteSet(Procs), IsFiniteSet(Ids)
  PROVE  Spec => []UnknownObjectsHadNoAnswer
PROOF
<1>1. IInv /\ OwedInv => UnknownObjectsHadNoAnswer
  <2>. SUFFICES ASSUME IInv, OwedInv
                PROVE  Cardinality(Unknown) <= unanswered + Cardinality(Waiting)
    BY DEF UnknownObjectsHadNoAnswer, Unknown, Waiting
  <2>1. /\ IsFiniteSet(Waiting) /\ IsFiniteSet(Pending) /\ IsFiniteSet(Telling)
        /\ IsFiniteSet(Orphans) /\ IsFiniteSet(Creates)
    <3>1. /\ Waiting \subseteq Procs /\ Pending \subseteq Procs /\ Telling \subseteq Procs
          /\ Orphans \subseteq Ids /\ Creates \subseteq reqs /\ IsFiniteSet(reqs)
      BY DEF Waiting, Pending, Telling, Orphans, Unknown, Creates, OwedInv
    <3>. QED  BY <3>1, CardSub
  <2>2. IsFiniteSet(Told) /\ Cardinality(Told) <= Cardinality(Telling)
    <3>. DEFINE f == [q \in Telling |-> resp[q].id]
    <3>1. f \in Surjection(Telling, Told)
      BY DEF Surjection, Told
    <3>. HIDE DEF f
    <3>. QED  BY <2>1, <3>1, FS_Surjection
  <2>3. IsFiniteSet(Orphans \cup Told)
        /\ Cardinality(Orphans \cup Told) <= Cardinality(Orphans) + Cardinality(Told)
    <3>1. Orphans \cap Told = {}
      BY DEF Orphans
    <3>2. /\ IsFiniteSet(Orphans \cup Told) /\ Cardinality(Orphans \cup Told) \in Nat
          /\ Cardinality(Orphans \cup Told) = Cardinality(Orphans) + Cardinality(Told)
      BY <2>1, <2>2, <3>1, CardUnion, Zenon
    <3>. QED  BY <3>2
  <2>4. Cardinality(Unknown) <= Cardinality(Orphans \cup Told) /\ Cardinality(Unknown) \in Nat
    <3>1. Unknown \subseteq Orphans \cup Told
      BY DEF Orphans
    <3>. QED  BY <2>3, <3>1, CardSub
  <2>5. Cardinality(Pending) + Cardinality(Telling) <= Cardinality(Waiting)
    <3>1. Pending \cap Telling = {} /\ Pending \cup Telling \subseteq Waiting
      BY DEF Pending, Telling
    <3>2. /\ IsFiniteSet(Pending \cup Telling)
          /\ Cardinality(Pending \cup Telling) = Cardinality(Pending) + Cardinality(Telling)
      BY <2>1, <3>1, CardUnion
    <3>. QED  BY <2>1, <3>1, <3>2, CardSub
  <2>6. /\ Cardinality(Orphans) + Cardinality(Creates) <= unanswered + Cardinality(Pending)
        /\ unanswered \in Nat
    BY DEF OwedInv, IInv, TypeOK
  <2>7. /\ Cardinality(Orphans) \in Nat /\ Cardinality(Creates) \in Nat /\ Cardinality(Pending) \in Nat
        /\ Cardinality(Telling) \in Nat /\ Cardinality(Told) \in Nat /\ Cardinality(Waiting) \in Nat
        /\ Cardinality(Orphans \cup Told) \in Nat
    BY <2>1, <2>2, <2>3, FS_CardinalityType
  <2>. QED  BY <2>2, <2>3, <2>4, <2>5, <2>6, <2>7
<1>. QED  BY <1>1, CallsInvariant, OwedInvariant, PTL

=============================================================================
