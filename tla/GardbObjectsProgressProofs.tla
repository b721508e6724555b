---------------------- MODULE GardbObjectsProgressProofs ----------------------
(***************************************************************************)
(* How far a call of GardbObjects can go, for every set of callers, ids    *)
(* and retry options: each step brings it nearer to its end, it never      *)
(* waits for an answer that cannot come, and what a caller that keeps to   *)
(* Get, or a network that loses nothing, may rely on.                      *)
(* That a call does return also needs fair scheduling: CallsReturn.        *)
(***************************************************************************)
EXTENDS GardbObjectsCallsProofs

USE ConstantsOK DEF Content, Object, Handle, Call, Response, Errors, Statuses

-----------------------------------------------------------------------------
(* Update's loop counts up to MaxRetries.                                  *)

BoundInv ==
  \A p \in Procs :
    call[p].op = "update" =>
      /\ call[p].attempt <= call[p].retries
      /\ pc[p] = "backoff" => call[p].attempt < call[p].retries

LEMMA BoundMoves ==
  ASSUME IInv, BoundInv, NEW p \in Procs, Moves(p)
  PROVE  BoundInv'
PROOF
<1>. /\ call \in [Procs -> Call] /\ call[p].attempt \in Nat /\ call[p].retries \in Int
     /\ \A q \in Procs \ {p} : call'[q] = call[q] /\ pc'[q] = pc[q]
  BY DEF IInv, TypeOK, Moves, Frame
<1>0. ASSUME call'[p].op = "update" =>
               /\ call'[p].attempt <= call'[p].retries
               /\ pc'[p] = "backoff" => call'[p].attempt < call'[p].retries
      PROVE  BoundInv'
  BY <1>0 DEF BoundInv
<1>1. CASE Rests(p) \/ Takes(p) \/ Reads(p) \/ Sends(p)
  <2>1. call'[p] = call[p] /\ (pc'[p] = "backoff" => pc[p] = "backoff")
    BY <1>1 DEF Rests, Takes, Reads, Sends, SameCall
  <2>. QED  BY <1>0, <2>1 DEF BoundInv
<1>2. CASE BeginsPut(p) \/ BeginsOther(p)
  BY <1>0, <1>2 DEF BeginsPut, BeginsOther
<1>3. CASE BeginsUpdate(p)
  <2>1. PICK i \in Ids, n \in Nat : call'[p] = NewCall("update", i, n, store[i].version)
    BY <1>3 DEF BeginsUpdate
  <2>2. call'[p].attempt = 0 /\ call'[p].retries = n /\ pc'[p] = "get"
    BY <1>3, <2>1 DEF NewCall, BeginsUpdate
  <2>. QED  BY <1>0, <2>2
<1>4. CASE Ends(p)
  <2>1. call'[p].op = "none"
    BY <1>4 DEF Ends, NoCall, NewCall
  <2>. QED  BY <1>0, <2>1
<1>5. CASE BacksOff(p)
  <2>1. /\ call'[p].attempt = call[p].attempt /\ call'[p].retries = call[p].retries
        /\ call[p].attempt < call[p].retries
    BY <1>5 DEF BacksOff
  <2>. QED  BY <1>0, <2>1
<1>6. CASE Retries(p)
  <2>1. /\ call'[p].attempt = call[p].attempt + 1 /\ call'[p].retries = call[p].retries
        /\ pc'[p] = "get" /\ call'[p].op = call[p].op /\ pc[p] = "backoff"
    BY <1>6 DEF Retries
  <2>. QED  BY <1>0, <2>1 DEF BoundInv
<1>. QED  BY <1>1, <1>2, <1>3, <1>4, <1>5, <1>6 DEF Moves

LEMMA Bounded == Spec => [](IInv /\ CallsInv /\ BoundInv)
PROOF
<1>1. Init => BoundInv
  BY DEF Init, BoundInv, NoCall, NewCall
<1>2. IInv /\ BoundInv /\ [Next]_vars => BoundInv'
  <2>. SUFFICES ASSUME IInv, BoundInv, [Next]_vars PROVE BoundInv'
    OBVIOUS
  <2>1. ASSUME NEW p \in Procs, CallerStep(p) PROVE BoundInv'
    BY <2>1, CallerMoves, BoundMoves
  <2>2. ASSUME NEW r \in reqs, Serve(r) PROVE BoundInv'
    BY <2>2, ServeAnswers DEF Answers, BoundInv
  <2>3. CASE UNCHANGED vars
    BY <2>3 DEF vars, BoundInv
  <2>. QED  BY <2>1, <2>2, <2>3 DEF Next, ServerStep, Finished
<1>. QED  BY <1>1, <1>2, CallsInvariant, PTL DEF Spec

\* An Update is under way for MaxRetries + 1 attempts at most.
AttemptsBounded == \A p \in Procs : call[p].op = "update" => call[p].attempt <= call[p].retries

\* However often an Update is refused or loses its answer, it never begins more
\* than MaxRetries + 1 attempts (the loop of update.go).
THEOREM UpdatesAreBounded == Spec => []AttemptsBounded
PROOF
<1>1. BoundInv => AttemptsBounded
  BY DEF BoundInv, AttemptsBounded
<1>. QED  BY <1>1, Bounded, PTL

-----------------------------------------------------------------------------
(* A measure of what is left of a call.                                    *)

Left(p) == IF call[p].op = "update" THEN call[p].retries - call[p].attempt ELSE 0

Stage(p) ==
  CASE pc[p] = "get" -> 4 [] pc[p] = "put" -> 3 [] pc[p] = "wait" -> 2 [] OTHER -> 1

\* The steps p's call can still take: four for each attempt.
Distance(p) == IF pc[p] = "idle" THEN 0 ELSE 4 * Left(p) + Stage(p)

Advance(p) ==
  pc[p] # "idle" =>
    /\ Distance(p) \in Nat \ {0}
    /\ Distance(p)' \in Nat
    /\ IF pc'[p] = pc[p] THEN Distance(p)' = Distance(p) ELSE Distance(p)' < Distance(p)

LEMMA MovesAdvance ==
  ASSUME IInv, BoundInv, NEW p \in Procs, Moves(p)
  PROVE  \A q \in Procs : Advance(q)
PROOF
<1>. TAKE q \in Procs
<1>. SUFFICES ASSUME pc[q] # "idle" PROVE Advance(q)
  BY DEF Advance
<1>t. /\ call[q].attempt \in Nat /\ call[q].retries \in Int
      /\ pc[q] \in {"get", "put", "wait", "backoff"}
  BY DEF IInv, TypeOK
<1>l. Left(q) \in Nat
  BY <1>t DEF Left, BoundInv
<1>s. Stage(q) \in Nat \ {0}
  BY DEF Stage
<1>d. Distance(q) = 4 * Left(q) + Stage(q) /\ Distance(q) \in Nat \ {0}
  BY <1>l, <1>s DEF Distance
<1>0. ASSUME pc'[q] = pc[q], call'[q] = call[q] PROVE Advance(q)
  <2>1. Distance(q)' = Distance(q)
    BY <1>0 DEF Distance, Left, Stage
  <2>. QED  BY <1>0, <1>d, <2>1 DEF Advance
<1>f. ASSUME pc'[q] # pc[q], pc'[q] = "idle" \/ (Left(q)' = Left(q) /\ Stage(q)' \in Nat /\ Stage(q)' < Stage(q))
      PROVE  Advance(q)
  <2>1. CASE pc'[q] = "idle"
    <3>1. Distance(q)' = 0
      BY <2>1 DEF Distance
    <3>. QED  BY <1>f, <1>d, <3>1 DEF Advance
  <2>2. CASE pc'[q] # "idle"
    <3>1. Distance(q)' = 4 * Left(q) + Stage(q)'
      BY <1>f, <2>2 DEF Distance
    <3>. QED  BY <1>f, <1>d, <1>l, <1>s, <2>2, <3>1 DEF Advance
  <2>. QED  BY <2>1, <2>2
<1>1. CASE q # p \/ Rests(q)
  <2>1. pc'[q] = pc[q] /\ call'[q] = call[q]
    BY <1>1 DEF Moves, Frame, Rests, SameCall
  <2>. QED  BY <1>0, <2>1
<1>2. CASE q = p /\ (Reads(q) \/ Sends(q))
  <2>1. /\ Left(q)' = Left(q)
        /\ \/ pc[q] = "get" /\ pc'[q] = "put"
           \/ pc[q] = "put" /\ pc'[q] = "wait"
    BY <1>2 DEF Reads, Sends, Left
  <2>2. Stage(q)' \in Nat /\ Stage(q)' < Stage(q)
    BY <2>1 DEF Stage
  <2>. QED  BY <1>f, <2>1, <2>2
<1>3. CASE q = p /\ Ends(q)
  BY <1>3, <1>f DEF Ends
<1>4. CASE q = p /\ BacksOff(q)
  <2>1. /\ call'[q].attempt = call[q].attempt /\ call'[q].retries = call[q].retries
        /\ call'[q].op = call[q].op /\ pc[q] \in {"put", "wait"} /\ pc'[q] = "backoff"
    BY <1>4 DEF BacksOff
  <2>2. Left(q)' = Left(q)
    BY <2>1 DEF Left
  <2>3. Stage(q)' \in Nat /\ Stage(q)' < Stage(q)
    BY <2>1 DEF Stage
  <2>. QED  BY <1>f, <2>1, <2>2, <2>3
<1>5. CASE q = p /\ Retries(q)
  <2>1. /\ call'[q].attempt = call[q].attempt + 1 /\ call'[q].retries = call[q].retries
        /\ call'[q].op = call[q].op /\ pc[q] = "backoff" /\ pc'[q] = "get"
    BY <1>5 DEF Retries, IInv, TypeOK
  <2>2. call[q].op = "update" /\ call[q].attempt < call[q].retries
    BY <2>1 DEF IInv, ControlInv, BoundInv
  <2>3. Left(q)' = Left(q) - 1 /\ Left(q) - 1 \in Nat
    BY <1>t, <2>1, <2>2 DEF Left
  <2>4. Stage(q) = 1 /\ Stage(q)' = 4
    BY <2>1 DEF Stage
  <2>5. Distance(q)' = 4 * (Left(q) - 1) + 4
    BY <2>1, <2>3, <2>4 DEF Distance
  <2>6. Distance(q) = 4 * Left(q) + 1
    BY <1>d, <2>4
  <2>7. Distance(q)' \in Nat /\ Distance(q)' < Distance(q)
    BY <1>l, <2>3, <2>5, <2>6
  <2>. QED  BY <1>d, <2>1, <2>7 DEF Advance
<1>. QED  BY <1>1, <1>2, <1>3, <1>4, <1>5 DEF Moves, Takes, BeginsPut, BeginsUpdate, BeginsOther

\* Every step of a call brings it nearer to its end: at most four for each of the
\* MaxRetries + 1 attempts of an Update, and none is undone by what the server or
\* the other callers do (Put, and the loop of update.go).
THEOREM CallsOnlyAdvance == Spec => [][\A p \in Procs : Advance(p)]_vars
PROOF
<1>1. IInv /\ BoundInv /\ [Next]_vars => [\A p \in Procs : Advance(p)]_vars
  <2>. SUFFICES ASSUME IInv, BoundInv, Next PROVE \/ \A p \in Procs : Advance(p)
                                                  \/ UNCHANGED vars
    OBVIOUS
  <2>1. ASSUME NEW p \in Procs, CallerStep(p) PROVE \A q \in Procs : Advance(q)
    BY <2>1, CallerMoves, MovesAdvance
  <2>2. ASSUME NEW r \in reqs, Serve(r) PROVE \A q \in Procs : Advance(q)
    <3>. TAKE q \in Procs
    <3>1. UNCHANGED <<pc, call>>
      BY <2>2, ServeAnswers DEF Answers
    <3>2. /\ call[q].attempt \in Nat /\ call[q].retries \in Int
          /\ call[q].op = "update" => call[q].attempt <= call[q].retries
      BY DEF IInv, TypeOK, BoundInv
    <3>3. Left(q) \in Nat /\ Stage(q) \in Nat \ {0}
      BY <3>2 DEF Left, Stage
    <3>4. Distance(q)' = Distance(q) /\ (pc[q] # "idle" => Distance(q) \in Nat \ {0})
      BY <3>1, <3>3 DEF Distance, Left, Stage
    <3>. QED  BY <3>1, <3>4 DEF Advance
  <2>. QED  BY <2>1, <2>2 DEF Next, ServerStep, Finished
<1>. QED  BY <1>1, Bounded, PTL DEF Spec

-----------------------------------------------------------------------------
(* A wait can end without a time-out.                                      *)

\* A caller that waits has its answer, or the request it waits for is on its way.
Answerable ==
  \A p \in Procs :
    pc[p] = "wait" => \/ resp[p].status # "none"
                      \/ \E r \in reqs : r.from = p /\ Awaited(r)

LEMMA AnswerableMoves ==
  ASSUME IInv, Answerable, NEW p \in Procs, Moves(p)
  PROVE  Answerable'
PROOF
<1>. SUFFICES ASSUME NEW q \in Procs, pc'[q] = "wait"
              PROVE  \/ resp'[q].status # "none"
                     \/ \E r \in reqs' : r.from = q /\ Awaited(r)'
  BY DEF Answerable
<1>1. ASSUME pc'[q] = pc[q], calls'[q] = calls[q], call'[q] = call[q], resp'[q] = resp[q],
             reqs \subseteq reqs'
      PROVE  \/ resp'[q].status # "none"
             \/ \E r \in reqs' : r.from = q /\ Awaited(r)'
  BY <1>1 DEF Answerable, Awaited
<1>2. CASE q # p
  <2>1. reqs \subseteq reqs'
    BY DEF Moves, Rests, Takes, BeginsPut, BeginsUpdate, BeginsOther, Reads, Ends, BacksOff, Sends,
       Retries
  <2>. QED  BY <1>1, <1>2, <2>1 DEF Moves, Frame
<1>3. CASE q = p /\ Rests(p)
  BY <1>1, <1>3 DEF Rests, SameCall, SameCounts
<1>4. CASE q = p /\ BeginsOther(p)
  <2>1. PICK r \in Requests : /\ r.from = p /\ r.call = calls[p] + 1 /\ r.attempt = 0
                              /\ reqs' = reqs \cup {r}
    BY <1>4 DEF BeginsOther
  <2>2. Awaited(r)' /\ r \in reqs'
    BY <1>4, <2>1 DEF BeginsOther, Awaited
  <2>. QED  BY <1>4, <2>1, <2>2
<1>5. CASE q = p /\ Sends(p)
  <2>1. PICK m : m = Request(p, "put", handle[p], calls[p], call[p].attempt)
    OBVIOUS
  <2>2. m.from = p /\ m.call = calls[p] /\ m.attempt = call[p].attempt
    BY <2>1 DEF Request
  <2>3. m \in reqs' /\ pc'[p] = "wait" /\ calls'[p] = calls[p] /\ call'[p] = call[p]
    BY <1>5, <2>1 DEF Sends, SameCounts
  <2>4. Awaited(m)'
    BY <2>2, <2>3 DEF Awaited
  <2>. QED  BY <1>5, <2>2, <2>3, <2>4
<1>. QED  BY <1>2, <1>3, <1>4, <1>5 DEF Moves, Takes, BeginsPut, BeginsUpdate, Reads, Ends, BacksOff,
     Retries, SameCall

\* Serving the request awaited gives the answer.
LEMMA AnswerableServe ==
  ASSUME IInv, Answerable, NEW r \in reqs, Serve(r)
  PROVE  Answerable'
PROOF
<1>. resp \in [Procs -> Response] /\ r.from \in Procs
  BY DEF IInv, TypeOK, Requests
<1>1. PICK status, i, v : Answer(r, status, i, v) /\ status # "none"
  BY DEF Serve, ServeCreate, ServeUpdate, ServeConflict, ServeDelete, ServeRecover, ServeGone, Refuse
<1>2. /\ reqs' = reqs \ {r} /\ UNCHANGED <<pc, call, calls>>
      /\ Awaited(r) => resp'[r.from].status # "none"
      /\ \A q \in Procs : resp'[q] = resp[q] \/ (q = r.from /\ Awaited(r))
  BY <1>1 DEF Answer
<1>. SUFFICES ASSUME NEW q \in Procs, pc[q] = "wait", resp'[q].status = "none"
              PROVE  \E x \in reqs' : x.from = q /\ Awaited(x)'
  BY <1>2 DEF Answerable
<1>3. resp'[q] = resp[q] /\ ~(q = r.from /\ Awaited(r))
  BY <1>2
<1>4. PICK x \in reqs : x.from = q /\ Awaited(x)
  BY <1>3 DEF Answerable
<1>5. x \in reqs' /\ Awaited(x)'
  BY <1>2, <1>3, <1>4 DEF Awaited
<1>. QED  BY <1>4, <1>5

\* No call waits for an answer that cannot come: each request is sent by the call
\* and attempt that waits for it, and no answer is given to another's request.
THEOREM NobodyWaitsInVain == Spec => []Answerable
PROOF
<1>1. Init => Answerable
  BY DEF Init, Answerable
<1>2. IInv /\ Answerable /\ [Next]_vars => Answerable'
  <2>. SUFFICES ASSUME IInv, Answerable, [Next]_vars PROVE Answerable'
    OBVIOUS
  <2>1. ASSUME NEW p \in Procs, CallerStep(p) PROVE Answerable'
    BY <2>1, CallerMoves, AnswerableMoves
  <2>2. ASSUME NEW r \in reqs, Serve(r) PROVE Answerable'
    BY <2>2, AnswerableServe
  <2>3. CASE UNCHANGED vars
    BY <2>3 DEF vars, Answerable, Awaited
  <2>. QED  BY <2>1, <2>2, <2>3 DEF Next, ServerStep, Finished
<1>. QED  BY <1>1, <1>2, Invariant, PTL DEF Spec

-----------------------------------------------------------------------------
(* What may be relied on when nothing is lost, or nothing is listed.       *)

\* Without lost answers nothing is stored twice.
StoredOnce == \A p \in Procs, i \in Ids : store[i].content[p] <= asked[p]

Unsent == \A p \in Procs : resent[p] = 0

\* Where no answer is lost and no call is cut short, no Put and no Update takes
\* effect twice, however often Update's loop goes round (update.go).
THEOREM OnceWithoutLosses ==
  ASSUME Lossy = FALSE
  PROVE  Spec => []StoredOnce
PROOF
<1>1. Init => Unsent
  BY DEF Init, Unsent
<1>2. Unsent /\ [Next]_vars => Unsent'
  <2>. SUFFICES ASSUME [Next]_vars PROVE resent' = resent
    BY DEF Unsent
  <2>1. ASSUME NEW p \in Procs, CallerStep(p) PROVE resent' = resent
    BY <2>1 DEF CallerStep, Proceed, New, Put, Cancel, UpdateGet, UpdateGetFails, UpdateRejects,
       SendPut, PutAborts, Receive, GiveUp, Backoff, Get, List, Delete, Recover, DeleteOrRecover, Update
  <2>2. ASSUME NEW r \in reqs, Serve(r) PROVE resent' = resent
    BY <2>2 DEF Serve, ServeCreate, ServeUpdate, ServeConflict, ServeDelete, ServeRecover, ServeGone,
       Refuse, Answer
  <2>. QED  BY <2>1, <2>2 DEF Next, ServerStep, Finished, vars
<1>3. IInv /\ Unsent /\ AppliedAtMostOnce => StoredOnce
  BY DEF IInv, TypeOK, Unsent, AppliedAtMostOnce, StoredOnce
<1>. QED  BY <1>1, <1>2, <1>3, CallsApplyOnce, Invariant, PTL DEF Spec

\* An object with an id has a version.
VersionedInv ==
  /\ \A p \in Procs : handle[p].id # NoId => handle[p].version # 0
  /\ \A i \in Ids : store[i].status # "absent" => store[i].version # 0
  /\ \A p \in Procs : resp[p].status = "ok" /\ call[p].op \in {"put", "update"} => resp[p].version # 0
  /\ \A p \in Procs : resp[p].status = "conflict" => handle[p].id # NoId

\* What a caller's step does to its object, if it lists nothing.
LEMMA TakesVersioned ==
  ASSUME IInv, VersionedInv, "list" \notin Ops, NEW p \in Procs, CallerStep(p)
  PROVE  handle'[p].id # NoId => handle'[p].version # 0
PROOF
<1>. /\ store \in [Ids -> Object] /\ handle \in [Procs -> Handle]
     /\ pc[p] = "get" => call[p].id \in Ids
  BY DEF IInv, TypeOK, ControlInv
<1>1. CASE handle' = handle
  BY <1>1 DEF VersionedInv
<1>2. CASE handle' = [handle EXCEPT ![p] = FreshObject]
  BY <1>2 DEF FreshObject
<1>3. ASSUME NEW i \in Ids, store[i].status = "active",
             \/ handle' = [handle EXCEPT ![p] = Loaded(i)]
             \/ handle' = [handle EXCEPT ![p] = Mutated(Loaded(i), p)]
      PROVE  handle'[p].version # 0
  <2>1. Loaded(i) \in Handle /\ Loaded(i).version = store[i].version
    BY LoadedType
  <2>2. Mutated(Loaded(i), p).version = store[i].version
    BY <2>1, MutatedType
  <2>3. store[i].version # 0
    BY <1>3 DEF VersionedInv
  <2>. QED  BY <1>3, <2>1, <2>2, <2>3
<1>4. CASE handle' = [handle EXCEPT ![p] = Mutated(handle[p], p)]
  <2>1. Mutated(handle[p], p).id = handle[p].id /\ Mutated(handle[p], p).version = handle[p].version
    BY MutatedType
  <2>. QED  BY <1>4, <2>1 DEF VersionedInv
<1>5. CASE /\ resp[p].status = "ok" /\ call[p].op \in {"put", "update"}
           /\ handle' = [handle EXCEPT ![p] = AfterPut(handle[p], resp[p])]
  <2>1. AfterPut(handle[p], resp[p]).version = resp[p].version
    BY DEF AfterPut
  <2>. QED  BY <1>5, <2>1 DEF VersionedInv
<1>6. CASE Put(p)
  BY <1>4, <1>6 DEF Put
<1>7. ASSUME NEW i \in Ids, Get(p, i) PROVE handle'[p].version # 0
  BY <1>3, <1>7 DEF Get
<1>8. CASE UpdateGet(p) \/ UpdateRejects(p)
  <2>1. call[p].id \in Ids /\ store[call[p].id].status = "active"
    BY <1>8 DEF UpdateGet, UpdateRejects, IInv, ControlInv
  <2>2. handle' = [handle EXCEPT ![p] = Mutated(Loaded(call[p].id), p)]
    BY <1>8 DEF UpdateGet, UpdateRejects
  <2>. QED  BY <1>3, <2>1, <2>2
<1>9. CASE Receive(p)
  BY <1>1, <1>5, <1>9 DEF Receive
<1>10. CASE New(p)
  BY <1>2, <1>10 DEF New
<1>11. CASE UpdateGetFails(p) \/ SendPut(p) \/ PutAborts(p) \/ GiveUp(p) \/ Backoff(p) \/ Cancel(p)
  <2>1. handle' = handle
    BY <1>11 DEF UpdateGetFails, SendPut, PutAborts, GiveUp, Backoff, Cancel
  <2>. QED  BY <1>1, <2>1
<1>12. ASSUME NEW i \in Ids, Delete(p, i) \/ Recover(p, i) \/ \E n \in RetryOptions : Update(p, i, n)
       PROVE  handle' = handle
  BY <1>12 DEF Delete, Recover, DeleteOrRecover, Update
<1>. QED  BY <1>1, <1>6, <1>7, <1>8, <1>9, <1>10, <1>11, <1>12 DEF CallerStep, Proceed

LEMMA VersionedMoves ==
  ASSUME IInv, VersionedInv, "list" \notin Ops, NEW p \in Procs, CallerStep(p)
  PROVE  VersionedInv'
PROOF
<1>1. Moves(p)
  BY CallerMoves
<1>2. \A q \in Procs : handle'[q].id # NoId => handle'[q].version # 0
  BY <1>1, TakesVersioned DEF Moves, Frame, VersionedInv
<1>3. store' = store
  BY <1>1 DEF Moves, Frame
<1>w. pc[p] # "wait" => resp[p].status = "none"
  BY DEF IInv, ControlInv
<1>4. \A q \in Procs : resp'[q].status \in {"ok", "conflict"} =>
        resp'[q] = resp[q] /\ call'[q] = call[q] /\ handle'[q] = handle[q]
  <2>1. resp'[p].status \in {"ok", "conflict"} =>
          resp'[p] = resp[p] /\ call'[p] = call[p] /\ handle'[p] = handle[p]
    BY <1>1, <1>w DEF Moves, Rests, Takes, BeginsPut, BeginsUpdate, BeginsOther, Reads, Ends, BacksOff,
       Sends, Retries, SameCall, NoResp
  <2>. QED  BY <1>1, <2>1 DEF Moves, Frame
<1>. QED  BY <1>2, <1>3, <1>4 DEF VersionedInv

\* The server numbers what it stores from one.
LEMMA VersionedServe ==
  ASSUME IInv, VersionedInv, NEW r \in reqs, Serve(r)
  PROVE  VersionedInv'
PROOF
<1>. /\ store \in [Ids -> Object] /\ resp \in [Procs -> Response] /\ r.from \in Procs
     /\ r.version \in Nat /\ r.id \in Ids \cup {NoId} /\ (r.kind = "put" => r.version # 0)
  BY DEF IInv, TypeOK, Requests, PutInv
<1>1. /\ UNCHANGED <<handle, call>>
      /\ \A q \in Procs : resp'[q] = resp[q] \/ (q = r.from /\ Awaited(r))
      /\ Awaited(r) /\ resp'[r.from].status = "conflict" => r.kind = "put" /\ r.id \in Ids
  BY ServeAnswers DEF Answers
<1>2. /\ \A i \in Ids : store'[i].status # "absent" => store'[i].version # 0
      /\ Awaited(r) /\ r.kind = "put" /\ resp'[r.from].status = "ok" => resp'[r.from].version # 0
  <2>0. ASSUME NEW status, NEW i, NEW v, Answer(r, status, i, v)
        PROVE  Awaited(r) => resp'[r.from].status = status /\ resp'[r.from].version = v
    BY <2>0 DEF Answer
  <2>1. CASE ServeCreate(r)
    <3>1. PICK i \in Ids :
            /\ store' = [store EXCEPT ![i] = [status |-> "active", version |-> r.version,
                                              content |-> r.content]]
            /\ Answer(r, "ok", i, r.version) /\ r.kind = "put"
      BY <2>1 DEF ServeCreate
    <3>. QED  BY <2>0, <3>1 DEF VersionedInv
  <2>2. CASE ServeUpdate(r)
    <3>1. /\ Answer(r, "ok", r.id, r.version) /\ r.kind = "put"
          /\ store' = [store EXCEPT ![r.id].version = r.version, ![r.id].content = r.content]
      BY <2>2 DEF ServeUpdate
    <3>. QED  BY <2>0, <3>1 DEF VersionedInv
  <2>3. CASE ServeConflict(r) \/ ServeGone(r) \/ Refuse(r)
    <3>1. PICK status : Answer(r, status, r.id, 0) /\ status # "ok" /\ store' = store
      BY <2>3 DEF ServeConflict, ServeGone, Refuse
    <3>. QED  BY <2>0, <3>1 DEF VersionedInv
  <2>4. CASE ServeDelete(r) \/ ServeRecover(r)
    <3>1. PICK st \in {"active", "deleted"} : store' = [store EXCEPT ![r.id].status = st]
      BY <2>4 DEF ServeDelete, ServeRecover
    <3>2. r.kind # "put" /\ store[r.id].status # "absent"
      BY <2>4 DEF ServeDelete, ServeRecover
    <3>. QED  BY <3>1, <3>2 DEF VersionedInv
  <2>. QED  BY <2>1, <2>2, <2>3, <2>4 DEF Serve
<1>3. Awaited(r) => IF call[r.from].op \in {"put", "update"}
                      THEN r.kind = "put" /\ r.id = handle[r.from].id
                      ELSE r.kind # "put"
  BY DEF IInv, AwaitedInv, Carries
<1>4. ASSUME NEW q \in Procs, resp'[q].status = "ok", call[q].op \in {"put", "update"}
      PROVE  resp'[q].version # 0
  BY <1>1, <1>2, <1>3, <1>4 DEF VersionedInv
<1>5. ASSUME NEW q \in Procs, resp'[q].status = "conflict" PROVE handle[q].id # NoId
  BY <1>1, <1>3, <1>5 DEF VersionedInv
<1>. QED  BY <1>1, <1>2, <1>4, <1>5 DEF VersionedInv

\* Callers that never change an object from Scan or Query are refused for the
\* version only if another was stored since: the objects from Scan and Query, whose GardbMeta has no
\* Version (scan.go, query.go), are all that refutes the README's claim.
THEOREM OnlyListedObjectsConflict ==
  ASSUME "list" \notin Ops
  PROVE  Spec => []PutOfAnyObjectOnlyConflictsIfRaced
PROOF
<1>1. Init => VersionedInv
  BY DEF Init, VersionedInv, FreshObject, Absent, NoResp
<1>2. IInv /\ VersionedInv /\ [Next]_vars => VersionedInv'
  <2>. SUFFICES ASSUME IInv, VersionedInv, [Next]_vars PROVE VersionedInv'
    OBVIOUS
  <2>1. ASSUME NEW p \in Procs, CallerStep(p) PROVE VersionedInv'
    BY <2>1, VersionedMoves
  <2>2. ASSUME NEW r \in reqs, Serve(r) PROVE VersionedInv'
    BY <2>2, VersionedServe
  <2>3. CASE UNCHANGED vars
    BY <2>3 DEF vars, VersionedInv
  <2>. QED  BY <2>1, <2>2, <2>3 DEF Next, ServerStep, Finished
<1>3. VersionedInv /\ ConflictOnlyIfRaced => PutOfAnyObjectOnlyConflictsIfRaced
  BY DEF VersionedInv, ConflictOnlyIfRaced, PutOfAnyObjectOnlyConflictsIfRaced
<1>. QED  BY <1>1, <1>2, <1>3, Invariant, ConflictsAreRaces, PTL DEF Spec

=============================================================================
