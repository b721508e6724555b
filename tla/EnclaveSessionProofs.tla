------------------------ MODULE EnclaveSessionProofs ------------------------
(***************************************************************************)
(* Proofs about EnclaveSession, for any number of goroutines and sessions. *)
(* The inductive invariant adds to the properties who may be where while   *)
(* the exclusive lock is held.                                             *)
(***************************************************************************)
EXTENDS EnclaveSession, Naturals, TLAPS

\* A goroutine between Lock and Unlock is the writer, and alone once the
\* readers have left; a handshake starts from no session.
LockInv ==
  /\ \A p \in Procs : pc[p] \in {"drain", "locked", "handshake"} => writer = p
  /\ \A p \in Procs : pc[p] \in {"locked", "handshake"} => readers = {}
  /\ \A p \in Procs : pc[p] = "handshake" => ess = None

\* A session that is not open was closed by Close.
ClosedInv == ess # None /\ ess \notin open => closed

\* Past ensureSession, an operation without a session is waiting for another
\* goroutine's handshake, or that handshake has failed.
GapInv ==
  \A p \in Procs :
    op[p] = "crypto" /\ pc[p] \in {"rlock", "rwait", "using"} /\ ess = None
      => gap[p] \/ \E q \in Procs : pc[q] = "handshake"

IInv == TypeOK /\ LockInv /\ NoSessionLeaks /\ ClosedInv /\ GapInv

-----------------------------------------------------------------------------
\* The effect of Unlock by the one writer that holds the lock: the waiting readers
\* get the shared lock and nobody is left between Lock and Unlock.
LEMMA UnlockFrees ==
  ASSUME TypeOK, LockInv, NEW p \in Procs, pc[p] \in {"locked", "handshake"},
         NEW next \in {"idle", "rlock"}, Unlock(p, next)
  PROVE  /\ \A q \in Procs : pc'[q] \notin {"drain", "locked", "handshake"}
         /\ \A q \in Procs \ {p} :
              pc'[q] = (IF pc[q] = "rwait" THEN "using" ELSE pc[q])
         /\ pc'[p] = next
         /\ pc' \in [Procs -> Places]
         /\ readers' = {q \in Procs : pc'[q] = "using"}
         /\ writer' = None
<1> USE DEF TypeOK, LockInv, Unlock, WaitingReaders, Places
<1>1. \A q \in Procs : pc[q] # "using"
  OBVIOUS
<1>2. \A q \in Procs : pc'[q] = IF q = p THEN next
                                ELSE IF pc[q] = "rwait" THEN "using" ELSE pc[q]
  OBVIOUS
<1>3. pc' \in [Procs -> Places]
  OBVIOUS
<1>4. readers' = {q \in Procs : pc[q] = "rwait"}
  OBVIOUS
<1>5. \A q \in Procs : pc[q] = "rwait" <=> pc'[q] = "using"
  BY <1>1, <1>2
<1>6. readers' = {q \in Procs : pc'[q] = "using"}
  BY <1>4, <1>5
<1> QED
  BY <1>2, <1>3, <1>6

\* Type correctness holds initially and is kept by every step.
LEMMA TypeInit == Init => TypeOK
<1>1. Init => readers = {p \in Procs : pc[p] = "using"}
  BY DEF Init
<1> QED
  BY <1>1 DEF Init, TypeOK, Places

LEMMA TypeStep == TypeOK /\ LockInv /\ [Next]_vars => TypeOK'
<1> SUFFICES ASSUME TypeOK, LockInv, [Next]_vars PROVE TypeOK'
  OBVIOUS
<1> USE ConstantsOK DEF TypeOK, Places
<1>1. ASSUME NEW p \in Procs, Announce(p) PROVE TypeOK'
  BY <1>1 DEF Announce
<1>2. ASSUME NEW p \in Procs, Acquire(p) PROVE TypeOK'
  BY <1>2 DEF Acquire
<1>3. ASSUME NEW p \in Procs, RLock(p) PROVE TypeOK'
  <2>1. CASE writer = None
    BY <1>3, <2>1 DEF RLock
  <2>2. CASE writer # None
    BY <1>3, <2>2 DEF RLock
  <2> QED
    BY <2>1, <2>2
<1>4. ASSUME NEW p \in Procs, Reuse(p) PROVE TypeOK'
  BY <1>4, UnlockFrees DEF Reuse
<1>5. ASSUME NEW p \in Procs, Renew(p) PROVE TypeOK'
  BY <1>5 DEF Renew
<1>6. ASSUME NEW p \in Procs, NEW s \in Sessions, HandshakeOK(p, s) PROVE TypeOK'
  BY <1>6, UnlockFrees DEF HandshakeOK
<1>7. ASSUME NEW p \in Procs, HandshakeError(p) PROVE TypeOK'
  BY <1>7, UnlockFrees DEF HandshakeError
<1>8. ASSUME NEW p \in Procs, Close(p) PROVE TypeOK'
  BY <1>8, UnlockFrees DEF Close
<1>9. ASSUME NEW p \in Procs, Leave(p), panicked' \in BOOLEAN PROVE TypeOK'
  BY <1>9 DEF Leave
<1>10. ASSUME NEW p \in Procs, NEW o \in Ops, Call(p, o) PROVE TypeOK'
  BY <1>10 DEF Call
<1>11. CASE SessionAges
  BY <1>11 DEF SessionAges
<1>12. CASE UNCHANGED vars
  BY <1>12 DEF vars
<1> QED
  BY <1>1, <1>2, <1>3, <1>4, <1>5, <1>6, <1>7, <1>8, <1>9, <1>10, <1>11, <1>12
  DEF Next, Proceed, Use, NilSession, SessionInfo, Finished

-----------------------------------------------------------------------------
LEMMA LockStep == TypeOK /\ LockInv /\ [Next]_vars => LockInv'
<1> SUFFICES ASSUME TypeOK, LockInv, [Next]_vars PROVE LockInv'
  OBVIOUS
<1> USE ConstantsOK DEF LockInv
<1>1. ASSUME NEW p \in Procs, Announce(p) PROVE LockInv'
  BY <1>1 DEF Announce, TypeOK
<1>2. ASSUME NEW p \in Procs, Acquire(p) PROVE LockInv'
  BY <1>2 DEF Acquire, TypeOK
<1>3. ASSUME NEW p \in Procs, RLock(p) PROVE LockInv'
  <2>1. CASE writer = None
    <3>1. \A q \in Procs : pc[q] \notin {"drain", "locked", "handshake"}
      BY <2>1
    <3> QED
      BY <1>3, <2>1, <3>1 DEF RLock, TypeOK
  <2>2. CASE writer # None
    BY <1>3, <2>2 DEF RLock, TypeOK
  <2> QED
    BY <2>1, <2>2
<1>4. ASSUME NEW p \in Procs, Reuse(p) PROVE LockInv'
  BY <1>4, UnlockFrees DEF Reuse
<1>5. ASSUME NEW p \in Procs, Renew(p) PROVE LockInv'
  BY <1>5 DEF Renew, TypeOK
<1>6. ASSUME NEW p \in Procs, NEW s \in Sessions, HandshakeOK(p, s) PROVE LockInv'
  BY <1>6, UnlockFrees DEF HandshakeOK
<1>7. ASSUME NEW p \in Procs, HandshakeError(p) PROVE LockInv'
  BY <1>7, UnlockFrees DEF HandshakeError
<1>8. ASSUME NEW p \in Procs, Close(p) PROVE LockInv'
  BY <1>8, UnlockFrees DEF Close
<1>9. ASSUME NEW p \in Procs, Leave(p) PROVE LockInv'
  BY <1>9 DEF Leave, TypeOK
<1>10. ASSUME NEW p \in Procs, NEW o \in Ops, Call(p, o) PROVE LockInv'
  BY <1>10 DEF Call, TypeOK
<1>11. CASE SessionAges
  BY <1>11 DEF SessionAges
<1>12. CASE UNCHANGED vars
  BY <1>12 DEF vars
<1> QED
  BY <1>1, <1>2, <1>3, <1>4, <1>5, <1>6, <1>7, <1>8, <1>9, <1>10, <1>11, <1>12
  DEF Next, Proceed, Use, NilSession, SessionInfo, Finished

-----------------------------------------------------------------------------
\* The session in the client is the only one open, and nobody else closes it.
LEMMA SessionStep ==
  TypeOK /\ LockInv /\ NoSessionLeaks /\ ClosedInv /\ [Next]_vars
    => NoSessionLeaks' /\ ClosedInv'
<1> SUFFICES ASSUME TypeOK, LockInv, NoSessionLeaks, ClosedInv, [Next]_vars
             PROVE  NoSessionLeaks' /\ ClosedInv'
  OBVIOUS
<1> USE ConstantsOK DEF NoSessionLeaks, ClosedInv
<1>1. ASSUME UNCHANGED <<ess, open, closed>> PROVE NoSessionLeaks' /\ ClosedInv'
  BY <1>1
<1>2. ASSUME NEW p \in Procs, Renew(p) PROVE NoSessionLeaks' /\ ClosedInv'
  BY <1>2 DEF Renew
<1>3. ASSUME NEW p \in Procs, NEW s \in Sessions, HandshakeOK(p, s)
      PROVE  NoSessionLeaks' /\ ClosedInv'
  <2>1. ess = None
    BY <1>3 DEF HandshakeOK, LockInv
  <2>2. open = {}
    BY <2>1 DEF TypeOK
  <2> QED
    BY <1>3, <2>2 DEF HandshakeOK
<1>4. ASSUME NEW p \in Procs, Close(p) PROVE NoSessionLeaks' /\ ClosedInv'
  BY <1>4 DEF Close
<1>5. (\E p \in Procs : \/ Renew(p) \/ Close(p)
                        \/ \E s \in Sessions : HandshakeOK(p, s))
      \/ UNCHANGED <<ess, open, closed>>
  BY DEF Next, Proceed, Announce, Acquire, RLock, Reuse, HandshakeError, Use, NilSession,
         SessionInfo, Leave, Call, SessionAges, Finished, vars
<1> QED
  BY <1>1, <1>2, <1>3, <1>4, <1>5

-----------------------------------------------------------------------------
LEMMA GapStep == TypeOK /\ LockInv /\ GapInv /\ [Next]_vars => GapInv'
<1> SUFFICES ASSUME TypeOK, LockInv, GapInv, [Next]_vars,
                    NEW q \in Procs, op'[q] = "crypto",
                    pc'[q] \in {"rlock", "rwait", "using"}, ess' = None
             PROVE  gap'[q] \/ \E w \in Procs : pc'[w] = "handshake"
  BY DEF GapInv
<1> USE ConstantsOK DEF GapInv
<1> DEFINE Goal == gap'[q] \/ \E w \in Procs : pc'[w] = "handshake"
<1>1. ASSUME NEW p \in Procs, Announce(p) PROVE Goal
  BY <1>1 DEF Announce, TypeOK
<1>2. ASSUME NEW p \in Procs, Acquire(p) PROVE Goal
  BY <1>2 DEF Acquire, TypeOK
<1>3. ASSUME NEW p \in Procs, RLock(p) PROVE Goal
  <2>1. CASE writer = None
    BY <1>3, <2>1 DEF RLock, TypeOK
  <2>2. CASE writer # None
    BY <1>3, <2>2 DEF RLock, TypeOK
  <2> QED
    BY <2>1, <2>2
<1>4. ASSUME NEW p \in Procs, Reuse(p) PROVE Goal
  BY <1>4 DEF Reuse
<1>5. ASSUME NEW p \in Procs, Renew(p) PROVE Goal
  BY <1>5 DEF Renew, TypeOK
<1>6. ASSUME NEW p \in Procs, NEW s \in Sessions, HandshakeOK(p, s) PROVE Goal
  BY <1>6 DEF HandshakeOK
<1>7. ASSUME NEW p \in Procs, HandshakeError(p) PROVE Goal
  <2>1. q # p /\ pc[q] # "using"
    BY <1>7, UnlockFrees DEF HandshakeError, LockInv, TypeOK
  <2>2. pc[q] \in {"rlock", "rwait"}
    BY <1>7, <2>1, UnlockFrees DEF HandshakeError
  <2> QED
    BY <1>7, <2>2 DEF HandshakeError, InGap
<1>8. ASSUME NEW p \in Procs, Close(p) PROVE Goal
  <2>1. \A w \in Procs : pc[w] = "handshake" => w = p
    BY <1>8 DEF Close, LockInv
  <2>2. \A w \in Procs : pc[w] # "handshake"
    BY <1>8, <2>1 DEF Close
  <2>3. q # p /\ pc[q] \in {"rlock", "rwait", "using"}
    BY <1>8, UnlockFrees DEF Close
  <2> QED
    BY <1>8, <2>2, <2>3 DEF Close
<1>9. ASSUME NEW p \in Procs, Leave(p) PROVE Goal
  BY <1>9 DEF Leave, TypeOK
<1>10. ASSUME NEW p \in Procs, NEW o \in Ops, Call(p, o) PROVE Goal
  <2>1. CASE q = p
    BY <1>10, <2>1 DEF Call, TypeOK
  <2>2. CASE q # p
    BY <1>10, <2>2 DEF Call, TypeOK
  <2> QED
    BY <2>1, <2>2
<1>11. CASE SessionAges
  BY <1>11 DEF SessionAges
<1>12. CASE UNCHANGED vars
  BY <1>12 DEF vars
<1> QED
  BY <1>1, <1>2, <1>3, <1>4, <1>5, <1>6, <1>7, <1>8, <1>9, <1>10, <1>11, <1>12
  DEF Next, Proceed, Use, NilSession, SessionInfo, Finished

-----------------------------------------------------------------------------
THEOREM Inductive == Spec => []IInv
<1>1. Init => IInv
  BY TypeInit, ConstantsOK DEF IInv, Init, LockInv, NoSessionLeaks, ClosedInv, GapInv
<1>2. IInv /\ [Next]_vars => IInv'
  BY TypeStep, LockStep, SessionStep, GapStep DEF IInv
<1> QED
  BY <1>1, <1>2, PTL DEF Spec

\* Every variable holds what the code can put in it, and the holders of the
\* shared lock are the operations that run.
THEOREM TypeCorrect == Spec => []TypeOK
<1>1. IInv => TypeOK
  BY DEF IInv
<1> QED
  BY <1>1, Inductive, PTL

\* The client never has a session open other than the one it points to.
THEOREM NoLeaks == Spec => []NoSessionLeaks
<1>1. IInv => NoSessionLeaks
  BY DEF IInv
<1> QED
  BY <1>1, Inductive, PTL

\* An operation loses its session only to another goroutine's failed renewal
\* between ensureSession and RLock, or to Close.
THEOREM LostOnlyInGap == Spec => []SessionLostOnlyInGap
<1>1. ASSUME IInv PROVE SessionLostOnlyInGap
  <2> SUFFICES ASSUME NEW p \in Procs, pc[p] = "using", op[p] = "crypto", ess = None
               PROVE  gap[p]
    BY <1>1 DEF SessionLostOnlyInGap, IInv, ClosedInv
  <2>1. p \in readers
    BY <1>1 DEF IInv, TypeOK
  <2>2. \A q \in Procs : pc[q] # "handshake"
    BY <1>1, <2>1 DEF IInv, LockInv
  <2> QED
    BY <1>1, <2>2 DEF IInv, GapInv
<1> QED
  BY <1>1, Inductive, PTL

\* No session is closed or replaced under an operation that uses it.
THEOREM HeldInUse == Spec => SessionHeldInUse
<1>1. ASSUME IInv, [Next]_vars, NEW p \in Procs, pc[p] = "using", pc'[p] = "using"
      PROVE  ess' = ess /\ open' = open
  <2>1. p \in readers
    BY <1>1 DEF IInv, TypeOK
  <2>2. \A q \in Procs : pc[q] \notin {"locked", "handshake"}
    BY <1>1, <2>1 DEF IInv, LockInv
  <2> QED
    BY <1>1, <2>2 DEF Next, Proceed, Announce, Acquire, RLock, Reuse, Renew, HandshakeOK,
       HandshakeError, Close, Use, NilSession, SessionInfo, Leave, Call, SessionAges,
       Finished, vars
<1>2. IInv /\ [Next]_vars
        => [\A p \in Procs :
              pc[p] = "using" /\ pc'[p] = "using" => ess' = ess /\ open' = open]_vars
  BY <1>1
<1> QED
  BY <1>2, Inductive, PTL DEF Spec, SessionHeldInUse

-----------------------------------------------------------------------------
\* The panic needs a failing handshake: while handshakes succeed, no operation
\* panics, Close or not.
THEOREM NoFailureNoPanic ==
  ASSUME HandshakeFails = FALSE
  PROVE  Spec => []FailuresAreErrors
<1> DEFINE Quiet == FailuresAreErrors /\ \A p \in Procs : gap[p] = FALSE
<1>1. Init => Quiet
  BY DEF Init, FailuresAreErrors
<1>2. ASSUME IInv, Quiet, [Next]_vars PROVE Quiet'
  <2> USE DEF FailuresAreErrors
  <2>1. TypeOK
    BY <1>2 DEF IInv
  <2>2. \A p \in Procs : ~HandshakeError(p)
    BY DEF HandshakeError
  <2>3. \A p \in Procs : ~NilSession(p)
    <3> SUFFICES ASSUME NEW p \in Procs, NilSession(p) PROVE FALSE
      OBVIOUS
    <3>1. pc[p] = "using" /\ op[p] = "crypto" /\ ess = None
      BY DEF NilSession, Leave
    <3>2. p \in readers
      BY <2>1, <3>1 DEF TypeOK
    <3>3. \A q \in Procs : pc[q] # "handshake"
      BY <1>2, <3>2 DEF IInv, LockInv
    <3> QED
      BY <1>2, <3>1, <3>3 DEF IInv, GapInv
  <2>4. ASSUME NEW p \in Procs, Leave(p), UNCHANGED panicked PROVE Quiet'
    BY <1>2, <2>4 DEF Leave
  <2>5. ASSUME NEW p \in Procs, NEW o \in Ops, Call(p, o) PROVE Quiet'
    BY <1>2, <2>1, <2>5 DEF Call, TypeOK
  <2>6. ASSUME NEW p \in Procs, Reuse(p) \/ Close(p) \/ \E s \in Sessions : HandshakeOK(p, s)
        PROVE  Quiet'
    BY <1>2, <2>1, <2>6 DEF Reuse, Close, HandshakeOK, TypeOK
  <2>7. CASE UNCHANGED <<panicked, gap>>
    BY <1>2, <2>7
  <2> QED
    BY <1>2, <2>2, <2>3, <2>4, <2>5, <2>6, <2>7
    DEF Next, Proceed, Announce, Acquire, RLock, Renew, Use, SessionInfo, SessionAges,
        Finished, vars
<1>3. Quiet => FailuresAreErrors
  OBVIOUS
<1> QED
  BY <1>1, <1>2, <1>3, Inductive, PTL DEF Spec

-----------------------------------------------------------------------------
(* Why nobody waits for ever: the part of OperationsReturn that needs no   *)
(* fairness.                                                               *)

\* The goroutine that announced itself is between Lock and Unlock, whoever waits
\* for RLock waits for it, and everyone is on the way of its operation.
WaitInv ==
  /\ writer # None => pc[writer] \in {"drain", "locked", "handshake"}
  /\ \A p \in Procs :
       /\ pc[p] = "rwait" => writer # None
       /\ pc[p] \in {"lock", "drain", "locked"} => op[p] \in {"crypto", "close"}
       /\ pc[p] \in {"rlock", "rwait", "using"} => op[p] \in {"crypto", "info"}
       /\ pc[p] = "handshake" => op[p] = "crypto"

LEMMA WaitStep == IInv /\ WaitInv /\ [Next]_vars => WaitInv'
<1> SUFFICES ASSUME TypeOK, LockInv, WaitInv, [Next]_vars PROVE WaitInv'
  BY DEF IInv
<1> USE ConstantsOK DEF WaitInv
<1>1. ASSUME NEW p \in Procs, Announce(p) PROVE WaitInv'
  BY <1>1 DEF Announce, TypeOK
<1>2. ASSUME NEW p \in Procs, Acquire(p) PROVE WaitInv'
  BY <1>2 DEF Acquire, TypeOK
<1>3. ASSUME NEW p \in Procs, RLock(p) PROVE WaitInv'
  <2>1. CASE writer = None
    BY <1>3, <2>1 DEF RLock, TypeOK
  <2>2. CASE writer # None
    BY <1>3, <2>2 DEF RLock, TypeOK
  <2> QED
    BY <2>1, <2>2
<1>4. ASSUME NEW p \in Procs, NEW next \in {"idle", "rlock"}, Unlock(p, next),
             pc[p] \in {"locked", "handshake"}, next = "rlock" => op[p] \in {"crypto", "info"},
             op' = op \/ (next = "idle" /\ op' = [op EXCEPT ![p] = "none"])
      PROVE  WaitInv'
  <2>1. /\ \A q \in Procs \ {p} : pc'[q] = (IF pc[q] = "rwait" THEN "using" ELSE pc[q])
                                  /\ op'[q] = op[q]
        /\ \A q \in Procs : pc'[q] \notin {"drain", "locked", "handshake"}
        /\ pc'[p] = next /\ writer' = None
    BY <1>4, UnlockFrees DEF TypeOK
  <2>2. \A q \in Procs : pc'[q] # "rwait"
    BY <2>1
  <2> QED
    BY <1>4, <2>1, <2>2
<1>5. ASSUME NEW p \in Procs, Renew(p) PROVE WaitInv'
  BY <1>5 DEF Renew, TypeOK
<1>6. ASSUME NEW p \in Procs, Reuse(p) \/ \E s \in Sessions : HandshakeOK(p, s) PROVE WaitInv'
  BY <1>4, <1>6 DEF Reuse, HandshakeOK
<1>7. ASSUME NEW p \in Procs, HandshakeError(p) \/ Close(p) PROVE WaitInv'
  BY <1>4, <1>7 DEF HandshakeError, Close
<1>8. ASSUME NEW p \in Procs, Leave(p) PROVE WaitInv'
  BY <1>8 DEF Leave, TypeOK, LockInv
<1>9. ASSUME NEW p \in Procs, NEW o \in Ops, Call(p, o) PROVE WaitInv'
  BY <1>9 DEF Call, TypeOK
<1>10. CASE SessionAges \/ UNCHANGED vars
  BY <1>10 DEF SessionAges, vars
<1> QED
  BY <1>1, <1>2, <1>3, <1>5, <1>6, <1>7, <1>8, <1>9, <1>10
  DEF Next, Proceed, Use, NilSession, SessionInfo, Finished

LEMMA Waiting == Spec => [](IInv /\ WaitInv)
<1>1. Init => WaitInv
  BY DEF Init, WaitInv
<1> QED
  BY <1>1, WaitStep, Inductive, PTL DEF Spec

\* The guards of the steps of p, written out.
CanGoOn(p) ==
  \/ pc[p] = "lock" /\ writer = None                            \* Announce
  \/ pc[p] = "drain" /\ readers = {}                            \* Acquire
  \/ pc[p] = "rlock"                                            \* RLock
  \/ pc[p] = "locked" /\ op[p] \in {"crypto", "close"}          \* Reuse, Renew, Close
  \/ pc[p] = "handshake" /\ \E s \in Sessions : s \notin open   \* HandshakeOK
  \/ pc[p] = "using" /\ op[p] \in {"crypto", "info"}            \* Use, NilSession, SessionInfo

\* Whom p waits for: itself if it can go on, the goroutine that has or is about
\* to have the exclusive lock, or, if that one drains, those that hold the shared.
WaitsFor(p) ==
  IF CanGoOn(p) THEN {p}
  ELSE IF pc[p] \in {"lock", "rwait"} /\ readers = {} THEN {writer} ELSE readers

Unblocked ==
  \A p \in Procs : pc[p] # "idle" =>
    WaitsFor(p) # {} /\ \A q \in WaitsFor(p) : q \in Procs /\ CanGoOn(q)

\* essMu never locks the client up, though it is held across the handshake and
\* the requests: whoever cannot go on waits for a goroutine that can, and never
\* for a third one in a circle (ensureSession, the deferred unlocks of enclave.go).
THEOREM NobodyWaitsInACircle ==
  ASSUME Sessions # {}
  PROVE  Spec => []Unblocked
<1>1. ASSUME IInv, WaitInv, NEW p \in Procs, pc[p] # "idle"
      PROVE  WaitsFor(p) # {} /\ \A q \in WaitsFor(p) : q \in Procs /\ CanGoOn(q)
  <2> USE <1>1 DEF IInv, TypeOK
  <2>1. \A q \in readers : q \in Procs /\ CanGoOn(q)
    BY DEF WaitInv, CanGoOn
  <2>2. ASSUME writer # None, readers = {} PROVE writer \in Procs /\ CanGoOn(writer)
    <3>1. writer \in Procs /\ pc[writer] \in {"drain", "locked", "handshake"}
      BY <2>2 DEF WaitInv
    <3>2. CASE pc[writer] \in {"drain", "locked"}
      BY <2>2, <3>1, <3>2 DEF CanGoOn, WaitInv
    <3>3. CASE pc[writer] = "handshake"
      <4>1. open = {}
        BY <3>1, <3>3, ConstantsOK DEF LockInv, NoSessionLeaks
      <4> QED
        BY <3>1, <3>3, <4>1 DEF CanGoOn
    <3> QED
      BY <3>1, <3>2, <3>3
  <2>3. CASE CanGoOn(p)
    BY <2>3 DEF WaitsFor
  <2>4. CASE ~CanGoOn(p) /\ readers # {}
    BY <2>1, <2>4 DEF WaitsFor
  <2>5. CASE ~CanGoOn(p) /\ readers = {}
    <3>1. pc[p] \in {"lock", "drain", "locked", "handshake", "rlock", "rwait"}
      BY <2>5 DEF Places
    <3>2. pc[p] # "handshake"
      <4> SUFFICES ASSUME pc[p] = "handshake" PROVE FALSE
        OBVIOUS
      <4>1. open = {}
        BY ConstantsOK DEF LockInv, NoSessionLeaks
      <4> QED
        BY <2>5, <4>1 DEF CanGoOn
    <3>3. pc[p] \in {"lock", "rwait"} /\ writer # None
      BY <2>5, <3>1, <3>2 DEF CanGoOn, WaitInv
    <3> QED
      BY <2>2, <2>5, <3>3 DEF WaitsFor
  <2> QED
    BY <2>3, <2>4, <2>5
<1>2. IInv /\ WaitInv => Unblocked
  BY <1>1 DEF Unblocked
<1> QED
  BY <1>2, Waiting, PTL

\* How far an operation is from its end.
Distance(p) ==
  CASE pc[p] = "lock"      -> 7
    [] pc[p] = "drain"     -> 6
    [] pc[p] = "locked"    -> 5
    [] pc[p] = "handshake" -> 4
    [] pc[p] = "rlock"     -> 3
    [] pc[p] = "rwait"     -> 2
    [] pc[p] = "using"     -> 1
    [] OTHER               -> 0

\* No step, its own or another goroutine's, takes an operation back: it asks for
\* each lock once, has at most one handshake, and is over after seven steps.
THEOREM OperationsOnlyAdvance ==
  Spec => [][\A p \in Procs : pc[p] # "idle" /\ pc'[p] # pc[p] => Distance(p)' < Distance(p)]_vars
<1>1. ASSUME IInv, [Next]_vars, NEW p \in Procs, pc[p] # "idle", pc'[p] # pc[p]
      PROVE  Distance(p)' < Distance(p)
  <2> USE <1>1 DEF IInv, TypeOK
  <2>1. \/ pc[p] = "lock" /\ pc'[p] = "drain"
        \/ pc[p] = "drain" /\ pc'[p] = "locked"
        \/ pc[p] = "locked" /\ pc'[p] \in {"handshake", "rlock", "idle"}
        \/ pc[p] = "handshake" /\ pc'[p] \in {"rlock", "idle"}
        \/ pc[p] = "rlock" /\ pc'[p] \in {"rwait", "using"}
        \/ pc[p] = "rwait" /\ pc'[p] = "using"
        \/ pc[p] = "using" /\ pc'[p] = "idle"
    <3>1. ASSUME NEW q \in Procs, NEW next, Unlock(q, next), q # p PROVE pc[p] = "rwait" /\ pc'[p] = "using"
      BY <3>1 DEF Unlock, WaitingReaders
    <3>2. ASSUME NEW q \in Procs, NEW next, Unlock(q, next), q = p PROVE pc'[p] = next
      BY <3>2 DEF Unlock
    <3>3. ASSUME NEW q \in Procs, Announce(q) \/ Acquire(q) \/ RLock(q) \/ Renew(q) \/ Leave(q) \/ \E o \in Ops : Call(q, o)
          PROVE  q = p
      BY <3>3 DEF Announce, Acquire, RLock, Renew, Leave, Call
    <3> QED
      BY <3>1, <3>2, <3>3 DEF Next, Proceed, Announce, Acquire, RLock, Reuse, Renew, HandshakeOK,
         HandshakeError, Close, Use, NilSession, SessionInfo, Leave, Call, SessionAges, Finished, vars
  <2> QED
    BY <2>1 DEF Distance
<1>2. IInv /\ [Next]_vars
        => [\A p \in Procs : pc[p] # "idle" /\ pc'[p] # pc[p] => Distance(p)' < Distance(p)]_vars
  BY <1>1
<1> QED
  BY <1>2, Inductive, PTL DEF Spec

=============================================================================
