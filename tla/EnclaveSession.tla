--------------------------- MODULE EnclaveSession ---------------------------
(***************************************************************************)
(* EnclaveClient (internal/enclave.go): one secure session with the        *)
(* enclave, shared by every goroutine of the client behind essMu.  An      *)
(* operation first makes sure of a session under the exclusive lock - and  *)
(* renews it there, handshake included - lets the lock go, and then uses   *)
(* whatever session it finds under the shared lock.                        *)
(*                                                                         *)
(* sync.RWMutex is outside this repository.  It is modelled by what its    *)
(* documentation promises: a writer that has announced itself stops new    *)
(* readers, waits for the present ones, and its Unlock admits the readers  *)
(* that waited before any other writer.  Keys, attestation and requests    *)
(* are not looked into; a clock is the flag that says whether the session  *)
(* is within SessionRenewalThreshold of its end.                           *)
(***************************************************************************)
CONSTANTS
  Procs,           \* the goroutines that share the client
  Sessions,        \* the sessions the enclave can open
  None,            \* Go's nil
  Ops,             \* the operations the goroutines call
  HandshakeFails   \* InitEnclaveSecureSession may fail

ASSUME ConstantsOK ==
  /\ None \notin Procs \cup Sessions
  /\ Ops \subseteq {"crypto", "info", "close"}
  /\ HandshakeFails \in BOOLEAN

VARIABLES
  ess,      \* the session the client points to, or None
  open,     \* the sessions that are open (their keys are in memory)
  due,      \* ess is due for renewal (shouldRenewSession)
  writer,   \* essMu: the goroutine that called Lock and was let through, or None
  readers,  \* essMu: the goroutines that hold the shared lock
  pc,       \* goroutine -> where it is
  op,       \* goroutine -> the operation it runs
  panicked, \* history: an operation has panicked
  gap,      \* history: goroutine -> a renewal failed between its two locks
  closed    \* history: Close was called

vars == <<ess, open, due, writer, readers, pc, op, panicked, gap, closed>>

Init ==
  /\ ess = None
  /\ open = {}
  /\ due = FALSE
  /\ writer = None
  /\ readers = {}
  /\ pc = [p \in Procs |-> "idle"]
  /\ op = [p \in Procs |-> "none"]
  /\ panicked = FALSE
  /\ gap = [p \in Procs |-> FALSE]
  /\ closed = FALSE

-----------------------------------------------------------------------------
(* essMu.                                                                  *)

\* Lock, first half: the writer goes ahead of the readers still to come.
Announce(p) ==
  /\ pc[p] = "lock"
  /\ writer = None
  /\ writer' = p
  /\ pc' = [pc EXCEPT ![p] = "drain"]
  /\ UNCHANGED <<ess, open, due, readers, op, panicked, gap, closed>>

\* Lock, second half: the readers of before have left.
Acquire(p) ==
  /\ pc[p] = "drain"
  /\ readers = {}
  /\ pc' = [pc EXCEPT ![p] = "locked"]
  /\ UNCHANGED <<ess, open, due, writer, readers, op, panicked, gap, closed>>

WaitingReaders == {q \in Procs : pc[q] = "rwait"}

\* Unlock admits the waiting readers; p goes on at "next".
Unlock(p, next) ==
  /\ writer' = None
  /\ readers' = WaitingReaders
  /\ pc' = [q \in Procs |-> IF q = p THEN next
                            ELSE IF q \in WaitingReaders THEN "using" ELSE pc[q]]

RLock(p) ==
  /\ pc[p] = "rlock"
  /\ IF writer = None
       THEN /\ readers' = readers \cup {p}
            /\ pc' = [pc EXCEPT ![p] = "using"]
       ELSE /\ pc' = [pc EXCEPT ![p] = "rwait"]
            /\ UNCHANGED readers
  /\ UNCHANGED <<ess, open, due, writer, op, panicked, gap, closed>>

-----------------------------------------------------------------------------
(* The operations.                                                         *)

\* An operation is called: GenerateDEK, GetTableIEK, DecryptDEKs and
\* GetTableHash ("crypto") and Close start with Lock, GetSessionInfo with RLock.
Call(p, o) ==
  /\ pc[p] = "idle"
  /\ op' = [op EXCEPT ![p] = o]
  /\ pc' = [pc EXCEPT ![p] = IF o = "info" THEN "rlock" ELSE "lock"]
  /\ UNCHANGED <<ess, open, due, writer, readers, panicked, gap, closed>>

\* Mutants: the old session is not closed; the lock is free during the handshake.
RenewKeepsOpen(p) ==
  /\ pc[p] = "locked" /\ op[p] = "crypto"
  /\ ess = None \/ due
  /\ ess' = None
  /\ due' = FALSE
  /\ pc' = [pc EXCEPT ![p] = "handshake"]
  /\ UNCHANGED <<open, writer, readers, op, panicked, gap, closed>>
RenewUnlocked(p) ==
  /\ pc[p] = "locked" /\ op[p] = "crypto"
  /\ ess = None \/ due
  /\ open' = open \ {ess}
  /\ ess' = None
  /\ due' = FALSE
  /\ Unlock(p, "handshake")
  /\ UNCHANGED <<op, panicked, gap, closed>>

\* ensureSession finds a session that has time left.
Reuse(p) ==
  /\ pc[p] = "locked" /\ op[p] = "crypto"
  /\ ess # None /\ ~due
  /\ Unlock(p, "rlock")
  /\ UNCHANGED <<ess, open, due, op, panicked, gap, closed>>

\* ensureSession finds no session, or drops the one that is due, and
\* starts a handshake.
Renew(p) ==
  /\ pc[p] = "locked" /\ op[p] = "crypto"
  /\ ess = None \/ due
  /\ open' = open \ {ess}
  /\ ess' = None
  /\ due' = FALSE
  /\ pc' = [pc EXCEPT ![p] = "handshake"]
  /\ UNCHANGED <<writer, readers, op, panicked, gap, closed>>

\* initEnclaveSecureSessionLocked, still under the lock.
HandshakeOK(p, s) ==
  /\ pc[p] = "handshake"
  /\ s \notin open
  /\ open' = open \cup {s}
  /\ ess' = s
  /\ Unlock(p, "rlock")
  /\ UNCHANGED <<due, op, panicked, gap, closed>>

\* The goroutines between the two locks of their operation.
InGap == {q \in Procs : pc[q] \in {"rlock", "rwait"}}

\* Mutant: the failing handshake returns without Unlock.
HandshakeErrorKeepsLock(p) ==
  /\ HandshakeFails
  /\ pc[p] = "handshake"
  /\ pc' = [pc EXCEPT ![p] = "idle"]
  /\ op' = [op EXCEPT ![p] = "none"]
  /\ gap' = [q \in Procs |-> q \in InGap \/ gap[q]]
  /\ UNCHANGED <<ess, open, due, writer, readers, panicked, closed>>

HandshakeError(p) ==
  /\ HandshakeFails
  /\ pc[p] = "handshake"
  /\ Unlock(p, "idle")
  /\ op' = [op EXCEPT ![p] = "none"]
  /\ gap' = [q \in Procs |-> q \in InGap \/ gap[q]]
  /\ UNCHANGED <<ess, open, due, panicked, closed>>

\* Mutant: Close does not take the lock.
CloseUnlocked(p) ==
  /\ pc[p] = "lock" /\ op[p] = "close"
  /\ open' = open \ {ess}
  /\ closed' = TRUE
  /\ pc' = [pc EXCEPT ![p] = "idle"]
  /\ op' = [op EXCEPT ![p] = "none"]
  /\ UNCHANGED <<ess, due, writer, readers, panicked, gap>>

\* Close: the session is closed and stays where it is.
Close(p) ==
  /\ pc[p] = "locked" /\ op[p] = "close"
  /\ open' = open \ {ess}
  /\ closed' = TRUE
  /\ Unlock(p, "idle")
  /\ op' = [op EXCEPT ![p] = "none"]
  /\ UNCHANGED <<ess, due, panicked, gap>>

\* Mutant: RUnlock is forgotten.
LeaveKeepsRLock(p) ==
  /\ pc[p] = "using"
  /\ pc' = [pc EXCEPT ![p] = "idle"]
  /\ op' = [op EXCEPT ![p] = "none"]
  /\ gap' = [gap EXCEPT ![p] = FALSE]
  /\ UNCHANGED <<ess, open, due, writer, readers, closed>>

\* The operation is over: deferred RUnlock.
Leave(p) ==
  /\ pc[p] = "using"
  /\ readers' = readers \ {p}
  /\ pc' = [pc EXCEPT ![p] = "idle"]
  /\ op' = [op EXCEPT ![p] = "none"]
  /\ gap' = [gap EXCEPT ![p] = FALSE]
  /\ UNCHANGED <<ess, open, due, writer, closed>>

\* The enclave answers, or the operation returns an error.
Use(p) == op[p] = "crypto" /\ ess # None /\ Leave(p) /\ UNCHANGED panicked

\* ec.ess is nil: the operation panics, and RUnlock runs on the way out.
NilSession(p) == op[p] = "crypto" /\ ess = None /\ Leave(p) /\ panicked' = TRUE

\* GetSessionInfo looks at the pointer only.
SessionInfo(p) == op[p] = "info" /\ Leave(p) /\ UNCHANGED panicked

\* Time passes.
SessionAges ==
  /\ ess # None
  /\ ~due
  /\ due' = TRUE
  /\ UNCHANGED <<ess, open, writer, readers, pc, op, panicked, gap, closed>>

-----------------------------------------------------------------------------
\* What p does by itself once it is let through.
Proceed(p) ==
  \/ Acquire(p) \/ RLock(p) \/ Reuse(p) \/ Renew(p)
  \/ (\E s \in Sessions : HandshakeOK(p, s)) \/ HandshakeError(p)
  \/ Close(p) \/ Use(p) \/ NilSession(p) \/ SessionInfo(p)

\* The callers may stop: a goroutine that cannot go on is a deadlock.
Finished == (\A p \in Procs : pc[p] = "idle") /\ UNCHANGED vars

Next ==
  \/ \E p \in Procs : Announce(p) \/ Proceed(p) \/ (\E o \in Ops : Call(p, o))
  \/ SessionAges
  \/ Finished

Spec == Init /\ [][Next]_vars

\* HTTPTimeout ends every exchange with the enclave, deferred unlocks always
\* run, and the mutex inside RWMutex serves a waiting writer sooner or later
\* (its starvation mode), though other writers may be served before.
Fairness == \A p \in Procs : WF_vars(Proceed(p)) /\ SF_vars(Announce(p))

FairSpec == Spec /\ Fairness

-----------------------------------------------------------------------------
Places == {"idle", "lock", "drain", "locked", "handshake", "rlock", "rwait", "using"}

\* Every variable holds what the code can put in it, and the shared lock is
\* held by the operations that run and by nobody else.
TypeOK ==
  /\ ess \in Sessions \cup {None}
  /\ open \subseteq Sessions
  /\ due \in BOOLEAN
  /\ writer \in Procs \cup {None}
  /\ readers = {p \in Procs : pc[p] = "using"}
  /\ pc \in [Procs -> Places]
  /\ op \in [Procs -> {"none", "crypto", "info", "close"}]
  /\ panicked \in BOOLEAN
  /\ gap \in [Procs -> BOOLEAN]
  /\ closed \in BOOLEAN

\* The client leaks no session: whatever is open is the session it points to,
\* through every renewal, failed handshake and Close (ensureSession, Close).
NoSessionLeaks == open \subseteq {ess}

\* An operation finds no session only if another goroutine's renewal failed in
\* the gap between its own ensureSession and its RLock, and a closed session
\* only if Close was called: nothing else takes the session away.
SessionLostOnlyInGap ==
  \A p \in Procs :
    pc[p] = "using" /\ op[p] = "crypto" =>
      /\ ess = None => gap[p]
      /\ ess # None /\ ess \notin open => closed

\* No session is closed or replaced while an operation uses it: the requests
\* of one operation (SessionUnwrap, then UnsealDEK for each key; SessionKey,
\* then SessionId) all see the same session.
SessionHeldInUse ==
  [][\A p \in Procs :
       pc[p] = "using" /\ pc'[p] = "using" => ess' = ess /\ open' = open]_vars

\* An operation that cannot have its session returns an error; it does not
\* panic (the doc comments of Put, Get and Scan: "An error if any step of the
\* retrieval or decryption process fails").
FailuresAreErrors == ~panicked

\* Every operation returns: nobody waits for essMu for ever, though it is held
\* across the handshake and across the requests of the operations.
OperationsReturn == \A p \in Procs : pc[p] # "idle" ~> pc[p] = "idle"

=============================================================================
