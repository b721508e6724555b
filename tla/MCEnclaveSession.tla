-------------------------- MODULE MCEnclaveSession --------------------------
(***************************************************************************)
(* TLC instances of EnclaveSession.                                        *)
(***************************************************************************)
EXTENDS EnclaveSession, TLC

CONSTANTS p1, p2, p3, s1, s2

TwoProcs == {p1, p2}
ThreeProcs == {p1, p2, p3}
TwoSessions == {s1, s2}

AllOps == {"crypto", "info", "close"}
CryptoOps == {"crypto"}
CryptoAndClose == {"crypto", "close"}

\* Goroutines and sessions differ only in name.
ProcAndSessionSymmetry == Permutations(Procs) \cup Permutations(Sessions)

=============================================================================
