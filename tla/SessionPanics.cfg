\* A failed renewal makes another goroutine panic.
CONSTANTS
  p1 = p1
  p2 = p2
  p3 = p3
  s1 = s1
  s2 = s2
  Procs <- TwoProcs
  Sessions <- TwoSessions
  None = None
  Ops <- CryptoOps
  HandshakeFails = TRUE
SPECIFICATION Spec
INVARIANTS
  FailuresAreErrors
