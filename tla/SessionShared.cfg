\* Three goroutines share a session that is renewed, lost and closed.
CONSTANTS
  p1 = p1
  p2 = p2
  p3 = p3
  s1 = s1
  s2 = s2
  Procs <- ThreeProcs
  Sessions <- TwoSessions
  None = None
  Ops <- AllOps
  HandshakeFails = TRUE
SPECIFICATION FairSpec
INVARIANTS
  TypeOK
  NoSessionLeaks
  SessionLostOnlyInGap
PROPERTIES
  SessionHeldInUse
  OperationsReturn
