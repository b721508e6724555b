\* A conflict is not reported as ErrVersionConflict.
CONSTANTS
  p1 = p1
  p2 = p2
  p3 = p3
  o1 = o1
  o2 = o2
  Procs <- TwoProcs
  Ids <- OneId
  NoId = NoId
  RetryOptions <- RetryOnce
  Ops <- WriteOps
  MaxCalls <- TwoEach
  Lossy = FALSE
  Refusals <- NoRefusals
SPECIFICATION Spec
PROPERTIES
  ConflictIsReported
