\* Two callers race on one object with every way to fill a handle, and what
\* may refuse a call does; no answer is lost.
\* Three calls each: create, update, and one more that can conflict.
CONSTANTS
  p1 = p1
  p2 = p2
  p3 = p3
  o1 = o1
  o2 = o2
  Procs <- TwoProcs
  Ids <- OneId
  NoId = NoId
  RetryOptions <- NoneOrTwo
  Ops <- AllOps
  MaxCalls <- ThreeEach
  Lossy = FALSE
  Refusals <- SomeRefusals
SPECIFICATION Spec
SYMMETRY ProcSymmetry
INVARIANTS
  HandlesAreSnapshots
  ConflictOnlyIfRaced
  EachConflictHasAWinner
PROPERTIES
  IsAtomic
