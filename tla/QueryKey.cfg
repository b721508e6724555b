\* A query does not find what was put.
CONSTANTS
  a = a
  b = b
  NoField = NoField
  Fields <- TwoFields
  Ids <- TwoIds
  MaxInt <- SmallMaxInt
  Floats <- SmallFloats
  Overflow <- SmallOverflow
  Scenarios <- OneIndex
  Limit = 1
  MaxChain = 3
  BadKeys = FALSE
SPECIFICATION Spec
INVARIANTS
  QueryFindsMatches
