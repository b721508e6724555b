\* A page that holds a JSON null panics.
CONSTANTS
  a = a
  b = b
  NoField = NoField
  Fields <- TwoFields
  Ids <- TwoIds
  MaxInt <- SmallMaxInt
  Floats <- SmallFloats
  Overflow <- SmallOverflow
  Scenarios <- OneMap
  Limit = 1
  MaxChain = 3
  BadKeys = FALSE
SPECIFICATION Spec
INVARIANTS
  FailuresAreErrors
