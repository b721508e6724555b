\* Every index, type and pair of models of the instance; two objects, one to a
\* page, that come, change and go while they are read.
CONSTANTS
  a = a
  b = b
  NoField = NoField
  Fields <- TwoFields
  Ids <- TwoIds
  MaxInt <- SmallMaxInt
  Floats <- SmallFloats
  Overflow <- SmallOverflow
  Scenarios <- AllScenarios
  Limit = 1
  MaxChain = 3
  BadKeys = TRUE
SPECIFICATION Spec
INVARIANTS
  TypeOK
  ResultsMatch
  NothingMissed
  ItemsAreWhatWasPut
  ReadsCanBePutBack
  PagesAreReadable
