\* Two callers store and read one object, small and large, under both ways to
\* place blobs; requests are lost, late or refused between any two steps.
CONSTANTS
  p1 = p1
  p2 = p2
  o1 = o1
  Procs <- TwoProcs
  Ids <- OneId
  NoId = NoId
  Sizes <- AllSizes
  Placements <- AllPlacements
  MaxCalls <- FirstTwo
  Lossy = TRUE
  Refusals <- SomeRefusals
SPECIFICATION FairSpec
INVARIANTS
  TypeOK
  HandleIsAVersion
  StoredVersionHasABlob
  NoLostUpdate
PROPERTIES
  IsAtomic
  RefusedPutsStoreNothing
  CallsReturn
