\* Answers are lost, calls time out or are cancelled, requests are served late,
\* Update retries; two ids, so that an object can be created twice.
CONSTANTS
  p1 = p1
  p2 = p2
  p3 = p3
  o1 = o1
  o2 = o2
  Procs <- TwoProcs
  Ids <- TwoIds
  NoId = NoId
  RetryOptions <- SkipOrOnce
  Ops <- WriteOps
  MaxCalls <- FirstTwo
  Lossy = TRUE
  Refusals <- NoRefusals
SPECIFICATION FairSpec
INVARIANTS
  TypeOK
  NoLostUpdate
  AppliedAtMostOnce
  UnknownObjectsHadNoAnswer
PROPERTIES
  IsAtomic
  CallsReturn
