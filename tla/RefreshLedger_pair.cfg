\* Two refreshes compete for the lease, write evidence and publish, over up to two
\* publications of earlier versions.
SPECIFICATION Spec
CONSTANTS
  None = None
  k = k
  l = l
  Runs = {r1, r2}
  Scripts = {}
  OldRuns <- TwoOldRuns
  WorkStages = {"crawl"}
  TTL = 1
  Lag = 1
  MaxTime = 2
  MaxWrites = 1
SYMMETRY ActorSymmetry
INVARIANTS
  SealedByReceipt
  NoStaleOpenAttempt
  CrashedHolderBlocksAtMostTTL
  PublishedTip
PROPERTIES
  CancelledNeverPublishes
  ImplementsAuthority
