\* A refresh with two concurrent stages next to a manual command.
SPECIFICATION FairSpec
CONSTANTS
  None = None
  k = k
  l = l
  Runs = {r1}
  Scripts = {s1}
  OldRuns <- NoOldRuns
  WorkStages = {"crawl", "classify"}
  TTL = 2
  Lag = 0
  MaxTime = 3
  MaxWrites = 1
PROPERTIES
  RunSettles
