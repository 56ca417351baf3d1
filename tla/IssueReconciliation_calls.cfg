\* Two issues that are edited while they are read and classified.
SPECIFICATION FairSpec
CONSTANTS
  Issues = {i, j}
  MaxEdits = 1
  MaxAttempts = 2
  MaxReads = 2
  Concurrency = 2
  None = None
INVARIANTS
  LedgerAcceptsAttempts
  AcceptedWorkIsKept
  SuccessMeansCurrent
PROPERTIES
  EveryReconciliationEnds
