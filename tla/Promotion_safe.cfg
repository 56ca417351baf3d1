\* Two writers and one commit of each kind: to a ledger, to a merged table, to others.
SPECIFICATION Spec
CONSTANTS
  Writers = {p, q}
  Commits = {l, m, o}
  Ledger = {l}
  Merged = {m}
  None = None
SYMMETRY WriterSymmetry
INVARIANTS
  VerifiedCommitsSurvive
  SuccessCarriesLedgers
  SuccessLeavesNoOldWriter
  ReportIsTrue
