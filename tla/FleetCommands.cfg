SPECIFICATION FleetSpec
SYMMETRY Symmetry
CONSTANTS
  w1 = w1
  w2 = w2
  p1 = p1
  NoWorker = NoWorker
  NoProposal = NoProposal
  Workers = {w1, w2}
  Proposals = {p1}
  Supervised = TRUE
  Reconciles = TRUE
  ResultStates = {"applied", "conflict", "failed", "reconciliation_required"}
  FailureCodes = {"fatal"}
  Calls = {"enqueue", "cancel", "requeue"}
  MaxAttempts = 1
  RetryBudget = 1
  QueueLimit = 1
  MaxConcurrent = 1
  RateLimit = 1
  MaxLeases = 3
PROPERTY ClosedRowsStay
