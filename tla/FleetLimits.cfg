SPECIFICATION FleetSpec
SYMMETRY Symmetry
CONSTANTS
  w1 = w1
  w2 = w2
  p1 = p1
  p2 = p2
  p3 = p3
  NoWorker = NoWorker
  NoProposal = NoProposal
  Workers = {w1, w2}
  Proposals = {p1, p2, p3}
  Supervised = TRUE
  Reconciles = FALSE
  ResultStates = {"applied"}
  FailureCodes = {"fatal"}
  Calls = {"enqueue"}
  MaxAttempts = 1
  RetryBudget = 1
  QueueLimit = 3
  MaxConcurrent = 1
  RateLimit = 1
  MaxLeases = 1
INVARIANT ConcurrencyOvershootBound
INVARIANT RateOvershootBound
PROPERTY LeasesStartUnderCap
