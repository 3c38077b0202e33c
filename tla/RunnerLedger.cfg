SPECIFICATION FairSpec
CONSTANTS
  w1 = w1
  p1 = p1
  row = row
  NoWorker = NoWorker
  NoProposal = NoProposal
  Workers = {w1}
  Operators = {}
  Proposals = {p1}
  Rows <- MCRows
  Target <- MCTarget
  Supervised = TRUE
  Authority = "runner_ledger"
  VersionAdvances = TRUE
  Calls = {"enqueue"}
  MaxAttempts = 2
  RetryBudget = 1
  QueueLimit = 2
  MaxConcurrent = 1
  RateLimit = 1
  MaxLeases = 3
  MaxVersion = 2
INVARIANT LedgerClaimsAreReal
PROPERTY ImplementsFleet
PROPERTY LeasedWorkIsDecided
