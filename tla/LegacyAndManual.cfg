SPECIFICATION Spec
SYMMETRY Symmetry
CONSTANTS
  w1 = w1
  o1 = o1
  p1 = p1
  row = row
  NoWorker = NoWorker
  NoProposal = NoProposal
  Workers = {w1}
  Operators = {o1}
  Proposals = {p1}
  Rows <- MCRows
  Target <- MCTarget
  Supervised = FALSE
  Authority = "source_db"
  VersionAdvances = FALSE
  Calls = {"enqueue", "cancel", "requeue"}
  MaxAttempts = 2
  RetryBudget = 1
  QueueLimit = 2
  MaxConcurrent = 1
  RateLimit = 1
  MaxLeases = 2
  MaxVersion = 1
INVARIANT LedgerClaimsAreReal
INVARIANT ConflictMeansUntouched
INVARIANT RetryWithinBudget
PROPERTY ImplementsFleet
