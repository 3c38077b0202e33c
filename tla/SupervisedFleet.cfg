SPECIFICATION Spec
SYMMETRY Symmetry
CONSTANTS
  w1 = w1
  w2 = w2
  p1 = p1
  row = row
  NoWorker = NoWorker
  NoProposal = NoProposal
  Workers = {w1, w2}
  Operators = {}
  Proposals = {p1}
  Rows <- MCRows
  Target <- MCTarget
  Supervised = TRUE
  Authority = "source_db"
  VersionAdvances = FALSE
  Calls = {"enqueue"}
  MaxAttempts = 2
  RetryBudget = 1
  QueueLimit = 2
  MaxConcurrent = 1
  RateLimit = 1
  MaxLeases = 2
  MaxVersion = 1
INVARIANT TypeOK
INVARIANT AtMostOnce
INVARIANT ConflictMeansUntouched
PROPERTY LeaseFencing
PROPERTY ImplementsFleet
