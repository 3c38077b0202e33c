SPECIFICATION Spec
SYMMETRY Symmetry
CONSTANTS
  o1 = o1
  o2 = o2
  p1 = p1
  p2 = p2
  row = row
  NoWorker = NoWorker
  NoProposal = NoProposal
  Workers = {}
  Operators = {o1, o2}
  Proposals = {p1, p2}
  Rows <- MCRows
  Target <- MCTarget
  Supervised = FALSE
  Authority = "source_db"
  VersionAdvances = TRUE
  Calls = {}
  MaxAttempts = 2
  RetryBudget = 1
  QueueLimit = 2
  MaxConcurrent = 2
  RateLimit = 2
  MaxLeases = 1
  MaxVersion = 1
INVARIANT OneWinnerPerVersion
