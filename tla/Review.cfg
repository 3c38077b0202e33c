SPECIFICATION Spec
SYMMETRY Symmetry
CONSTANTS
  c1 = c1
  c2 = c2
  r1 = r1
  r2 = r2
  one = one
  two = two
  team = team
  Policy = Policy
  NoProposal = NoProposal
  Proposals = {team, one, two}
  Reviewed = {team}
  Clients = {c1, c2}
  Reviewers = {r1, r2}
  ObjectOf <- MCObjectOf
  Required <- MCRequired
  Amount <- MCAmount
  Qualifies = {team, one, two}
  CountLimit = 1
  TotalLimit = 1
  Freshness = TRUE
  MaxProofs = 2
  MaxDay = 1
INVARIANT TypeOK
INVARIANT QuorumBeforeExecution
INVARIANT ProofAuthorizesOnce
INVARIANT PolicyDailyLimit
PROPERTY NoApprovalAfterStop
PROPERTY RejectionSettles
