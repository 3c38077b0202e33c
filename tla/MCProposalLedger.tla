--------------------------- MODULE MCProposalLedger ---------------------------
\* Instances of ProposalLedger for TLC.
EXTENDS ProposalLedger, TLC

CONSTANTS team, one, two

\* `team' needs two reviewers; `one' and `two' are about the same object.
MCObjectOf == [p \in Proposals |-> IF p = team THEN "team" ELSE "other"]
MCRequired == [p \in Proposals |-> IF p = team THEN 2 ELSE 1]
MCAmount == [p \in Proposals |-> 1]

\* Clients, reviewers, and the two proposals on one object are interchangeable.
Symmetry ==
  Permutations(Clients) \cup Permutations(Reviewers) \cup Permutations({one, two})
=============================================================================
