--------------------------- MODULE MCExploreBudget ---------------------------
EXTENDS ExploreBudget, TLC

CONSTANTS p1, p2, v1, v2, c1

MCPlans ==
    {[principal |-> p1, variant |-> v1, aggregate |-> TRUE, cells |-> 1],
     [principal |-> p2, variant |-> v2, aggregate |-> TRUE, cells |-> 2]}

MCResults ==
    {[cells |-> 2, claims |-> {[kind |-> "scalar_total", complement |-> c1]}],
     [cells |-> 1, claims |-> {[kind |-> "suppressed_grouping", complement |-> c1]}]}

PerScope(principal, tenant) ==
    [s \in Scopes |-> IF s = Tenant THEN tenant ELSE principal]
MCQueryLimit == PerScope(2, 2)
MCRateLimit == PerScope(1, 1)
MCCellLimit == PerScope(2, 3)
MCVariantLimit == PerScope(1, 1)

Symmetry == Permutations(Requests)
=============================================================================
