SPECIFICATION Spec
CONSTANTS
    Requests = {q1, q2, q3}
    p1 = p1
    p2 = p2
    v1 = v1
    v2 = v2
    c1 = c1
    Principals = {p1, p2}
    Tenant = tenant
    Plans <- MCPlans
    Results <- MCResults
    Window = 3
    Minute = 0
    Retention = 4
    QueryLimit <- MCQueryLimit
    RateLimit <- MCRateLimit
    CellLimit <- MCCellLimit
    VariantLimit <- MCVariantLimit
    MaxResponse = 2
    MaxLag = 1
    MaxTime = 5
    NoRequest = none
SYMMETRY Symmetry
INVARIANTS
    TypeOK
    QueryBudget
    ExtractionBudget
    NoComplementaryReleases
CHECK_DEADLOCK FALSE
