SPECIFICATION Spec
CONSTANTS
    Servers = {s1, s2}
    Bridges = {b1, b2}
    Mirrors = {b2}
    Keys = {k1, k2}
    IntentKeys = {k2}
    MaxEntries = 1
    MaxOps = 2
    NoHolder = none
SYMMETRY Symmetry
INVARIANTS
    TypeOK
    AcknowledgedSurvives
