SPECIFICATION Spec
CONSTANTS
    Servers = {s1}
    Bridges = {b1}
    Mirrors = {}
    Keys = {k1}
    IntentKeys = {}
    MaxEntries = 2
    MaxOps = 2
    NoHolder = none
INVARIANT NoLostUpdate
