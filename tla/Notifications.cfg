SPECIFICATION FairSpec
CONSTANTS
    e1 = e1
    Events = {e1}
    Commands = {c1, c2}
    Routes <- MCRoutes
    MaxAttempts = 2
    MaxCrashes = 1
    Replayed = {"dead_letter", "batched"}
    MaxReplays = 1
    NoLease = none
INVARIANTS
    TypeOK
    DeliveredWasReceived
    DigestCarriesMembers
PROPERTIES
    Fencing
    AtLeastOnce
