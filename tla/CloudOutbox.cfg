SPECIFICATION MCSpec
CONSTANTS
    Proposals = {1, 2}
    Last <- MCLast
    Results <- MCResults
    Syncs = {s1, s2}
    first = s1
    MaxAttempts = 2
    MaxFaults = 1
    MaxRepairs = 1
    NoOwner = none
INVARIANTS
    TypeOK
    AcknowledgedWasTaken
    InOrder
PROPERTIES
    EventsSettle
    
