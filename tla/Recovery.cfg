CONSTANTS
    u1 = u1
    u2 = u2
    UUIDs = {u1, u2}
    MaxSubmits = 2
    MaxCache = 1
    MaxFaults = 2
    Environments <- MCEnvironments
    None = None
SPECIFICATION Spec
INVARIANTS TypeOK NeverSkips CompletedInFact MarkedIsSaved HistoryConsistent
PROPERTY EndReachesMySQL
CHECK_DEADLOCK FALSE
