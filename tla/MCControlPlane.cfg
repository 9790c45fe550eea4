SPECIFICATION FairSpec
CONSTANTS
    r1 = r1
    s1 = s1
    k1 = k1
    Requests <- MCRequests
    Sessions <- MCSessions
    Calls <- MCCalls
    Events <- MCEvents
    Limit = 2
    Window = 2
    MaxHits = 3
    MaxAttempts = 2
    MaxDelay = 2
    DrainMax = 2
INVARIANTS TypeOK QuotaKept
PROPERTIES DeniedFairly NewsEnds CutOnlyAfterDrain
