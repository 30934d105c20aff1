\* HTTP failures and timeouts at every call, no restart, no deletion; three
\* calls, of two overlapping transactions, race for the one place in the backlog.
CONSTANTS
    Incidents = {i1, i2}
    Workers = {w1}
    Keys = {}
    Callers <- AndOneByHand
    MaxRequests = 3
    MaxBatch = 2
    MaxOpen = 2
    MaxPending = 1
    MaxRetries = 2
    MaxDeletes = 0
    MaxCrashes = 0
    MaxDbFaults = 0
SPECIFICATION FairSpec
INVARIANTS
    BacklogBounded
PROPERTIES
    EveryJobSettles
\* The number of calls is bounded: when all are answered the system rests.
CHECK_DEADLOCK FALSE
