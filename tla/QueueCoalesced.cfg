\* Nothing is restarted or deleted: an alert still escapes analysis.
CONSTANTS
    Incidents = {i1, i2}
    Workers = {w1, w2}
    Keys = {}
    Callers <- Ingestion
    MaxRequests = 2
    MaxBatch = 2
    MaxOpen = 2
    MaxPending = 2
    MaxRetries = 2
    MaxDeletes = 0
    MaxCrashes = 0
    MaxDbFaults = 0
SPECIFICATION FairSpec
PROPERTIES
    EveryAlertAnalysed
\* The number of calls is bounded: when all are answered the system rests.
CHECK_DEADLOCK FALSE
