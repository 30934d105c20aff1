\* Two incidents, two supervisors, both callers, every failure once.
CONSTANTS
    Incidents = {i1, i2}
    Workers = {w1, w2}
    Keys = {k}
    Callers <- AndAllByHand
    MaxRequests = 2
    MaxBatch = 2
    MaxOpen = 2
    MaxPending = 1
    MaxRetries = 2
    MaxDeletes = 1
    MaxCrashes = 1
    MaxDbFaults = 1
SPECIFICATION Spec
SYMMETRY Symmetry
INVARIANTS
    TypeOK
    HeldExclusively
    AnalysisNotRepeated
    EffectsInOrder
    DeadLetterIffFailed
    OneIngestedJobPerIncident
PROPERTIES
    ImplementsAnalysisJobs
\* The number of calls is bounded: when all are answered and no bounded
\* occurrence is left, the system rests.
CHECK_DEADLOCK FALSE
