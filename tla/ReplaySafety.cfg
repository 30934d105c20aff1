\* Three transactions of every kind, two severities, one event deleted.
CONSTANTS
    Txns = {t1, t2, t3}
    Severities = {1, 2}
    MaxDeletes = 1
SPECIFICATION Spec
SYMMETRY Symmetry
INVARIANTS
    TypeOK
    LifecycleReplays
    DetailsUnlessOvertaken
    SilencedOnlyAfterDeletion
\* The number of requests is bounded: when all are answered the system rests.
CHECK_DEADLOCK FALSE
