\* Two analyses on a pool of two connections, or an analysis and a question, or
\* two questions of one session; one failure.
CONSTANTS
    a1 = a1
    a2 = a2
    q1 = q1
    q2 = q2
    Analyses = {a1, a2}
    Questions = {q1, q2}
    Mixes <- SomeMixes
    Situations <- SomeSituations
    Replies <- SomeReplies
    PoolSize = 2
    MaxIterations = 3
    HistoryLimit = 1
    MaxFaults = 1
SPECIFICATION FairSpec
INVARIANTS
    TypeOK
    RuleOnlyWhenNeeded
    ReviewedIfDoubtful
    LastAnswerShown
PROPERTIES
    EveryRunEnds
\* The number of requests is bounded: when all are answered the system rests.
CHECK_DEADLOCK FALSE
