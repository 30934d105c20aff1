\* Two requests about one incident, one target; one clerk and an outage, or two
\* clerks and none.
CONSTANTS
    Requests = {r1, r2}
    Buriers = {r1, r2}
    Targets = {"history"}
    Threshold = 2
    MaxAttempts = 2
    Letters = {"incident"}
    LetterOf <- SameLetter
    Clerks = {c1, c2}
    MaxRetries = 2
    Unread = Unread
    c1 = c1
    c2 = c2
    MaxFaults = 1
    Starts <- SomeStarts
SPECIFICATION FairSpec
INVARIANTS
    TypeOK
    LetterKept
PROPERTIES
    BreakerRecovers
    EveryLetterSettles
